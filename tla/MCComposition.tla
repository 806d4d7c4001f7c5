---- MODULE MCComposition ----
(***************************************************************************)
(* What users write: a distributed TFJob with the parts in either order, a *)
(* local one, and what nobody checks before the controller reads it.       *)
(***************************************************************************)
EXTENDS Composition

Written(t, n) == [type |-> t, replicas |-> n, labels |-> Unset]

TwoWorkers == {<<Written("PS", 1), Written("Worker", 2)>>}
AllKinds == {<<Written("PS", 1), Written("Worker", 1)>>,
             <<Written("Worker", 0), Written("PS", 1)>>,
             <<Written("Worker", 1), Written("PS", Unset)>>,
             <<Written("Worker", 1)>>,
             <<Written("Local", 1)>>,
             <<>>}
====
