---- MODULE Ownership ----
(***************************************************************************)
(* What the controller-ref managers promise about who controls an object:  *)
(* nobody takes an object from its controller, only its controller gives   *)
(* it up, and a controller takes objects only in a pass that it began      *)
(* while it existed.                                                       *)
(***************************************************************************)
EXTENDS Naturals

CONSTANTS Jobs, Objs

VARIABLES owner,    \* the controller of each object, 0 when there is none
          alive,    \* controllers that exist and are not being deleted
          entitled  \* those that began their pass when they were alive

vars == <<owner, alive, entitled>>

Init == /\ owner \in [Objs -> Jobs \cup {0}]
        /\ alive = Jobs
        /\ entitled = {}

Begin(u) == /\ u \in alive
            /\ entitled' = entitled \cup {u}
            /\ UNCHANGED <<owner, alive>>

\* Passes end, one or (when the process dies) all of them.
End == /\ entitled' \in SUBSET entitled
       /\ UNCHANGED <<owner, alive>>

Adopt(u, o) == /\ u \in entitled
               /\ owner[o] = 0
               /\ owner' = [owner EXCEPT ![o] = u]
               /\ UNCHANGED <<alive, entitled>>

Release(u, o) == /\ owner[o] = u
                 /\ owner' = [owner EXCEPT ![o] = 0]
                 /\ UNCHANGED <<alive, entitled>>

Delete(u) == /\ alive' = alive \ {u}
             /\ UNCHANGED <<owner, entitled>>

Next == \/ \E u \in Jobs : \/ Begin(u) \/ Delete(u)
                           \/ \E o \in Objs : Adopt(u, o) \/ Release(u, o)
        \/ End

Spec == Init /\ [][Next]_vars
====
