---- MODULE MCTFJobController ----
(***************************************************************************)
(* Budgets for TLC: what happens, and how often, in each run.  Workers may *)
(* sync and pods may succeed without bound unless a budget says otherwise. *)
(***************************************************************************)
EXTENDS TFJobController, TLC

Allow(f) == [k \in EventKinds |->
               IF k \in DOMAIN f THEN f[k]
               ELSE IF k \in {"sync", "podSucceed"} THEN -1 ELSE 0]

Calm == {Allow([sync |-> -1])}
ApiFault == {Allow([api |-> 1])}
Restart == {Allow([crash |-> 1])}
\* The TFJob is deleted and created again; or a creation times out and is made again.
NewLife == {Allow(deletion :> 1 @@ [crash |-> 1, timeout |-> 1, expire |-> 1, sync |-> 2])
              : deletion \in {"jobDelete", "foreground"}}
           \cup {Allow([timeout |-> 1, userUpdate |-> 1, sync |-> 3])}
TwoSyncs == {Allow(fault :> 1 @@ [sync |-> 2, podSucceed |-> 0]) : fault \in {"api", "timeout"}}

\* A call and a pod fail; or a pod fails, one is deleted and a reflector misses events; or
\* the latter happens to a pod that succeeded; or the TFJob is deleted and created again.
Faults == {Allow([api |-> 1, podFail |-> 1]),
           Allow([podFail |-> 1, podDelete |-> 1, relist |-> 1, sync |-> 3, podSucceed |-> 0]),
           Allow([podDelete |-> 1, relist |-> 1, sync |-> 3, podSucceed |-> 1]),
           Allow([jobDelete |-> 1, relist |-> 1, sync |-> 4, podSucceed |-> 0])}

\* Somebody writes to the TFJob, or deletes it, and the controller sees the deletion or not.
ClientWrites == {Allow([userUpdate |-> 1]),
                 Allow([jobDelete |-> 1, missed |-> 1, podSucceed |-> 1])}
====
