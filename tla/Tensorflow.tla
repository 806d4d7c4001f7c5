---- MODULE Tensorflow ----
(***************************************************************************)
(* pkg/tensorflow: what a TFJob lacks, given what the controller holds.    *)
(*                                                                         *)
(* A slot is one of the four collections a distributed job is made of; a   *)
(* local job has the worker pods only.  An event of Action is a slot that  *)
(* is due, with the number of objects to create in it.                     *)
(***************************************************************************)
EXTENDS Integers

CONSTANTS LocalJob,        \* checker.IsLocalJob
          WorkerReplicas,  \* Replicas of the worker spec (1 for a local job)
          PSReplicas       \* Replicas of the PS spec (0 for a local job)

ASSUME ReplicasAssumption ==
    /\ LocalJob \in BOOLEAN
    /\ WorkerReplicas \in Nat \ {0}
    /\ PSReplicas \in Nat
    /\ LocalJob => WorkerReplicas = 1 /\ PSReplicas = 0

PodSlots == IF LocalJob THEN {"workerPods"} ELSE {"workerPods", "psPods"}
ServiceSlots == IF LocalJob THEN {} ELSE {"workerServices", "psServices"}
Slots == PodSlots \cup ServiceSlots

\* The order in which Action appends its events: services first.
EventRank(s) == CASE s = "workerServices" -> 1
                  [] s = "psServices" -> 2
                  [] s = "workerPods" -> 3
                  [] s = "psPods" -> 4

\* How many objects of a slot the job should have.  Succeeded workers are not
\* replaced; parameter servers are, whatever the workers did.
Expected(s, succeeded) == IF s \in {"workerPods", "workerServices"}
                          THEN WorkerReplicas - succeeded
                          ELSE PSReplicas

\* LocalJob.Action: NewLocalJob keeps a pod only when there is exactly one.
\* mutant: a succeeded pod does not count
LocalDueAgain(n, succeeded) == IF n["workerPods"] # 1 THEN {"workerPods"} ELSE {}
LocalDue(n, succeeded) ==
    IF succeeded = 0 /\ n["workerPods"] # 1 THEN {"workerPods"} ELSE {}

\* DistributedJob.Action: services are created when there are none at all, pods
\* whenever one is missing.
DistributedDue(n, succeeded) ==
    {s \in Slots : IF s \in ServiceSlots THEN n[s] = 0
                                         ELSE n[s] < Expected(s, succeeded)}

\* n[s] is the number of active pods, or of services, held in slot s.
Due(n, succeeded) == IF LocalJob THEN LocalDue(n, succeeded)
                                 ELSE DistributedDue(n, succeeded)

Number(s, n, succeeded) == IF LocalJob THEN 1 ELSE Expected(s, succeeded) - n[s]

\* Every missing worker makes Action call compose(), which draws a new RuntimeID.
Composes(due) == "workerPods" \in due
====
