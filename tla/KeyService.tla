---- MODULE KeyService ----
(***************************************************************************)
(* What the work queue promises its users: a requested key is handled      *)
(* later, requests that come together are handled together (or not, when   *)
(* their back-offs end apart), and a key is handled by one worker at a     *)
(* time.                                                                   *)
(***************************************************************************)
CONSTANT Keys

VARIABLES pending,   \* keys requested and not yet taken
          handling,  \* keys taken by a worker
          closed     \* no more requests

vars == <<pending, handling, closed>>

Init == pending = {} /\ handling = {} /\ closed = FALSE

Request(k) ==
    /\ ~closed
    /\ pending' = pending \cup {k}
    /\ UNCHANGED <<handling, closed>>

Start(k) ==
    /\ k \in pending \ handling
    /\ pending' \in {pending, pending \ {k}}
    /\ handling' = handling \cup {k}
    /\ UNCHANGED closed

Finish(k) ==
    /\ k \in handling
    /\ handling' = handling \ {k}
    /\ UNCHANGED <<pending, closed>>

\* Keys that wait for their back-off when the queue is shut down are forgotten.
Close ==
    /\ closed' = TRUE
    /\ pending' \in SUBSET pending
    /\ UNCHANGED handling

\* The process is started again.
Restart == pending' = {} /\ handling' = {} /\ closed' = FALSE

Next == (\E k \in Keys : Request(k) \/ Start(k) \/ Finish(k)) \/ Close \/ Restart

Spec == Init /\ [][Next]_vars
====
