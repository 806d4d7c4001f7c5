---- MODULE WorkQueue ----
(***************************************************************************)
(* The rate-limited work queue of client-go and the controller's workers   *)
(* around it: queue.go, delaying_queue.go, rate_limitting_queue.go,        *)
(* processNextWorkItem.  The back-off is reduced to a set of keys that     *)
(* wait for it; insert keeps one entry per key.                            *)
(***************************************************************************)
EXTENDS Sequences, Naturals, FiniteSets

CONSTANTS Keys,     \* TFJob keys, "namespace/name"
          Workers,  \* the threadiness of Run
          NoKey     \* what a worker holds that holds no key

ASSUME NoKeyAssumption == NoKey \notin Keys

VARIABLES queue, dirty, processing, shuttingDown,  \* workqueue.Type
          waiting,                                 \* waitingLoop's heap
          held,                                    \* the key of each worker
          exited                                   \* workers that saw the shutdown

vars == <<queue, dirty, processing, shuttingDown, waiting, held, exited>>

Init ==
    /\ queue = <<>>
    /\ dirty = {}
    /\ processing = {}
    /\ shuttingDown = FALSE
    /\ waiting = {}
    /\ held = [w \in Workers |-> NoKey]
    /\ exited = {}

\* AddRateLimited, by an event handler: AddAfter hands the key to waitingLoop.
AddRateLimited(k) ==
    /\ ~shuttingDown
    /\ waiting' = waiting \cup {k}
    /\ UNCHANGED <<queue, dirty, processing, shuttingDown, held, exited>>

\* What Add appends; a dirty key is in the queue already, or Done will put it there.  The
\* mutants look at one of the two sets only.
AppendedUnlessDirty(k) == IF k \in dirty THEN queue ELSE Append(queue, k)
AppendedUnlessProcessing(k) == IF k \in processing THEN queue ELSE Append(queue, k)
Appended(k) == IF k \in dirty \cup processing THEN queue ELSE Append(queue, k)

\* Type.Add, by waitingLoop when the back-off is over; the loop ends at shutdown.
Add(k) ==
    /\ ~shuttingDown
    /\ k \in waiting
    /\ waiting' = waiting \ {k}
    /\ dirty' = dirty \cup {k}
    /\ queue' = Appended(k)
    /\ UNCHANGED <<processing, shuttingDown, held, exited>>

Get(w) ==
    /\ w \notin exited
    /\ held[w] = NoKey
    /\ queue # <<>>
    /\ LET k == Head(queue)
       IN /\ held' = [held EXCEPT ![w] = k]
          /\ processing' = processing \cup {k}
          /\ dirty' = dirty \ {k}
    /\ queue' = Tail(queue)
    /\ UNCHANGED <<shuttingDown, waiting, exited>>

\* What Done appends.  The mutants forget the dirty set, or append the cleared item.
Forgotten(k) == queue
ReappendedCleared(k) == IF k \in dirty THEN Append(queue, NoKey) ELSE queue
Reappended(k) == IF k \in dirty THEN Append(queue, k) ELSE queue

\* Done, deferred by processNextWorkItem whether syncHandler failed or not.
Done(w) ==
    /\ held[w] # NoKey
    /\ processing' = processing \ {held[w]}
    /\ queue' = Reappended(held[w])
    /\ held' = [held EXCEPT ![w] = NoKey]
    /\ UNCHANGED <<dirty, shuttingDown, waiting, exited>>

ShutDown ==
    /\ ~shuttingDown
    /\ shuttingDown' = TRUE
    /\ UNCHANGED <<queue, dirty, processing, waiting, held, exited>>

\* Get reports the shutdown once the queue is drained, and runWorker ends.
Exit(w) ==
    /\ shuttingDown
    /\ w \notin exited
    /\ held[w] = NoKey
    /\ queue = <<>>
    /\ exited' = exited \cup {w}
    /\ UNCHANGED <<queue, dirty, processing, shuttingDown, waiting, held>>

Next ==
    \/ \E k \in Keys : AddRateLimited(k) \/ Add(k)
    \/ \E w \in Workers : Get(w) \/ Done(w) \/ Exit(w)
    \/ ShutDown

Spec == Init /\ [][Next]_vars

-----------------------------------------------------------------------------
\* The variables have the types of the fields of workqueue.Type.
TypeOK ==
    /\ queue \in Seq(Keys)
    /\ dirty \subseteq Keys
    /\ processing \subseteq Keys
    /\ shuttingDown \in BOOLEAN
    /\ waiting \subseteq Keys
    /\ held \in [Workers -> Keys \cup {NoKey}]
    /\ exited \subseteq Workers

\* The controller never processes one key in two workers at the same time.
NoConcurrentSync ==
    \A v, w \in Workers : v # w /\ held[v] # NoKey => held[v] # held[w]

\* The queue's own comment: an element of queue is in dirty and not in processing.  Also,
\* no element occurs twice.
QueueShape ==
    /\ \A i \in 1..Len(queue) : queue[i] \in dirty \ processing
    /\ \A i, j \in 1..Len(queue) : queue[i] = queue[j] => i = j

\* No request is lost: a dirty key is in the queue, or a worker holds it and its Done will
\* put it there.
NoLostKey ==
    \A k \in dirty : \/ \E i \in 1..Len(queue) : queue[i] = k
                     \/ \E w \in Workers : held[w] = k

\* The work queue implements the abstract key service.
Service == INSTANCE KeyService WITH
             pending <- dirty \cup (IF shuttingDown THEN {} ELSE waiting),
             handling <- processing,
             closed <- shuttingDown
ImplementsService == Service!Spec
====
