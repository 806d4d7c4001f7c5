---- MODULE ControllerRunProofs ----
(***************************************************************************)
(* Proofs about the work queue, for any set of keys and any number of      *)
(* workers: its shape, mutual exclusion per key, no lost request, and that *)
(* it implements the abstract key service.  Then about the process around  *)
(* it: the same holds when it starts, stops, dies and is started again; no *)
(* TFJob is synced before the cache is complete; workers that all ended by *)
(* themselves left nothing behind.                                         *)
(***************************************************************************)
EXTENDS ControllerRun, TLAPS

\* The processing set is what the workers hold.
ProcessingIsHeld == \A k \in Keys : k \in processing <=> \E w \in Workers : held[w] = k

\* The inductive invariant: Get needs QueueShape to see that the head is not processed yet,
\* Done needs mutual exclusion to see that the key leaves the processing set for good.
QueueInv == TypeOK /\ ProcessingIsHeld /\ NoConcurrentSync /\ QueueShape /\ NoLostKey

-----------------------------------------------------------------------------
\* The parts of the invariant that speak about the queue after an Append.
LEMMA AppendShape ==
    ASSUME QueueInv, NEW k \in Keys, \A i \in 1..Len(queue) : queue[i] # k
    PROVE  LET q == Append(queue, k)
           IN /\ q \in Seq(Keys)
              /\ Len(q) = Len(queue) + 1
              /\ q[Len(q)] = k
              /\ \A i \in 1..Len(queue) : q[i] = queue[i]
              /\ \A i \in 1..Len(q) : q[i] = k \/ i \in 1..Len(queue)
              /\ \A i, j \in 1..Len(q) : q[i] = q[j] => i = j
<1> DEFINE q == Append(queue, k)
<1>1. queue \in Seq(Keys)
  BY DEF QueueInv, TypeOK
<1>2. q \in Seq(Keys) /\ Len(q) = Len(queue) + 1 /\ q[Len(q)] = k
  BY <1>1
<1>3. \A i \in 1..Len(queue) : q[i] = queue[i]
  BY <1>1
<1>4. \A i \in 1..Len(q) : i = Len(q) \/ i \in 1..Len(queue)
  BY <1>1, <1>2
<1>5. \A i, j \in 1..Len(queue) : queue[i] = queue[j] => i = j
  BY DEF QueueInv, QueueShape
<1> QED
  BY <1>2, <1>3, <1>4, <1>5

LEMMA TailShape ==
    ASSUME QueueInv, queue # <<>>
    PROVE  /\ Head(queue) \in Keys
           /\ Head(queue) = queue[1]
           /\ 1 \in 1..Len(queue)
           /\ Tail(queue) \in Seq(Keys)
           /\ \A i \in 1..Len(Tail(queue)) : i + 1 \in 1..Len(queue) /\ i + 1 # 1
                                             /\ Tail(queue)[i] = queue[i + 1]
           /\ \A i \in 1..Len(queue) : i # 1 => /\ i - 1 \in 1..Len(Tail(queue))
                                                /\ Tail(queue)[i - 1] = queue[i]
<1>1. queue \in Seq(Keys)
  BY DEF QueueInv, TypeOK
<1> QED
  BY <1>1

-----------------------------------------------------------------------------
LEMMA InitInv == Init => QueueInv
<1> SUFFICES ASSUME Init
             PROVE  QueueInv
  OBVIOUS
<1>1. TypeOK
  <2>1. queue \in Seq(Keys)
    BY DEF Init
  <2> QED
    BY <2>1 DEF Init, TypeOK
<1>2. ProcessingIsHeld /\ NoConcurrentSync
  BY NoKeyAssumption DEF Init, ProcessingIsHeld, NoConcurrentSync
<1>3. QueueShape /\ NoLostKey
  BY DEF Init, QueueShape, NoLostKey
<1> QED
  BY <1>1, <1>2, <1>3 DEF QueueInv

LEMMA AddInv ==
    ASSUME QueueInv, NEW k \in Keys, Add(k)
    PROVE  QueueInv'
<1>1. CASE k \in dirty \cup processing
  BY <1>1 DEF Add, Appended, QueueInv, TypeOK, ProcessingIsHeld, NoConcurrentSync, QueueShape,
     NoLostKey
<1>2. CASE k \notin dirty \cup processing
  <2>1. queue' = Append(queue, k)
    BY <1>2 DEF Add, Appended
  <2>2. \A i \in 1..Len(queue) : queue[i] # k
    BY <1>2 DEF QueueInv, QueueShape
  <2>3. /\ queue' \in Seq(Keys)
        /\ Len(queue') = Len(queue) + 1
        /\ queue'[Len(queue')] = k
        /\ \A i \in 1..Len(queue) : queue'[i] = queue[i]
        /\ \A i \in 1..Len(queue') : queue'[i] = k \/ i \in 1..Len(queue)
        /\ \A i, j \in 1..Len(queue') : queue'[i] = queue'[j] => i = j
    BY <2>1, <2>2, AppendShape
  <2>4. TypeOK'
    BY <2>3 DEF Add, QueueInv, TypeOK
  <2>5. ProcessingIsHeld' /\ NoConcurrentSync'
    BY DEF Add, QueueInv, ProcessingIsHeld, NoConcurrentSync
  <2>6. QueueShape'
    BY <1>2, <2>3 DEF Add, QueueInv, QueueShape
  <2>7. NoLostKey'
    <3>1. Len(queue) \in Nat
      BY DEF QueueInv, TypeOK
    <3>2. Len(queue') \in 1..Len(queue') /\ 1..Len(queue) \subseteq 1..Len(queue')
      BY <2>3, <3>1
    <3>3. dirty' = dirty \cup {k} /\ held' = held
      BY DEF Add
    <3> QED
      BY <2>3, <3>2, <3>3 DEF QueueInv, NoLostKey
  <2> QED
    BY <2>4, <2>5, <2>6, <2>7 DEF QueueInv
<1> QED
  BY <1>1, <1>2

LEMMA GetInv ==
    ASSUME QueueInv, NEW w \in Workers, Get(w)
    PROVE  QueueInv'
<1> DEFINE k == Head(queue)
<1>1. queue # <<>> /\ held[w] = NoKey
  BY DEF Get
<1>2. /\ k \in Keys
      /\ k = queue[1]
      /\ 1 \in 1..Len(queue)
      /\ Tail(queue) \in Seq(Keys)
      /\ \A i \in 1..Len(Tail(queue)) : i + 1 \in 1..Len(queue) /\ i + 1 # 1
                                        /\ Tail(queue)[i] = queue[i + 1]
      /\ \A i \in 1..Len(queue) : i # 1 => /\ i - 1 \in 1..Len(Tail(queue))
                                           /\ Tail(queue)[i - 1] = queue[i]
  BY <1>1, TailShape
<1>3. /\ queue' = Tail(queue)
      /\ held' = [held EXCEPT ![w] = k]
      /\ processing' = processing \cup {k}
      /\ dirty' = dirty \ {k}
  BY DEF Get
<1>4. k \in dirty \ processing
  BY <1>2 DEF QueueInv, QueueShape
<1>5. \A v \in Workers : held[v] # k
  BY <1>2, <1>4 DEF QueueInv, ProcessingIsHeld
<1>6. held \in [Workers -> Keys \cup {NoKey}] /\ k # NoKey
  BY <1>2, NoKeyAssumption DEF QueueInv, TypeOK
<1> HIDE DEF k
<1>7. TypeOK'
  BY <1>2, <1>3, <1>6 DEF Get, QueueInv, TypeOK
<1>8. ProcessingIsHeld'
  BY <1>1, <1>2, <1>3, <1>6, NoKeyAssumption DEF QueueInv, ProcessingIsHeld
<1>9. NoConcurrentSync'
  BY <1>3, <1>5, <1>6 DEF QueueInv, NoConcurrentSync
<1>10. QueueShape'
  <2>1. \A i \in 1..Len(queue') : queue'[i] \in dirty' \ processing'
    BY <1>2, <1>3 DEF QueueInv, QueueShape
  <2>2. \A i, j \in 1..Len(queue') : queue'[i] = queue'[j] => i = j
    <3>1. SUFFICES ASSUME NEW i \in 1..Len(queue'), NEW j \in 1..Len(queue'),
                          queue'[i] = queue'[j]
                   PROVE  i = j
      OBVIOUS
    <3>2. i + 1 = j + 1
      BY <1>2, <1>3, <3>1 DEF QueueInv, QueueShape
    <3> QED
      BY <3>2
  <2> QED
    BY <2>1, <2>2 DEF QueueShape
<1>11. NoLostKey'
  <2>1. ASSUME NEW d \in dirty'
        PROVE  \/ \E i \in 1..Len(queue') : queue'[i] = d
               \/ \E v \in Workers : held'[v] = d
    <3>1. d \in dirty /\ d # k
      BY <1>3, <2>1
    <3>2. CASE \E i \in 1..Len(queue) : queue[i] = d
      BY <1>2, <1>3, <3>1, <3>2
    <3>3. CASE \E v \in Workers : held[v] = d
      <4>1. PICK v \in Workers : held[v] = d
        BY <3>3
      <4>2. v # w
        BY <1>1, <3>1, <4>1, NoKeyAssumption DEF QueueInv, TypeOK
      <4> QED
        BY <1>3, <1>6, <4>1, <4>2
    <3> QED
      BY <3>1, <3>2, <3>3 DEF QueueInv, NoLostKey
  <2> QED
    BY <2>1 DEF NoLostKey
<1> QED
  BY <1>7, <1>8, <1>9, <1>10, <1>11 DEF QueueInv

LEMMA DoneInv ==
    ASSUME QueueInv, NEW w \in Workers, Done(w)
    PROVE  QueueInv'
<1> DEFINE k == held[w]
<1>1. /\ k # NoKey
      /\ processing' = processing \ {k}
      /\ queue' = IF k \in dirty THEN Append(queue, k) ELSE queue
      /\ held' = [held EXCEPT ![w] = NoKey]
      /\ dirty' = dirty
  BY DEF Done, Reappended
<1>2. k \in Keys /\ held \in [Workers -> Keys \cup {NoKey}]
  BY <1>1 DEF QueueInv, TypeOK
<1>3. k \in processing
  BY <1>2 DEF QueueInv, ProcessingIsHeld
<1>4. \A i \in 1..Len(queue) : queue[i] # k
  BY <1>3 DEF QueueInv, QueueShape
<1>5. \A v \in Workers : v # w => held[v] # k
  BY <1>1 DEF QueueInv, NoConcurrentSync
<1>6. Len(queue) \in Nat
  BY DEF QueueInv, TypeOK
<1> HIDE DEF k
<1>7. ProcessingIsHeld'
  BY <1>1, <1>2, <1>5, NoKeyAssumption DEF QueueInv, ProcessingIsHeld, k
<1>8. NoConcurrentSync'
  BY <1>1, <1>2 DEF QueueInv, NoConcurrentSync
<1>9. TypeOK' /\ QueueShape' /\ NoLostKey'
  <2>1. CASE k \notin dirty
    <3>1. queue' = queue
      BY <1>1, <2>1
    <3>2. TypeOK'
      BY <1>1, <1>2, <3>1 DEF Done, QueueInv, TypeOK
    <3>3. QueueShape'
      BY <1>1, <3>1 DEF QueueInv, QueueShape
    <3>4. NoLostKey'
      BY <1>1, <1>2, <2>1, <3>1 DEF QueueInv, NoLostKey, k
    <3> QED
      BY <3>2, <3>3, <3>4
  <2>2. CASE k \in dirty
    <3>1. queue' = Append(queue, k)
      BY <1>1, <2>2
    <3>2. /\ queue' \in Seq(Keys)
          /\ Len(queue') = Len(queue) + 1
          /\ queue'[Len(queue')] = k
          /\ \A i \in 1..Len(queue) : queue'[i] = queue[i]
          /\ \A i \in 1..Len(queue') : queue'[i] = k \/ i \in 1..Len(queue)
          /\ \A i, j \in 1..Len(queue') : queue'[i] = queue'[j] => i = j
      BY <1>2, <1>4, <3>1, AppendShape
    <3>3. TypeOK'
      BY <1>1, <1>2, <3>2 DEF Done, QueueInv, TypeOK
    <3>4. QueueShape'
      BY <1>1, <2>2, <3>2 DEF QueueInv, QueueShape
    <3>5. Len(queue') \in 1..Len(queue') /\ 1..Len(queue) \subseteq 1..Len(queue')
      BY <1>6, <3>2
    <3>6. ASSUME NEW d \in dirty', d # k
          PROVE  \/ \E i \in 1..Len(queue') : queue'[i] = d
                 \/ \E v \in Workers : held'[v] = d
      BY <1>1, <1>2, <3>2, <3>5, <3>6 DEF QueueInv, NoLostKey, k
    <3>7. NoLostKey'
      BY <3>2, <3>5, <3>6 DEF NoLostKey
    <3> QED
      BY <3>3, <3>4, <3>7
  <2> QED
    BY <2>1, <2>2
<1> QED
  BY <1>7, <1>8, <1>9 DEF QueueInv

LEMMA NextInv == QueueInv /\ [Next]_vars => QueueInv'
<1> SUFFICES ASSUME QueueInv, [Next]_vars
             PROVE  QueueInv'
  OBVIOUS
<1> USE DEF QueueInv, TypeOK, ProcessingIsHeld, NoConcurrentSync, QueueShape, NoLostKey
<1>1. ASSUME NEW k \in Keys, AddRateLimited(k)
      PROVE  QueueInv'
  BY <1>1 DEF AddRateLimited
<1>2. ASSUME NEW k \in Keys, Add(k)
      PROVE  QueueInv'
  BY <1>2, AddInv
<1>3. ASSUME NEW w \in Workers, Get(w)
      PROVE  QueueInv'
  BY <1>3, GetInv
<1>4. ASSUME NEW w \in Workers, Done(w)
      PROVE  QueueInv'
  BY <1>4, DoneInv
<1>5. ASSUME NEW w \in Workers, Exit(w)
      PROVE  QueueInv'
  BY <1>5 DEF Exit
<1>6. CASE ShutDown
  BY <1>6 DEF ShutDown
<1>7. CASE UNCHANGED vars
  BY <1>7 DEF vars
<1> QED
  BY <1>1, <1>2, <1>3, <1>4, <1>5, <1>6, <1>7 DEF Next

THEOREM Invariance == Spec => []QueueInv
BY InitInv, NextInv, PTL DEF Spec

\* The queue of the controller is well typed: Done never appends what is not a key.
THEOREM TypeCorrect == Spec => []TypeOK
<1>1. QueueInv => TypeOK
  BY DEF QueueInv
<1> QED
  BY <1>1, Invariance, PTL

\* No two workers of the controller sync the same TFJob at the same time, however many
\* workers there are: what the comment on Controller.workqueue promises.
THEOREM MutualExclusion == Spec => []NoConcurrentSync
<1>1. QueueInv => NoConcurrentSync
  BY DEF QueueInv
<1> QED
  BY <1>1, Invariance, PTL

\* Every element of the queue is dirty, not processed, and there once.
THEOREM Shape == Spec => []QueueShape
<1>1. QueueInv => QueueShape
  BY DEF QueueInv
<1> QED
  BY <1>1, Invariance, PTL

\* No request that reached the queue is forgotten.
THEOREM NothingLost == Spec => []NoLostKey
<1>1. QueueInv => NoLostKey
  BY DEF QueueInv
<1> QED
  BY <1>1, Invariance, PTL

-----------------------------------------------------------------------------
LEMMA InitRefines == Init => Service!Init
BY DEF Init, Service!Init

LEMMA StepRefines == QueueInv /\ [Next]_vars => [Service!Next]_(Service!vars)
<1> SUFFICES ASSUME QueueInv, [Next]_vars
             PROVE  Service!Next \/ UNCHANGED Service!vars
  OBVIOUS
<1> DEFINE pending == dirty \cup (IF shuttingDown THEN {} ELSE waiting)
<1>1. ASSUME NEW k \in Keys, AddRateLimited(k)
      PROVE  Service!Request(k)
  BY <1>1 DEF AddRateLimited, Service!Request
<1>2. ASSUME NEW k \in Keys, Add(k)
      PROVE  UNCHANGED Service!vars
  BY <1>2 DEF Add, Service!vars
<1>3. ASSUME NEW w \in Workers, Get(w)
      PROVE  \E k \in Keys : Service!Start(k)
  <2> DEFINE k == Head(queue)
  <2>1. k \in Keys /\ k \in dirty \ processing
    BY <1>3, TailShape DEF Get, QueueInv, QueueShape
  <2>2. /\ processing' = processing \cup {k}
        /\ dirty' = dirty \ {k}
        /\ UNCHANGED <<shuttingDown, waiting>>
    BY <1>3 DEF Get
  <2> HIDE DEF k
  <2>3. pending' = pending \/ pending' = pending \ {k}
    BY <2>1, <2>2
  <2> QED
    BY <2>1, <2>2, <2>3 DEF Service!Start
<1>4. ASSUME NEW w \in Workers, Done(w)
      PROVE  \E k \in Keys : Service!Finish(k)
  <2>1. held[w] \in Keys /\ held[w] \in processing
    BY <1>4 DEF Done, QueueInv, TypeOK, ProcessingIsHeld
  <2> QED
    BY <1>4, <2>1 DEF Done, Service!Finish
<1>5. ASSUME NEW w \in Workers, Exit(w)
      PROVE  UNCHANGED Service!vars
  BY <1>5 DEF Exit, Service!vars
<1>6. CASE ShutDown
  BY <1>6 DEF ShutDown, Service!Next, Service!Close
<1>7. CASE UNCHANGED vars
  BY <1>7 DEF vars, Service!vars
<1> QED
  BY <1>1, <1>2, <1>3, <1>4, <1>5, <1>6, <1>7 DEF Next, Service!Next

\* The work queue does what its users count on: a key that an event handler asks for is
\* handled afterwards, requests may be merged but not invented, one worker at a time.
THEOREM Refinement == Spec => ImplementsService
BY InitRefines, StepRefines, Invariance, PTL DEF Spec, ImplementsService, Service!Spec

-----------------------------------------------------------------------------
(***************************************************************************)
(* The process.                                                            *)
(***************************************************************************)
\* A worker works only in runWorker, which Run calls after WaitForCacheSync.
OnlyRunningHold == \A w \in Workers : held[w] # NoKey => goroutine[w] = "running"
LaunchedAfterSync ==
    \A w \in Workers : goroutine[w] # "none" => main # "syncing" /\ unseen = {}

\* Get reports a shutdown to idle workers only.
ExitedIdle == \A w \in exited : shuttingDown /\ held[w] = NoKey

RunInv == /\ QueueInv
          /\ RunTypeOK
          /\ OnlyRunningHold
          /\ LaunchedAfterSync
          /\ ExitedIdle
          /\ NothingLeftBehind

-----------------------------------------------------------------------------
\* What the process does is a step of the queue, or leaves it alone, or starts it anew.
LEMMA QueueSteps == [RunNext]_runVars => [Next]_vars \/ Restart
<1> SUFFICES ASSUME [RunNext]_runVars
             PROVE  [Next]_vars \/ Restart
  OBVIOUS
<1>1. CASE Signal \/ FirstSignal \/ SecondSignal
  BY <1>1 DEF Signal, FirstSignal, SecondSignal, queueVars
<1>2. CASE LaunchWorkers \/ GiveUp \/ Unblock \/ Exits \/ Dies
  BY <1>2 DEF LaunchWorkers, GiveUp, Unblock, Exits, Dies, queueVars
<1>3. CASE Return
  BY <1>3 DEF Return, Next
<1>4. CASE \E w \in Workers : StartWorker(w)
  BY <1>4 DEF StartWorker, queueVars
<1>5. CASE \E w \in Workers : Work(w) \/ ExitWorker(w)
  BY <1>5 DEF Work, ExitWorker, Next
<1>6. CASE \E k \in Keys : Deliver(k) \/ Watch(k)
  BY <1>6 DEF Deliver, Watch, queueVars
<1>7. CASE \E k \in Keys : Handler(k)
  BY <1>7 DEF Handler, queueVars, Next
<1>8. CASE \E k \in Keys : BackOffEnds(k)
  BY <1>8 DEF BackOffEnds, Next
<1>9. CASE Restart
  BY <1>9
<1>10. CASE UNCHANGED runVars
  BY <1>10 DEF runVars, queueVars
<1> QED
  BY <1>1, <1>2, <1>3, <1>4, <1>5, <1>6, <1>7, <1>8, <1>9, <1>10 DEF RunNext

LEMMA RestartInits == Restart => QueueInv'
<1> SUFFICES ASSUME Restart
             PROVE  QueueInv'
  OBVIOUS
<1>1. <<>> \in Seq(Keys) /\ \A i \in 1..Len(<<>>) : FALSE
  OBVIOUS
<1>2. TypeOK' /\ QueueShape'
  BY <1>1 DEF Restart, TypeOK, QueueShape
<1>3. ProcessingIsHeld' /\ NoConcurrentSync' /\ NoLostKey'
  BY NoKeyAssumption DEF Restart, ProcessingIsHeld, NoConcurrentSync, NoLostKey
<1> QED
  BY <1>2, <1>3 DEF QueueInv

-----------------------------------------------------------------------------
LEMMA RunInitInv == RunInit => RunInv
<1> SUFFICES ASSUME RunInit
             PROVE  RunInv
  OBVIOUS
<1>1. QueueInv
  BY InitInv DEF RunInit
<1>2. RunTypeOK
  <2>1. 1 \in 1..MaxRuns /\ 0 \in 0..2
    BY RunsAssumption
  <2>2. goroutine \in [Workers -> {"none", "launched", "running", "ended"}]
    BY DEF RunInit
  <2> QED
    BY <2>1, <2>2 DEF RunInit, RunTypeOK, MainStates
<1>3. OnlyRunningHold /\ LaunchedAfterSync /\ ExitedIdle /\ NothingLeftBehind
  BY RunsAssumption DEF RunInit, Init, OnlyRunningHold, LaunchedAfterSync, ExitedIdle,
     NothingLeftBehind
<1> QED
  BY <1>1, <1>2, <1>3 DEF RunInv

LEMMA SignalsCaught ==
    ASSUME signals \in 0..2, Signal \/ FirstSignal \/ SecondSignal
    PROVE  signals' \in 0..2
BY DEF Signal, FirstSignal, SecondSignal, Capacity

LEMMA RunTypes == RunInv /\ [RunNext]_runVars => RunTypeOK'
<1> SUFFICES ASSUME RunTypeOK, [RunNext]_runVars
             PROVE  RunTypeOK'
  BY DEF RunInv
<1> USE DEF RunTypeOK, MainStates, End
<1>1. CASE Signal \/ FirstSignal \/ SecondSignal
  <2>0. signals \in 0..2
    BY DEF RunTypeOK
  <2>1. signals' \in 0..2
    BY <1>1, <2>0, SignalsCaught
  <2>2. main' \in MainStates /\ code' \in {0, 1, 2, 255} /\ stopped' \in BOOLEAN
    <3>1. (main' = main \/ main' = "ended") /\ (code' = code \/ code' = 1)
      BY <1>1 DEF Signal, FirstSignal, SecondSignal
    <3>2. stopped' = stopped \/ stopped' = TRUE
      BY <1>1 DEF Signal, FirstSignal, SecondSignal
    <3>3. main' \in MainStates
      BY <3>1
    <3>4. code' \in {0, 1, 2, 255}
      BY <3>1
    <3>5. stopped' \in BOOLEAN
      <4>1. stopped \in BOOLEAN
        BY Zenon DEF RunTypeOK
      <4> HIDE DEF RunTypeOK
      <4> QED
        BY <4>1, <3>2, Zenon
    <3> QED
      BY <3>3, <3>4, <3>5
  <2>3. UNCHANGED <<goroutine, unseen, events, runs>>
    BY <1>1 DEF Signal, FirstSignal, SecondSignal, informerVars
  <2> QED
    BY <2>1, <2>2, <2>3
<1>2. CASE LaunchWorkers \/ GiveUp \/ Unblock
  BY <1>2 DEF LaunchWorkers, GiveUp, Unblock, informerVars
<1>3. CASE Return \/ Exits \/ Dies
  BY <1>3 DEF Return, Exits, Dies, informerVars
<1>4. CASE \E w \in Workers : StartWorker(w) \/ Work(w) \/ ExitWorker(w)
  BY <1>4 DEF StartWorker, Work, ExitWorker, processVars, informerVars
<1>5. CASE \E k \in Keys : Deliver(k) \/ Watch(k) \/ Handler(k) \/ BackOffEnds(k)
  BY <1>5 DEF Deliver, Watch, Handler, BackOffEnds, processVars, informerVars
<1>6. CASE Restart
  <2>1. runs' \in 1..MaxRuns
    BY <1>6, RunsAssumption DEF Restart
  <2>2. 0 \in 0..2
    OBVIOUS
  <2>3. goroutine' \in [Workers -> {"none", "launched", "running", "ended"}]
    BY <1>6 DEF Restart
  <2> QED
    BY <1>6, <2>1, <2>2, <2>3 DEF Restart
<1>7. CASE UNCHANGED runVars
  BY <1>7 DEF runVars, processVars, informerVars
<1> QED
  BY <1>1, <1>2, <1>3, <1>4, <1>5, <1>6, <1>7 DEF RunNext

\* A worker that takes a key runs; one that starts or ends holds none.
LEMMA Holding == RunInv /\ [RunNext]_runVars => OnlyRunningHold'
<1> SUFFICES ASSUME RunInv, [RunNext]_runVars
             PROVE  OnlyRunningHold'
  OBVIOUS
<1> USE DEF OnlyRunningHold, RunInv
<1> held \in [Workers -> Keys \cup {NoKey}]
    /\ goroutine \in [Workers -> {"none", "launched", "running", "ended"}]
  BY DEF QueueInv, TypeOK, RunTypeOK
<1>1. CASE Signal \/ FirstSignal \/ SecondSignal
  BY <1>1 DEF Signal, FirstSignal, SecondSignal, queueVars, vars
<1>2. CASE LaunchWorkers
  <2>1. \A w \in Workers : held[w] = NoKey
    BY <1>2 DEF LaunchWorkers, LaunchedAfterSync
  <2> QED
    BY <1>2, <2>1 DEF LaunchWorkers, queueVars, vars
<1>3. CASE GiveUp \/ Unblock \/ Exits \/ Dies
  BY <1>3 DEF GiveUp, Unblock, Exits, Dies, queueVars, vars
<1>4. CASE Return
  BY <1>4 DEF Return, ShutDown
<1>5. ASSUME NEW w \in Workers, StartWorker(w)
      PROVE  OnlyRunningHold'
  BY <1>5 DEF StartWorker, queueVars, vars
<1>6. ASSUME NEW w \in Workers, Work(w)
      PROVE  OnlyRunningHold'
  BY <1>6 DEF Work, Get, Done, processVars
<1>7. ASSUME NEW w \in Workers, ExitWorker(w)
      PROVE  OnlyRunningHold'
  BY <1>7 DEF ExitWorker, Exit
<1>8. CASE \E k \in Keys : Deliver(k) \/ Watch(k) \/ Handler(k) \/ BackOffEnds(k)
  BY <1>8 DEF Deliver, Watch, Handler, BackOffEnds, processVars, queueVars, vars,
     AddRateLimited, Add
<1>9. CASE Restart
  BY <1>9 DEF Restart
<1>10. CASE UNCHANGED runVars
  BY <1>10 DEF runVars, processVars, queueVars, vars
<1> QED
  BY <1>1, <1>2, <1>3, <1>4, <1>5, <1>6, <1>7, <1>8, <1>9, <1>10 DEF RunNext
LEMMA LaunchOrder == RunInv /\ [RunNext]_runVars => LaunchedAfterSync'
<1> SUFFICES ASSUME RunInv, [RunNext]_runVars
             PROVE  LaunchedAfterSync'
  OBVIOUS
<1> USE DEF LaunchedAfterSync, RunInv
<1> goroutine \in [Workers -> {"none", "launched", "running", "ended"}]
  BY DEF RunTypeOK
<1>1. CASE Signal \/ FirstSignal \/ SecondSignal
  BY <1>1 DEF Signal, FirstSignal, SecondSignal, informerVars, End
<1>2. CASE LaunchWorkers
  BY <1>2 DEF LaunchWorkers, CacheSynced, informerVars
<1>3. CASE GiveUp \/ Unblock \/ Return \/ Exits \/ Dies
  BY <1>3 DEF GiveUp, Unblock, Return, Exits, Dies, End, informerVars
<1>4. CASE \E w \in Workers : StartWorker(w) \/ Work(w) \/ ExitWorker(w)
  BY <1>4 DEF StartWorker, Work, ExitWorker, informerVars, processVars, OnlyRunningHold
<1>5. CASE \E k \in Keys : Deliver(k) \/ Watch(k) \/ Handler(k) \/ BackOffEnds(k)
  BY <1>5 DEF Deliver, Watch, Handler, BackOffEnds, processVars, informerVars
<1>6. CASE Restart
  BY <1>6 DEF Restart
<1>7. CASE UNCHANGED runVars
  BY <1>7 DEF runVars, processVars, informerVars
<1> QED
  BY <1>1, <1>2, <1>3, <1>4, <1>5, <1>6, <1>7 DEF RunNext

\* A step of the queue keeps exited workers idle; the last one to exit finds the queue
\* empty and nobody who holds a key, and nothing is added after the shutdown.
LEMMA QueueExits ==
    ASSUME QueueInv, ExitedIdle, NothingLeftBehind, [Next]_vars
    PROVE  ExitedIdle' /\ NothingLeftBehind'
<1> USE DEF ExitedIdle, NothingLeftBehind
<1> held \in [Workers -> Keys \cup {NoKey}] /\ exited \subseteq Workers
  BY DEF QueueInv, TypeOK
<1>1. ASSUME NEW k \in Keys, AddRateLimited(k) \/ Add(k)
      PROVE  ExitedIdle' /\ NothingLeftBehind'
  <2>1. exited # Workers
    BY <1>1, RunsAssumption DEF AddRateLimited, Add
  <2> QED
    BY <1>1, <2>1 DEF AddRateLimited, Add
<1>2. ASSUME NEW w \in Workers, Get(w) \/ Done(w)
      PROVE  ExitedIdle' /\ NothingLeftBehind'
  <2>1. w \notin exited
    BY <1>2 DEF Get, Done
  <2> QED
    BY <1>2, <2>1 DEF Get, Done
<1>3. ASSUME NEW w \in Workers, Exit(w)
      PROVE  ExitedIdle' /\ NothingLeftBehind'
  <2>1. ExitedIdle'
    BY <1>3 DEF Exit
  <2>2. ASSUME exited' = Workers
        PROVE  dirty = {}
    <3>1. \A v \in Workers : held[v] = NoKey
      BY <1>3, <2>2 DEF Exit
    <3>2. \A k \in dirty : \E i \in 1..Len(queue) : queue[i] = k
      BY <3>1, NoKeyAssumption DEF QueueInv, TypeOK, NoLostKey
    <3>3. Len(queue) = 0
      BY <1>3 DEF Exit
    <3> QED
      BY <3>2, <3>3
  <2> QED
    BY <1>3, <2>1, <2>2 DEF Exit
<1>4. CASE ShutDown
  BY <1>4 DEF ShutDown
<1>5. CASE UNCHANGED vars
  BY <1>5 DEF vars
<1> QED
  BY <1>1, <1>2, <1>3, <1>4, <1>5 DEF Next

LEMMA RunNextInv == RunInv /\ [RunNext]_runVars => RunInv'
<1> SUFFICES ASSUME RunInv, [RunNext]_runVars
             PROVE  RunInv'
  OBVIOUS
<1>1. RunTypeOK' /\ OnlyRunningHold' /\ LaunchedAfterSync'
  BY RunTypes, Holding, LaunchOrder
<1>2. CASE [Next]_vars
  <2>1. QueueInv'
    BY <1>2, NextInv DEF RunInv
  <2>2. ExitedIdle' /\ NothingLeftBehind'
    BY <1>2, QueueExits DEF RunInv
  <2> QED
    BY <1>1, <2>1, <2>2 DEF RunInv
<1>3. CASE Restart
  <2>1. ExitedIdle' /\ NothingLeftBehind'
    BY <1>3 DEF Restart, ExitedIdle, NothingLeftBehind
  <2> QED
    BY <1>1, <1>3, <2>1, RestartInits DEF RunInv
<1> QED
  BY <1>2, <1>3, QueueSteps

THEOREM RunInvariance == RunSpec => []RunInv
BY RunInitInv, RunNextInv, PTL DEF RunSpec

-----------------------------------------------------------------------------
\* The process keeps its types through signals, deaths and restarts.
THEOREM RunTypeCorrect == RunSpec => []RunTypeOK
<1>1. RunInv => RunTypeOK
  BY DEF RunInv
<1> QED
  BY <1>1, RunInvariance, PTL

\* No two workers sync the same TFJob at once in any life of the process.
THEOREM RunMutualExclusion == RunSpec => []NoConcurrentSync
<1>1. RunInv => NoConcurrentSync
  BY DEF RunInv, QueueInv
<1> QED
  BY <1>1, RunInvariance, PTL

\* A worker that syncs a TFJob works with a cache that shows every TFJob: what the comment
\* in Run says of starting workers, for the one cache it waits for.
THEOREM CacheComplete == RunSpec => []CompleteBeforeWork
<1>1. RunInv => CompleteBeforeWork
  BY DEF RunInv, OnlyRunningHold, LaunchedAfterSync, CompleteBeforeWork
<1> QED
  BY <1>1, RunInvariance, PTL

\* Workers that were given the time to end have emptied the queue.
THEOREM QueueEmptied == RunSpec => []NothingLeftBehind
<1>1. RunInv => NothingLeftBehind
  BY DEF RunInv
<1> QED
  BY <1>1, RunInvariance, PTL

LEMMA RestartRefines == Restart => Service!Restart
BY DEF Restart, Service!Restart

\* The whole process, restarts included, offers the abstract key service to its handlers.
THEOREM RunRefinement == RunSpec => ImplementsService
<1>1. RunInit => Service!Init
  BY InitRefines DEF RunInit
<1>2. RunInv /\ [RunNext]_runVars => [Service!Next]_(Service!vars)
  <2>1. RunInv => QueueInv
    BY DEF RunInv
  <2> QED
    BY <2>1, QueueSteps, StepRefines, RestartRefines DEF Service!Next
<1> QED
  BY <1>1, <1>2, RunInvariance, PTL DEF RunSpec, ImplementsService, Service!Spec
====
