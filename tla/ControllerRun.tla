---- MODULE ControllerRun ----
(***************************************************************************)
(* The life of the controller process: main, Run and the signal handler    *)
(* around the work queue, and the TFJob informer that fills it.  Run waits *)
(* for the TFJob cache, launches the workers, blocks on the stop channel   *)
(* and shuts the queue down; main returns from it and the process ends.    *)
(* A process that ended is started again, with an empty cache and queue.   *)
(***************************************************************************)
EXTENDS WorkQueue

CONSTANT MaxRuns  \* bound: how often the process is started

ASSUME RunsAssumption == Workers # {} /\ MaxRuns \in Nat \ {0}

VARIABLES
    main,      \* where the main goroutine is
    code,      \* the exit code of the process
    goroutine, \* of each worker: wait.Until around runWorker
    signals,   \* caught by signal.Notify, not yet received by the handler goroutine
    stopped,   \* stopCh is closed
    unseen,    \* TFJobs of the initial list that are not in the cache yet
    events,    \* TFJobs with an event that waits for its handler
    runs       \* how often the process was started

queueVars == vars
processVars == <<main, code, goroutine, signals, stopped>>
informerVars == <<unseen, events>>
runVars == <<queueVars, processVars, informerVars, runs>>

MainStates == {"syncing", "blocked", "returning", "failing", "returned", "failed", "ended"}

\* Every key is the key of a TFJob that exists.
RunInit ==
    /\ Init
    /\ main = "syncing"
    /\ code = 0
    /\ goroutine = [w \in Workers |-> "none"]
    /\ signals = 0
    /\ stopped = FALSE
    /\ unseen = Keys
    /\ events = {}
    /\ runs = 1

Up == main # "ended"

-----------------------------------------------------------------------------
(***************************************************************************)
(* The signal handler's goroutine                                          *)
(***************************************************************************)
OneMore == 3  \* mutant
Capacity == 2

\* SIGTERM or SIGINT.
Signal ==
    /\ Up
    /\ signals < Capacity
    /\ signals' = signals + 1
    /\ UNCHANGED <<queueVars, main, code, goroutine, stopped, informerVars, runs>>

FirstSignal ==
    /\ Up
    /\ ~stopped
    /\ signals > 0
    /\ signals' = signals - 1
    /\ stopped' = TRUE
    /\ UNCHANGED <<queueVars, main, code, goroutine, informerVars, runs>>

End(c) == main' = "ended" /\ code' = c

SecondSignal ==
    /\ Up
    /\ stopped
    /\ signals > 0
    /\ signals' = signals - 1
    /\ End(1)
    /\ UNCHANGED <<queueVars, goroutine, stopped, informerVars, runs>>

-----------------------------------------------------------------------------
(***************************************************************************)
(* The main goroutine                                                      *)
(***************************************************************************)
\* tfJobSynced.  mutant: Run does not wait
SyncedAtOnce == TRUE
CacheSynced == unseen = {}

\* WaitForCacheSync succeeds; it looks once more after the stop channel is closed.
LaunchWorkers ==
    /\ main = "syncing"
    /\ CacheSynced
    /\ main' = "blocked"
    /\ goroutine' = [w \in Workers |-> "launched"]
    /\ UNCHANGED <<queueVars, code, signals, stopped, informerVars, runs>>

GiveUp ==
    /\ main = "syncing"
    /\ stopped
    /\ ~CacheSynced
    /\ main' = "failing"
    /\ UNCHANGED <<queueVars, code, goroutine, signals, stopped, informerVars, runs>>

\* mutant: Run blocks until the workers are idle
IdleAndStopped == stopped /\ \A w \in Workers : held[w] = NoKey /\ queue = <<>>
StopSeen == stopped

Unblock ==
    /\ main = "blocked"
    /\ StopSeen
    /\ main' = "returning"
    /\ UNCHANGED <<queueVars, code, goroutine, signals, stopped, informerVars, runs>>

\* Run returns: the deferred ShutDown.
Return ==
    /\ main \in {"returning", "failing"}
    /\ ShutDown
    /\ main' = IF main = "returning" THEN "returned" ELSE "failed"
    /\ UNCHANGED <<code, goroutine, signals, stopped, informerVars, runs>>

\* main returns, or calls glog.Fatalf.  All goroutines end with it.
Exits ==
    /\ main \in {"returned", "failed"}
    /\ End(IF main = "returned" THEN 0 ELSE 255)
    /\ UNCHANGED <<queueVars, goroutine, signals, stopped, informerVars, runs>>

\* SIGKILL, or a panic in a worker, which HandleCrash raises again.
Dies ==
    /\ Up
    /\ End(2)
    /\ UNCHANGED <<queueVars, goroutine, signals, stopped, informerVars, runs>>

-----------------------------------------------------------------------------
(***************************************************************************)
(* The workers: wait.Until looks at the stop channel before it calls       *)
(* runWorker, and not again before runWorker returns.                      *)
(***************************************************************************)
StartWorker(w) ==
    /\ Up
    /\ goroutine[w] = "launched"
    /\ goroutine' = [goroutine EXCEPT ![w] = IF stopped THEN "ended" ELSE "running"]
    /\ UNCHANGED <<queueVars, main, code, signals, stopped, informerVars, runs>>

Work(w) ==
    /\ Up
    /\ goroutine[w] = "running"
    /\ Get(w) \/ Done(w)
    /\ UNCHANGED <<processVars, informerVars, runs>>

ExitWorker(w) ==
    /\ Up
    /\ goroutine[w] = "running"
    /\ Exit(w)
    /\ goroutine' = [goroutine EXCEPT ![w] = "ended"]
    /\ UNCHANGED <<main, code, signals, stopped, informerVars, runs>>

-----------------------------------------------------------------------------
(***************************************************************************)
(* The informers and their handlers.  A pod's event leads to its TFJob     *)
(* through the TFJob lister, so that only known TFJobs are added.          *)
(***************************************************************************)
Deliver(k) ==
    /\ Up
    /\ k \in unseen
    /\ unseen' = unseen \ {k}
    /\ events' = events \cup {k}
    /\ UNCHANGED <<queueVars, processVars, runs>>

Watch(k) ==
    /\ Up
    /\ k \notin unseen
    /\ events' = events \cup {k}
    /\ UNCHANGED <<queueVars, processVars, unseen, runs>>

\* AddAfter drops the key when the queue is shut down.
Handler(k) ==
    /\ Up
    /\ k \in events
    /\ events' = events \ {k}
    /\ IF shuttingDown THEN UNCHANGED queueVars ELSE AddRateLimited(k)
    /\ UNCHANGED <<processVars, unseen, runs>>

\* mutant: the loop forgets the key when its timer fires
BackOffForgets(k) ==
    /\ Up
    /\ ~shuttingDown
    /\ k \in waiting
    /\ waiting' = waiting \ {k}
    /\ UNCHANGED <<queue, dirty, processing, shuttingDown, held, exited>>
    /\ UNCHANGED <<processVars, informerVars, runs>>
BackOffEnds(k) ==
    /\ Up
    /\ Add(k)
    /\ UNCHANGED <<processVars, informerVars, runs>>

-----------------------------------------------------------------------------
\* Nothing of the old process is left.
Restart ==
    /\ ~Up
    /\ runs < MaxRuns
    /\ runs' = runs + 1
    /\ queue' = <<>>
    /\ dirty' = {}
    /\ processing' = {}
    /\ shuttingDown' = FALSE
    /\ waiting' = {}
    /\ held' = [w \in Workers |-> NoKey]
    /\ exited' = {}
    /\ main' = "syncing"
    /\ code' = 0
    /\ goroutine' = [w \in Workers |-> "none"]
    /\ signals' = 0
    /\ stopped' = FALSE
    /\ unseen' = Keys
    /\ events' = {}

RunNext ==
    \/ Signal \/ FirstSignal \/ SecondSignal
    \/ LaunchWorkers \/ GiveUp \/ Unblock \/ Return \/ Exits \/ Dies
    \/ \E w \in Workers : StartWorker(w) \/ Work(w) \/ ExitWorker(w)
    \/ \E k \in Keys : Deliver(k) \/ Watch(k) \/ Handler(k) \/ BackOffEnds(k)
    \/ Restart

RunSpec == RunInit /\ [][RunNext]_runVars

(***************************************************************************)
(* Goroutines run: main, the signal handler, the workers, the informer     *)
(* and its handlers, waitingLoop.  A sync ends.  Get is served in no       *)
(* particular order, so some free worker takes the next key.  Nobody has   *)
(* to send a signal or start the process again.                            *)
(***************************************************************************)
RunFairness ==
    /\ WF_runVars(LaunchWorkers \/ GiveUp \/ Unblock \/ Return \/ Exits)
    /\ WF_runVars(FirstSignal \/ SecondSignal)
    /\ \A w \in Workers : /\ WF_runVars(StartWorker(w) \/ ExitWorker(w))
                          /\ WF_runVars(Work(w) /\ Done(w))
    /\ WF_runVars(\E w \in Workers : Work(w) /\ Get(w))
    /\ \A k \in Keys : /\ WF_runVars(Deliver(k))
                       /\ WF_runVars(Handler(k))
                       /\ WF_runVars(BackOffEnds(k))

FairRunSpec == RunSpec /\ RunFairness

-----------------------------------------------------------------------------
\* The variables of the process and the informer have their types.
RunTypeOK ==
    /\ main \in MainStates
    /\ code \in {0, 1, 2, 255}
    /\ goroutine \in [Workers -> {"none", "launched", "running", "ended"}]
    /\ signals \in 0..2
    /\ stopped \in BOOLEAN
    /\ unseen \subseteq Keys
    /\ events \subseteq Keys
    /\ runs \in 1..MaxRuns

\* No worker syncs a TFJob before the cache shows all those that exist: handlers fill the
\* queue from the first delivery on, but Run launches the workers after the last.
CompleteBeforeWork == \A w \in Workers : held[w] # NoKey => unseen = {}

\* Workers that all ended by themselves have left no request behind.
NothingLeftBehind == exited = Workers => dirty = {} /\ queue = <<>>

\* Each TFJob of the initial list, and each that has an event later, reaches a worker, in
\* this process, unless it is stopped first.
EveryKeyTaken ==
    \A k \in Keys :
        (Up /\ k \in unseen \cup events \cup waiting \cup dirty)
            ~> (shuttingDown \/ ~Up \/ \E w \in Workers : held[w] = k)

\* One signal ends the process, wherever main and the workers are.
StopEndsProcess == stopped ~> ~Up
====
