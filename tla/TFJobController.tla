---- MODULE TFJobController ----
(***************************************************************************)
(* The TFJob controller working on one TFJob key: the API server's TFJob   *)
(* and its pods and services, the informer caches and their event          *)
(* handlers, the expectations cache, and the worker that syncs the key.    *)
(*                                                                         *)
(* Objects are numbered in the order in which the API server creates       *)
(* them.  RuntimeIDs and UIDs are numbered in the order in which they are  *)
(* drawn; 0 is the empty RuntimeID, the absent owner and the absent TFJob. *)
(***************************************************************************)
EXTENDS Integers, FiniteSets, Expectations, RefManager, Tensorflow

CONSTANTS MaxObjs,  \* bound: pods and services ever created
          MaxRid,   \* bound: RuntimeIDs ever drawn
          MaxUid,   \* bound: incarnations of the TFJob
          Budgets   \* bound: how often each kind of event happens, one choice per
                    \* scenario; -1 is "no bound"

EventKinds == {"sync",        \* a worker takes the key
               "podSucceed",  \* a worker pod ends in phase Succeeded
               "api",         \* an API call fails without effect
               "timeout",     \* a creation takes effect but reports a timeout
               "podFail",     \* a pod ends in phase Failed
               "podDelete",   \* somebody deletes a pod
               "userUpdate",  \* somebody writes to the TFJob
               "jobDelete",   \* somebody deletes the TFJob in the background
               "foreground",  \* somebody deletes the TFJob in the foreground
               "relist",      \* the TFJobs' reflector loses its watch and lists again
               "missed",      \* it does so and finds that the TFJob is gone
               "expire",      \* ExpectationsTimeout passes
               "crash"}       \* the controller process dies and is restarted

ASSUME BoundsAssumption ==
    /\ MaxObjs \in Nat
    /\ MaxRid \in Nat
    /\ MaxUid \in Nat \ {0}
    /\ Budgets \subseteq [EventKinds -> Int]

VARIABLES
    job,       \* API server: the TFJob
    store,     \* API server: the pods and services
    lastRid,   \* the last RuntimeID drawn
    lastUid,   \* the last UID given to a TFJob of this key
    jobCache,  \* the object the TFJob lister returns
    jobStale,  \* the server wrote the TFJob after the version in jobCache
    jobNotif,  \* a TFJob event waits for its handler
    cache,     \* what the pod and service listers return
    listed,    \* objects up to this one are delivered by the initial list
    added,     \* per owner, the add events that wait for addPod or addService
    touched,   \* owners in update events that wait for updatePod, updateService
    exp,       \* the expectations of the key
    waiting,   \* the key waits in the delaying queue for its back-off
    queued,    \* the key is in the work queue
    sync,      \* the worker that holds the key
    budget     \* events left of each kind

serverVars == <<job, store, lastRid, lastUid>>
cacheVars == <<jobCache, jobStale, cache, listed>>
eventVars == <<jobNotif, added, touched>>
queueVars == <<waiting, queued>>
vars == <<serverVars, cacheVars, eventVars, exp, queueVars, sync, budget>>

Objs == 1..MaxObjs
AllSlots == {"workerPods", "psPods", "workerServices", "psServices"}
AllPodSlots == {"workerPods", "psPods"}
Phases == {"Running", "Succeeded", "Failed"}   \* Pending counts as Running

(***************************************************************************)
(* TFJobs.  replicas is Status.TFReplicaStatuses: pods per phase.          *)
(***************************************************************************)
NoReplicas == [s \in AllPodSlots |-> [p \in Phases |-> 0]]

NewJob(u) == [uid |-> u, rid |-> 0, phase |-> "None", replicas |-> NoReplicas,
              deleting |-> FALSE]
NoJob == NewJob(0)

(***************************************************************************)
(* Pods and services.  A gone object keeps its record, as history.         *)
(***************************************************************************)
NoObj == [st |-> "none", slot |-> "workerPods", rid |-> 0, idx |-> 0, owner |-> 0,
          phase |-> "Running", deleting |-> FALSE]

\* mutant: the index is counted from the slot before.
NewObjBefore(s, r, i, u) == [NoObj EXCEPT !.st = "live", !.slot = s, !.rid = r,
                                          !.idx = i - 1, !.owner = u]
NewObj(s, r, i, u) == [NoObj EXCEPT !.st = "live", !.slot = s, !.rid = r,
                                    !.idx = i, !.owner = u]

Live(o) == store[o].st = "live"
Terminal(o) == store[o].phase # "Running"
\* Pods come from one informer, services from another.
SameInformer(o, p) == (store[o].slot \in AllPodSlots) = (store[p].slot \in AllPodSlots)

(***************************************************************************)
(* The worker.  job is the *TFJob the lister returned; attached says that  *)
(* it still is the object in the cache, so that writing to it writes to    *)
(* the cache.  oldRV says that the server has a newer version.             *)
(***************************************************************************)
Idle == [pc |-> "idle", needsSync |-> FALSE, job |-> NoJob, attached |-> FALSE,
         oldRV |-> FALSE, todo |-> {}, claimed |-> [s \in AllSlots |-> {}],
         due |-> {}, num |-> [s \in AllSlots |-> 0], slot |-> "workerPods", i |-> 0]

NoneAdded == [u \in 1..MaxUid |-> 0]

Init ==
    /\ job = NewJob(1)
    /\ store = [o \in Objs |-> NoObj]
    /\ lastRid = 0
    /\ lastUid = 1
    /\ jobCache = NoJob
    /\ jobStale = TRUE
    /\ jobNotif = FALSE
    /\ cache = [o \in Objs |-> NoObj]
    /\ listed = 0
    /\ added = NoneAdded
    /\ touched = {}
    /\ exp = NoExpectation
    /\ waiting = FALSE
    /\ queued = FALSE
    /\ sync = Idle
    /\ budget \in Budgets

Spend(kind) == /\ budget[kind] # 0
               /\ budget' = IF budget[kind] < 0 THEN budget
                            ELSE [budget EXCEPT ![kind] = @ - 1]

-----------------------------------------------------------------------------
(***************************************************************************)
(* processNextWorkItem and syncHandler                                     *)
(***************************************************************************)
\* The back-off of AddRateLimited is over.
Requeue ==
    /\ waiting
    /\ waiting' = FALSE
    /\ queued' = TRUE
    /\ UNCHANGED <<serverVars, cacheVars, eventVars, exp, sync, budget>>

GetAnytime ==  \* mutant: a second worker gets the key
    /\ queued
    /\ Spend("sync")
    /\ queued' = FALSE
    /\ sync' = [sync EXCEPT !.pc = "check"]
    /\ UNCHANGED <<serverVars, cacheVars, eventVars, exp, waiting>>

Get ==
    /\ sync.pc = "idle"
    /\ queued
    /\ Spend("sync")
    /\ queued' = FALSE
    /\ sync' = [sync EXCEPT !.pc = "check"]
    /\ UNCHANGED <<serverVars, cacheVars, eventVars, exp, waiting>>

CheckExpectations ==
    /\ sync.pc = "check"
    /\ sync' = [sync EXCEPT !.pc = "lookup", !.needsSync = SatisfiedExpectations(exp)]
    /\ UNCHANGED <<serverVars, cacheVars, eventVars, exp, queueVars, budget>>

Lookup ==
    /\ sync.pc = "lookup"
    /\ \/ /\ jobCache.uid = 0
          /\ exp' = DeleteExpectations(exp)
          /\ sync' = Idle
       \/ /\ jobCache.uid # 0
          /\ sync' = [sync EXCEPT !.pc = "claim", !.job = jobCache, !.attached = TRUE,
                                  !.oldRV = jobStale, !.todo = Slots]
          /\ UNCHANGED exp
    /\ UNCHANGED <<serverVars, cacheVars, eventVars, queueVars, budget>>

\* The order of the four Get...ForTFJob calls.
PassRank(s) == CASE s = "workerPods" -> 1
                 [] s = "psPods" -> 2
                 [] s = "workerServices" -> 3
                 [] s = "psServices" -> 4

\* The claim for slot s lists all the pods, or all the services, in the cache.
ListedFor(s) ==
    {o \in Objs : /\ cache[o].st = "live"
                  /\ (cache[o].slot \in AllPodSlots) = (s \in AllPodSlots)}

\* The selector: job_type and runtime_id.  The mutant forgets the second.
MatchesType(o, s) == cache[o].slot = s
Matches(o, s) == cache[o].slot = s /\ cache[o].rid = sync.job.rid

Verdict(o, s) == ClaimObject(sync.job.uid, sync.job.deleting, cache[o].owner,
                             cache[o].deleting, Matches(o, s))

\* RecheckDeletionTimestamp: an uncached read of the TFJob.
CanAdopt == job.uid = sync.job.uid /\ ~job.deleting

\* The server refuses a second controller reference; a patch of an object that is
\* gone is ignored; a release that finds another owner changes nothing.
AdoptDenied(o) == ~CanAdopt \/ (Live(o) /\ store[o].owner \notin {0, sync.job.uid})

Patched(s, failing) ==
    [o \in Objs |->
        IF o \notin ListedFor(s) \ failing \/ ~Live(o) THEN store[o]
        ELSE CASE Verdict(o, s) = "adopt" /\ ~AdoptDenied(o) ->
                      [store[o] EXCEPT !.owner = sync.job.uid]
               [] Verdict(o, s) = "release" /\ store[o].owner = sync.job.uid ->
                      [store[o] EXCEPT !.owner = 0]
               [] OTHER -> store[o]]

\* One pass of ClaimPods or ClaimServices.  It works through the whole list before it
\* reports the errors it met; at most one call of a pass fails transiently: a patch, with
\* or without effect, or the read before the first adoption: then no object is adopted.
Claim(s) ==
    /\ sync.pc = "claim"
    /\ s \in sync.todo
    /\ \A t \in sync.todo : PassRank(s) <= PassRank(t)
    /\ LET adopting == {o \in ListedFor(s) : Verdict(o, s) = "adopt"}
           releasing == {o \in ListedFor(s) : Verdict(o, s) = "release"}
           denied == {o \in adopting : AdoptDenied(o)}
           mine == {o \in ListedFor(s) : Verdict(o, s) = "claim"}
                       \cup {o \in adopting : Live(o)}
       IN \E failing \in {{}, adopting} \cup {{o} : o \in adopting \cup releasing} :
            /\ \/ failing = {} /\ UNCHANGED budget /\ store' = Patched(s, {})
               \/ failing # {} /\ Spend("api") /\ store' = Patched(s, failing)
               \/ failing # {} /\ Spend("timeout") /\ store' = Patched(s, {})
            /\ sync' =
                 IF failing \cup denied # {}
                 THEN [sync EXCEPT !.pc = "failed"]
                 ELSE [sync EXCEPT
                         !.todo = @ \ {s},
                         !.claimed[s] = {[obj |-> o, phase |-> cache[o].phase,
                                          deleting |-> cache[o].deleting] : o \in mine},
                         !.pc = IF sync.todo = {s} THEN "manage" ELSE "claim"]
    /\ UNCHANGED <<job, lastRid, lastUid, cacheVars, eventVars, exp, queueVars>>

CountedClaimed == Cardinality(sync.claimed["workerPods"])  \* mutant: any phase will do
Succeeded == Cardinality({c \in sync.claimed["workerPods"] : c.phase = "Succeeded"})

\* FilterActivePods for pods, all of them for services.
Held(s) == IF s \in AllPodSlots
           THEN {c \in sync.claimed[s] : c.phase = "Running" /\ ~c.deleting}
           ELSE sync.claimed[s]
Counts == [s \in AllSlots |-> Cardinality(Held(s))]

\* Where manageTFJob stands when these events are left.
AfterEvent(due) == IF due = {} THEN "update" ELSE "events"

\* The RuntimeID after Action: compose draws a new one, even when there is one already.
RuntimeIDOnce(j, due) == IF Composes(due) /\ j.rid = 0 THEN lastRid + 1 ELSE j.rid
RuntimeID(j, due) == IF Composes(due) THEN lastRid + 1 ELSE j.rid

\* Writing through the pointer the lister returned.
CacheWrite(j) == jobCache' = IF sync.attached THEN j ELSE jobCache

\* manageTFJob up to the creations: the events, and compose when a worker is due.
Manage ==
    /\ sync.pc = "manage"
    /\ LET due == IF sync.needsSync /\ ~sync.job.deleting
                  THEN Due(Counts, Succeeded) ELSE {}
           r == RuntimeID(sync.job, due)
           j == [sync.job EXCEPT !.rid = r]
       IN /\ r <= MaxRid
          /\ lastRid' = IF r > lastRid THEN r ELSE lastRid
          /\ CacheWrite(j)
          /\ sync' = [sync EXCEPT
                        !.pc = AfterEvent(due), !.due = due, !.job = j,
                        !.num = [s \in AllSlots |->
                                    IF s \in due THEN Number(s, Counts, Succeeded) ELSE 0]]
    /\ UNCHANGED <<job, store, lastUid, jobStale, cache, listed, eventVars, exp, queueVars,
                   budget>>

\* Each event replaces the expectations of the event before it.
BeginEvent(s) ==
    /\ sync.pc = "events"
    /\ s \in sync.due
    /\ \A t \in sync.due : EventRank(s) <= EventRank(t)
    /\ exp' = ExpectCreations(sync.num[s])
    /\ sync' = [sync EXCEPT !.due = @ \ {s}, !.slot = s, !.i = 0,
                            !.pc = IF sync.num[s] > 0 THEN "create"
                                                       ELSE AfterEvent(sync.due \ {s})]
    /\ UNCHANGED <<serverVars, cacheVars, eventVars, queueVars, budget>>

\* The objects the API server creates, in order.
Create(o) ==
    /\ store[o].st = "none"
    /\ \A p \in Objs : p < o => store[p].st # "none"
    /\ store' = [store EXCEPT
                    ![o] = NewObj(sync.slot, sync.job.rid, sync.i, sync.job.uid)]

NextIndex == [sync EXCEPT !.i = @ + 1,
                          !.pc = IF sync.i + 1 < sync.num[sync.slot] THEN "create"
                                 ELSE AfterEvent(sync.due)]

CreateOk ==
    /\ sync.pc = "create"
    /\ \E o \in Objs : Create(o)
    /\ sync' = NextIndex
    /\ UNCHANGED <<job, lastRid, lastUid, cacheVars, eventVars, exp, queueVars, budget>>

\* A failed creation lowers the expectations by one; for a pod it ends the sync, for a
\* service the loop goes on.  A timeout is an error too, though the object exists.
CreateFails ==
    /\ sync.pc = "create"
    /\ \/ Spend("api") /\ UNCHANGED store
       \/ Spend("timeout") /\ \E o \in Objs : Create(o)
    /\ exp' = CreationObserved(exp)
    /\ sync' = IF sync.slot \in AllPodSlots THEN [sync EXCEPT !.pc = "failed"] ELSE NextIndex
    /\ UNCHANGED <<job, lastRid, lastUid, cacheVars, eventVars, queueVars>>

-----------------------------------------------------------------------------
(***************************************************************************)
(* The status updaters                                                     *)
(***************************************************************************)
\* updateTFReplicaStatuses: a collection without pods keeps its old numbers.
UpdatedReplicas ==
    [s \in AllPodSlots |->
        IF sync.claimed[s] = {} THEN sync.job.replicas[s]
        ELSE [p \in Phases |-> Cardinality({c \in sync.claimed[s] : c.phase = p})]]

PhaseOffByOne == IF Succeeded > WorkerReplicas THEN "Succeeded" ELSE "Running"  \* mutant
UpdatedPhase == IF Succeeded = WorkerReplicas THEN "Succeeded" ELSE "Running"
UpdatedJob == [sync.job EXCEPT
                 !.phase = UpdatedPhase,
                 !.replicas = UpdatedReplicas]

ShouldUpdate == \/ Succeeded = WorkerReplicas
                \/ sync.job.phase # "Running"
                \/ \E s \in AllPodSlots : sync.claimed[s] # {}

\* NewLocal refuses more than one pod.
TooManyLocalPods == LocalJob /\ Cardinality(sync.claimed["workerPods"]) > 1

\* The updater, then updateTFJob when it asks for it, and the end of the sync.  The write
\* is refused when the server has a newer version; one that changes nothing makes none; a
\* timed out one took effect, but is an error.
UpdateStatus ==
    /\ sync.pc = "update"
    /\ \/ /\ TooManyLocalPods \/ ~ShouldUpdate
          /\ sync' = IF TooManyLocalPods THEN [sync EXCEPT !.pc = "failed"] ELSE Idle
          /\ UNCHANGED <<job, jobCache, jobStale, budget>>
       \/ /\ ~TooManyLocalPods
          /\ ShouldUpdate
          /\ CacheWrite(UpdatedJob)
          /\ \/ /\ ~sync.oldRV
                /\ job' = UpdatedJob
                /\ jobStale' = (jobStale \/ job # UpdatedJob)
                /\ \/ sync' = Idle /\ UNCHANGED budget
                   \/ sync' = [sync EXCEPT !.pc = "failed"] /\ Spend("timeout")
             \/ /\ IF sync.oldRV THEN UNCHANGED budget ELSE Spend("api")
                /\ sync' = [sync EXCEPT !.pc = "failed"]
                /\ UNCHANGED <<job, jobStale>>
    /\ UNCHANGED <<store, lastRid, lastUid, cache, listed, eventVars, exp, queueVars>>

\* processNextWorkItem logs the error; the deferred Done does not put the key back.
DoneFailed ==
    /\ sync.pc = "failed"
    /\ sync' = Idle
    /\ UNCHANGED <<serverVars, cacheVars, eventVars, exp, queueVars, budget>>

ControllerStep ==
    \/ Get \/ CheckExpectations \/ Lookup \/ (\E s \in Slots : Claim(s)) \/ Manage
    \/ (\E s \in Slots : BeginEvent(s)) \/ CreateOk \/ CreateFails
    \/ UpdateStatus \/ DoneFailed

-----------------------------------------------------------------------------
(***************************************************************************)
(* Informers and handlers                                                  *)
(***************************************************************************)
\* Every pointer taken from the lister before now points to the replaced object.
Detached == [sync EXCEPT !.attached = FALSE]

\* The watch delivers the latest TFJob (versions in between are skipped), or its
\* deletion.
JobCatchUp ==
    /\ jobStale
    /\ jobCache' = job
    /\ jobStale' = FALSE
    /\ jobNotif' = (jobNotif \/ job.uid # 0 \/ jobCache.uid # 0)
    /\ sync' = Detached
    /\ UNCHANGED <<serverVars, cache, listed, added, touched, exp, queueVars, budget>>

\* A relist replaces the cached object even when the version is the same; the update
\* handler drops an event between equal versions.  A deletion found by a relist arrives
\* as a DeletedFinalStateUnknown, for which enqueueTFJob has no key.
JobRelist ==
    /\ Spend("relist") \/ (jobStale /\ job.uid = 0 /\ Spend("missed"))
    /\ jobCache' = job
    /\ jobStale' = FALSE
    /\ jobNotif' = (jobNotif \/ (jobStale /\ job.uid # 0))
    /\ sync' = Detached
    /\ UNCHANGED <<serverVars, cache, listed, added, touched, exp, queueVars>>

JobHandler ==
    /\ jobNotif
    /\ jobNotif' = FALSE
    /\ waiting' = TRUE
    /\ UNCHANGED <<serverVars, cacheVars, added, touched, exp, queued, sync, budget>>

\* A pod or service informer delivers an object.  New objects come in creation order,
\* except for those of the initial list.  Deletions have no handler to speak of.
ObjCatchUp(o) ==
    /\ cache[o] # store[o]
    /\ \A p \in Objs : p < o /\ p > listed /\ SameInformer(o, p) => cache[p].st # "none"
    /\ cache' = [cache EXCEPT ![o] = store[o]]
    /\ added' = IF cache[o].st = "none" /\ store[o].owner # 0
                THEN [added EXCEPT ![store[o].owner] = @ + 1] ELSE added
    /\ touched' = IF cache[o].st = "live" /\ Live(o)
                  THEN touched \cup ({cache[o].owner, store[o].owner} \ {0}) ELSE touched
    /\ UNCHANGED <<serverVars, jobCache, jobStale, listed, jobNotif, exp, queueVars, sync,
                   budget>>

\* resolveControllerRef: by name, then by UID.  The mutant is content with the name.
ResolvesName(u) == jobCache.uid # 0
Resolves(u) == jobCache.uid = u

\* addPod, addService
AddHandler(u) ==
    /\ added[u] > 0
    /\ added' = [added EXCEPT ![u] = @ - 1]
    /\ exp' = IF Resolves(u) THEN CreationObserved(exp) ELSE exp
    /\ waiting' = (waiting \/ Resolves(u))
    /\ UNCHANGED <<serverVars, cacheVars, jobNotif, touched, queued, sync, budget>>

\* updatePod, updateService: the old owner and the current one are enqueued.
UpdateHandler(u) ==
    /\ u \in touched
    /\ touched' = touched \ {u}
    /\ waiting' = (waiting \/ Resolves(u))
    /\ UNCHANGED <<serverVars, cacheVars, jobNotif, added, exp, queued, sync, budget>>

-----------------------------------------------------------------------------
(***************************************************************************)
(* The cluster around the controller                                       *)
(***************************************************************************)
SetObj(o, r) == /\ store' = [store EXCEPT ![o] = r]
                /\ UNCHANGED <<job, lastRid, lastUid, cacheVars, eventVars, exp, queueVars, sync>>

\* Workers run to completion; parameter servers do not.
PodSucceeds(o) ==
    /\ Live(o) /\ ~Terminal(o) /\ store[o].slot = "workerPods"
    /\ SetObj(o, [store[o] EXCEPT !.phase = "Succeeded"])
    /\ Spend("podSucceed")

PodFails(o) ==
    /\ Live(o) /\ ~Terminal(o) /\ store[o].slot \in AllPodSlots
    /\ SetObj(o, [store[o] EXCEPT !.phase = "Failed"])
    /\ Spend("podFail")

\* Somebody deletes a pod, gracefully or at once.
PodDeleted(o) ==
    /\ Live(o) /\ ~store[o].deleting /\ store[o].slot \in AllPodSlots
    /\ \/ SetObj(o, [store[o] EXCEPT !.deleting = TRUE])
       \/ SetObj(o, [store[o] EXCEPT !.st = "gone"])
    /\ Spend("podDelete")

PodRemoved(o) ==
    /\ Live(o) /\ store[o].deleting
    /\ SetObj(o, [store[o] EXCEPT !.st = "gone"])
    /\ UNCHANGED budget

\* The garbage collector removes what a deleted TFJob owns.
GarbageCollect(o) ==
    /\ Live(o) /\ store[o].owner # 0
    /\ store[o].owner # job.uid \/ job.deleting
    /\ SetObj(o, [store[o] EXCEPT !.st = "gone"])
    /\ UNCHANGED budget

\* A write to the server's TFJob: the worker's version is now an old one.
WriteJob(j) ==
    /\ job' = j
    /\ jobStale' = TRUE
    /\ sync' = [sync EXCEPT !.oldRV = (sync.job.uid # 0)]
    /\ UNCHANGED <<store, lastRid, jobCache, cache, listed, eventVars, exp, queueVars>>

\* A change the controller does not look at.
UserUpdate ==
    /\ job.uid # 0
    /\ WriteJob(job)
    /\ Spend("userUpdate")
    /\ UNCHANGED lastUid

\* In the foreground, the TFJob waits for the removal of what it owns.
UserDelete ==
    /\ job.uid # 0 /\ ~job.deleting
    /\ \/ WriteJob(NoJob) /\ Spend("jobDelete")
       \/ WriteJob([job EXCEPT !.deleting = TRUE]) /\ Spend("foreground")
    /\ UNCHANGED lastUid

JobFinalized ==
    /\ job.deleting
    /\ \A o \in Objs : Live(o) => store[o].owner # job.uid
    /\ WriteJob(NoJob)
    /\ UNCHANGED budget
    /\ UNCHANGED lastUid

Recreate ==
    /\ job.uid = 0
    /\ lastUid < MaxUid
    /\ WriteJob(NewJob(lastUid + 1))
    /\ UNCHANGED budget
    /\ lastUid' = lastUid + 1

ExpectationExpires ==
    /\ exp # NoExpectation
    /\ Spend("expire")
    /\ exp' = NoExpectation
    /\ UNCHANGED <<serverVars, cacheVars, eventVars, queueVars, sync>>

\* The process dies and is started again: everything but the API server's state is new.
Crash ==
    /\ Spend("crash")
    /\ jobCache' = NoJob
    /\ jobStale' = TRUE
    /\ jobNotif' = FALSE
    /\ cache' = [o \in Objs |-> IF store[o].st = "gone" THEN store[o] ELSE NoObj]
    /\ listed' = Cardinality({o \in Objs : store[o].st # "none"})
    /\ added' = NoneAdded
    /\ touched' = {}
    /\ exp' = NoExpectation
    /\ waiting' = FALSE
    /\ queued' = FALSE
    /\ sync' = Idle
    /\ UNCHANGED serverVars

InformerStep == JobCatchUp \/ JobRelist \/ (\E o \in Objs : ObjCatchUp(o))
HandlerStep == \/ JobHandler
               \/ \E u \in 1..MaxUid : AddHandler(u) \/ UpdateHandler(u)
ClusterStep == \/ \E o \in Objs : PodSucceeds(o) \/ PodFails(o) \/ PodDeleted(o)
                                  \/ PodRemoved(o) \/ GarbageCollect(o)
               \/ UserUpdate \/ UserDelete \/ JobFinalized \/ Recreate
               \/ ExpectationExpires \/ Crash

Next == Requeue \/ ControllerStep \/ InformerStep \/ HandlerStep \/ ClusterStep

Spec == Init /\ [][Next]_vars

(***************************************************************************)
(* Fairness: the worker goroutine, each informer and each handler          *)
(* goroutine run; started workers finish; pod removal, garbage collection  *)
(* and finalization get done.  Each of these happens once per object, so   *)
(* fairness for some object is fairness for all.  Nothing makes a user     *)
(* act, a fault happen, or an incarnation be created.                      *)
(***************************************************************************)
Fairness ==
    /\ WF_vars(ControllerStep)
    /\ WF_vars(Requeue)
    /\ WF_vars(JobCatchUp)
    /\ WF_vars(JobHandler)
    /\ WF_vars(\E o \in Objs : store[o].slot \in AllPodSlots /\ ObjCatchUp(o))
    /\ WF_vars(\E o \in Objs : store[o].slot \notin AllPodSlots /\ ObjCatchUp(o))
    /\ WF_vars(\E u \in 1..MaxUid : AddHandler(u))
    /\ WF_vars(\E u \in 1..MaxUid : UpdateHandler(u))
    /\ WF_vars(\E o \in Objs : PodSucceeds(o))
    /\ WF_vars((\E o \in Objs : PodRemoved(o) \/ GarbageCollect(o)) \/ JobFinalized)

FairSpec == Spec /\ Fairness

-----------------------------------------------------------------------------
Job == [uid : 0..MaxUid, rid : 0..MaxRid, phase : {"None", "Running", "Succeeded"},
        replicas : [AllPodSlots -> [Phases -> Nat]], deleting : BOOLEAN]
Object == [st : {"none", "live", "gone"}, slot : AllSlots, rid : 0..MaxRid, idx : Nat,
           owner : 0..MaxUid, phase : Phases, deleting : BOOLEAN]
ClaimedObj == [obj : Objs, phase : Phases, deleting : BOOLEAN]
Sync == [pc : {"idle", "check", "lookup", "claim", "manage", "events", "create", "update",
               "failed"},
         needsSync : BOOLEAN, job : Job, attached : BOOLEAN, oldRV : BOOLEAN,
         todo : SUBSET AllSlots, claimed : [AllSlots -> SUBSET ClaimedObj],
         due : SUBSET AllSlots, num : [AllSlots -> Int], slot : AllSlots, i : Nat]

\* Every variable has its type (the data of the Go structs the module models).
TypeOK ==
    /\ job \in Job
    /\ store \in [Objs -> Object]
    /\ lastRid \in 0..MaxRid
    /\ lastUid \in 1..MaxUid
    /\ jobCache \in Job
    /\ jobStale \in BOOLEAN
    /\ jobNotif \in BOOLEAN
    /\ cache \in [Objs -> Object]
    /\ listed \in 0..MaxObjs
    /\ added \in [1..MaxUid -> Nat]
    /\ touched \in SUBSET (1..MaxUid)
    /\ exp \in Nat
    /\ waiting \in BOOLEAN
    /\ queued \in BOOLEAN
    /\ sync \in Sync
    /\ budget \in [EventKinds -> Int]

-----------------------------------------------------------------------------
(***************************************************************************)
(* Properties                                                              *)
(***************************************************************************)
Created(o) == store[o].st # "none"

\* Two worker pods of one RuntimeID never have the same index, whatever fails and
\* whatever is created twice: GetSpec numbers the pods of every creation loop from 0,
\* and only the RuntimeID that compose draws keeps two loops apart.
IndexUnique ==
    \A o, p \in Objs :
        /\ Created(o) /\ Created(p) /\ o # p
        /\ store[o].slot = "workerPods" /\ store[p].slot = "workerPods"
        /\ store[o].rid = store[p].rid
        => store[o].idx # store[p].idx

\* A TFJob is reported Succeeded only when as many of its current worker pods as it has
\* replicas did succeed, though the updater counts what a stale cache shows.
SucceededEarned ==
    job.phase = "Succeeded" =>
        Cardinality({o \in Objs : /\ store[o].slot = "workerPods"
                                  /\ store[o].rid = job.rid
                                  /\ store[o].phase = "Succeeded"}) >= WorkerReplicas

\* A sync never claims more worker pods than there are replicas: NewLocal, which refuses
\* two pods, never fails, and the updater's test for equality never misses its value.
ClaimedWithinReplicas == Cardinality(sync.claimed["workerPods"]) <= WorkerReplicas

\* Fulfilled expectations mean a complete cache: outside a creation loop, when nothing is
\* expected any more, every pod and service ever created for the TFJob has reached the
\* lister.  Late pods of a TFJob of the same name that was deleted do not stand in for its own.
ExpectationsCoverPods ==
    exp = NoExpectation /\ sync.pc # "create" =>
        \A o \in Objs : Created(o) /\ store[o].owner = job.uid => cache[o].st # "none"

\* What the first local job of a key expects is exactly what is on its way: the creation that
\* is being made, the pods that have not reached the lister, and their events that wait for
\* addPod.  No failed call, relist, pod that ends or is deleted makes the controller wait in
\* vain.
ExpectationsExact ==
    LocalJob /\ job.uid = 1 =>
        exp = Cardinality({o \in Objs : Created(o) /\ cache[o].st = "none"})
                + added[1] + (IF sync.pc = "create" THEN 1 ELSE 0)

\* What is expected of the first TFJob of the key that is not still to be created by the
\* loop, not on its way to the lister, and does not wait for addPod or addService.
InVain == exp - Cardinality({o \in Objs : /\ Created(o) /\ cache[o].st = "none"
                                          /\ store[o].owner = 1})
              - added[1]
              - (IF sync.pc = "create" THEN sync.num[sync.slot] - sync.i ELSE 0)

\* The controller comes to expect in vain only when the creation of a pod fails: then it
\* expects the rest of that loop, which is not created any more (controller.go:398-407), until
\* the next event or the timeout.  No service, relist, restart, expiry or late answer adds
\* to it, as long as the TFJob exists.  (The next one inherits what the first still expected.)
NothingInVain ==
    [][job.uid = 1 /\ job'.uid = 1 /\ InVain' > 0 =>
         InVain' <= InVain + (IF sync.pc = "create" /\ sync'.pc = "failed"
                              THEN sync.num[sync.slot] - sync.i - 1 ELSE 0)]_vars

\* A current worker pod is gone, or on its way out.
LosesWorker ==
    \E o \in Objs : /\ Created(o) /\ store[o].slot = "workerPods" /\ store[o].rid = job.rid
                    /\ ~Live(o) \/ store[o].deleting

\* Failing calls, conflicts and stale caches never take back a reported success: a TFJob
\* leaves the phase Succeeded only after one of its current worker pods was removed or
\* marked for deletion, or while it is being deleted itself.
SuccessIsFinal ==
    [][/\ job.phase = "Succeeded" /\ job'.uid = job.uid
       /\ ~job.deleting
       /\ ~LosesWorker
       => job'.phase = "Succeeded"]_vars

\* A sync decides to create workers only when the lister shows every pod created for the
\* TFJob before.
NoBlindCreation ==
    [][lastRid' # lastRid =>
         \A o \in Objs : Created(o) /\ store[o].owner = sync.job.uid => cache[o].st # "none"]_vars

\* A worker takes a key only when the initial lists have been delivered.
CachesSynced ==
    [][sync.pc = "idle" /\ sync'.pc = "check" =>
          \A o \in 1..listed : cache[o].st # "none"]_vars

\* A sync that failed is followed by another one.
RetryAfterError == (sync.pc = "failed") ~> (sync.pc = "check")

\* The TFJob comes to be Succeeded, and stays so, unless somebody deletes it.
EventuallySucceeded == <>[](job.phase = "Succeeded" \/ job.uid = 0)

\* The controller comes to own its pods and services, and keeps them.
OwnershipSettles == <>[](\A o \in Objs : Live(o) => store[o].owner = job.uid)

\* Without the timeout of the expectations: as long as the first TFJob of the key is in the
\* lister, what is expected is always observed or given up in the end, and when it is not, a
\* request that waits deletes what is left (controller.go:269).  No request comes of a
\* deletion that a relist finds (controller.go:622): then what is expected stays, and the
\* next TFJob of the name inherits it.
ExpectationsDrain ==
    /\ []<>(exp = NoExpectation \/ jobCache.uid # 1)
    /\ (jobCache.uid = 0 /\ (jobNotif \/ waiting \/ queued))
         ~> (exp = NoExpectation \/ jobCache.uid # 0)

\* The key is served as the work queue promises (WorkQueue implements the same service): a
\* request is not lost, unless the process dies, every sync answers one, and two syncs never
\* overlap.
Service == INSTANCE KeyService WITH
             Keys <- {"key"},
             pending <- IF waiting \/ queued THEN {"key"} ELSE {},
             handling <- IF sync.pc # "idle" THEN {"key"} ELSE {},
             closed <- FALSE
ImplementsService == Service!Spec
====
