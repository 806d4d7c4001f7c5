---- MODULE TFJobControllerProofs ----
(***************************************************************************)
(* Worker pods of one RuntimeID never share an index, and a sync never     *)
(* claims more of them than there are replicas.                            *)
(*                                                                         *)
(* Each creation loop numbers its pods from 0; the argument is that a loop *)
(* over worker pods only ever follows a compose, whose RuntimeID nobody    *)
(* has used before.  The pods a sync claims are of one RuntimeID, so they  *)
(* differ in their index, and no loop counts further than the number of    *)
(* replicas.                                                               *)
(***************************************************************************)
EXTENDS SucceededProofs

WorkerPod(o) == Created(o) /\ store[o].slot = "workerPods"

\* No RuntimeID is in use that was not drawn, not even in a stale copy.
RidsDrawn ==
    /\ job.rid <= lastRid /\ jobCache.rid <= lastRid /\ sync.job.rid <= lastRid
    /\ \A o \in Objs : store[o].rid <= lastRid

\* Events are left only while manageTFJob works on them.
DuePhase == sync.due # {} => sync.pc \in {"events", "create", "failed"}

\* As long as the worker pods are still due, the job's RuntimeID is unused.
FreshRuntimeID ==
    "workerPods" \in sync.due =>
        \A o \in Objs : WorkerPod(o) => store[o].rid # sync.job.rid

\* In the loop, the pods of this RuntimeID are those the loop has created.
LoopIndex ==
    sync.pc = "create" /\ sync.slot = "workerPods" =>
        /\ "workerPods" \notin sync.due
        /\ \A o \in Objs :
              WorkerPod(o) /\ store[o].rid = sync.job.rid => store[o].idx < sync.i

IndexInv == RidsDrawn /\ DuePhase /\ FreshRuntimeID /\ LoopIndex /\ IndexUnique

-----------------------------------------------------------------------------
\* What never changes about an object.
Kept(o) == /\ (store'[o].st = "none") = (store[o].st = "none")
           /\ store'[o].slot = store[o].slot
           /\ store'[o].rid = store[o].rid
           /\ store'[o].idx = store[o].idx

LEMMA KeptUnique ==
    ASSUME IndexUnique, \A o \in Objs : Kept(o)
    PROVE  IndexUnique'
BY DEF IndexUnique, Kept, Created

\* Steps outside the creations: nothing is due afterwards.
LEMMA NothingDue ==
    ASSUME IndexInv, \A o \in Objs : Kept(o), RidsDrawn',
           sync'.due = {}, sync'.pc # "create"
    PROVE  IndexInv'
BY KeptUnique DEF IndexInv, DuePhase, FreshRuntimeID, LoopIndex

\* Steps of the others: where the worker stands does not change.
LEMMA WorkerKept ==
    ASSUME IndexInv, \A o \in Objs : Kept(o), RidsDrawn',
           sync'.pc = sync.pc, sync'.due = sync.due, sync'.slot = sync.slot,
           sync'.i = sync.i, sync'.job = sync.job
    PROVE  IndexInv'
<1>1. IndexUnique'
  BY KeptUnique DEF IndexInv
<1>2. \A o \in Objs : WorkerPod(o)' => WorkerPod(o)
  BY DEF WorkerPod, Created, Kept
<1>3. \A o \in Objs : store'[o].rid = store[o].rid /\ store'[o].idx = store[o].idx
  BY DEF Kept
<1> QED
  BY <1>1, <1>2, <1>3 DEF IndexInv, DuePhase, FreshRuntimeID, LoopIndex

LEMMA RidsTyped ==
    ASSUME TypeInv
    PROVE  /\ lastRid \in Nat
           /\ job.rid \in Nat /\ jobCache.rid \in Nat /\ sync.job.rid \in Nat
           /\ \A o \in Objs : store[o].rid \in Nat
<1>1. \A j \in Job : j.rid \in 0..MaxRid
  BY DEF Job
<1>2. \A r \in Object : r.rid \in 0..MaxRid
  BY DEF Object
<1> QED
  BY <1>1, <1>2, BoundsAssumption DEF TypeInv, TypeOK, Sync

LEMMA InitIndex == Init => IndexInv
<1> SUFFICES ASSUME Init
             PROVE  IndexInv
  OBVIOUS
<1>1. \A o \in Objs : ~WorkerPod(o)
  BY DEF Init, WorkerPod, Created, NoObj
<1>2. RidsDrawn
  BY DEF Init, RidsDrawn, NewJob, NoJob, NoObj, Idle
<1>3. sync.due = {} /\ sync.pc = "idle"
  BY DEF Init, Idle
<1> QED
  BY <1>1, <1>2, <1>3
  DEF IndexInv, DuePhase, FreshRuntimeID, LoopIndex, IndexUnique, WorkerPod

LEMMA StartStepsIndex ==
    TypeInv /\ IndexInv /\ (Get \/ CheckExpectations \/ Lookup \/ DoneFailed) => IndexInv'
<1> SUFFICES ASSUME TypeInv, IndexInv, Get \/ CheckExpectations \/ Lookup \/ DoneFailed
             PROVE  IndexInv'
  OBVIOUS
<1>1. store' = store /\ job' = job /\ jobCache' = jobCache /\ lastRid' = lastRid
  BY DEF Get, CheckExpectations, Lookup, DoneFailed, serverVars, cacheVars
<1>2. \A o \in Objs : Kept(o)
  BY <1>1 DEF Kept
<1>3. sync' = Idle \/ (sync'.pc \in {"check", "lookup", "claim"} /\ sync'.due = sync.due
                       /\ sync.pc \in {"idle", "check", "lookup"}
                       /\ (sync'.job = sync.job \/ sync'.job = jobCache))
  <2>1. sync \in Sync
    BY DEF TypeInv, TypeOK
  <2>2. CASE Get \/ CheckExpectations
    BY <2>1, <2>2 DEF Get, CheckExpectations, Sync
  <2>3. CASE Lookup
    BY <2>1, <2>3 DEF Lookup, Sync
  <2>4. CASE DoneFailed
    BY <2>4 DEF DoneFailed
  <2> QED
    BY <2>2, <2>3, <2>4
<1>4. sync'.due = {} /\ sync'.pc # "create"
  BY <1>3 DEF Idle, IndexInv, DuePhase
<1>5. RidsDrawn'
  BY <1>1, <1>3, RidsTyped DEF Idle, NoJob, NewJob, IndexInv, RidsDrawn
<1> QED
  BY <1>2, <1>4, <1>5, NothingDue

LEMMA ClaimKeeps ==
    ASSUME TypeInv, NEW s \in Slots, Claim(s), NEW o \in Objs
    PROVE  Kept(o)
<1>1. PICK F : store' = Patched(s, F)
  BY DEF Claim
<1>2. store'[o] = store[o] \/ \E u : store'[o] = [store[o] EXCEPT !.owner = u]
  BY <1>1 DEF Patched
<1>3. store[o] \in Object
  BY DEF TypeInv, TypeOK
<1> QED
  BY <1>2, <1>3 DEF Kept, Object

LEMMA ClaimIndex == ASSUME NEW s \in Slots PROVE TypeInv /\ IndexInv /\ Claim(s) => IndexInv'
<1> SUFFICES ASSUME TypeInv, IndexInv, Claim(s)
             PROVE  IndexInv'
  OBVIOUS
<1>1. \A o \in Objs : Kept(o)
  BY ClaimKeeps
<1>2. /\ sync'.due = sync.due /\ sync.pc = "claim" /\ sync'.pc \in {"failed", "manage", "claim"}
      /\ sync'.job = sync.job
  BY DEF Claim, TypeInv, TypeOK, Sync
<1>3. RidsDrawn'
  BY <1>1, <1>2 DEF Claim, cacheVars, Kept, IndexInv, RidsDrawn
<1> QED
  BY <1>1, <1>2, <1>3, NothingDue DEF IndexInv, DuePhase

\* Here the RuntimeID is drawn for which the worker pods are created.
LEMMA ManageIndex == TypeInv /\ IndexInv /\ Manage => IndexInv'
<1> SUFFICES ASSUME TypeInv, IndexInv, Manage
             PROVE  IndexInv'
  OBVIOUS
<1> DEFINE due == IF sync.needsSync /\ ~sync.job.deleting THEN Due(Counts, Succeeded) ELSE {}
           r == RuntimeID(sync.job, due)
           j == [sync.job EXCEPT !.rid = r]
           num == [s \in AllSlots |-> IF s \in due THEN Number(s, Counts, Succeeded) ELSE 0]
<1>1. /\ lastRid' = IF r > lastRid THEN r ELSE lastRid
      /\ CacheWrite(j)
      /\ sync' = [sync EXCEPT !.pc = AfterEvent(due), !.due = due, !.job = j, !.num = num]
      /\ job' = job /\ store' = store
  BY DEF Manage
<1>2. r = IF "workerPods" \in due THEN lastRid + 1 ELSE sync.job.rid
  BY DEF RuntimeID, Composes
<1> HIDE DEF due, r, num
<1>3. j.rid = r
  BY DEF TypeInv, TypeOK, Sync, Job
<1>4. sync'.pc = AfterEvent(due) /\ sync'.due = due /\ sync'.job = j
  BY <1>1 DEF TypeInv, TypeOK, Sync
<1>5. sync'.job.rid = r
  BY <1>3, <1>4
<1>6. jobCache'.rid = r \/ jobCache'.rid = jobCache.rid
  BY <1>1, <1>3 DEF CacheWrite
<1> HIDE DEF j
<1>7. RidsDrawn'
  BY <1>1, <1>2, <1>5, <1>6, RidsTyped DEF IndexInv, RidsDrawn
<1>8. DuePhase' /\ sync'.pc # "create"
  BY <1>4 DEF DuePhase, AfterEvent
<1>9. FreshRuntimeID'
  BY <1>1, <1>2, <1>4, <1>5, RidsTyped DEF FreshRuntimeID, IndexInv, RidsDrawn
<1>10. IndexUnique'
  BY <1>1 DEF IndexInv, IndexUnique, Created
<1> QED
  BY <1>7, <1>8, <1>9, <1>10 DEF IndexInv, LoopIndex

LEMMA BeginEventIndex ==
    ASSUME NEW s \in Slots
    PROVE  TypeInv /\ IndexInv /\ BeginEvent(s) => IndexInv'
<1> SUFFICES ASSUME TypeInv, IndexInv, BeginEvent(s)
             PROVE  IndexInv'
  OBVIOUS
<1> DEFINE pc == IF sync.num[s] > 0 THEN "create" ELSE AfterEvent(sync.due \ {s})
<1>1. sync' = [sync EXCEPT !.due = @ \ {s}, !.slot = s, !.i = 0, !.pc = pc]
  BY DEF BeginEvent
<1>2. /\ pc \in {"create", "update", "events"}
      /\ pc = "update" => sync.due \ {s} = {}
  BY DEF AfterEvent
<1> HIDE DEF pc
<1>3. /\ sync'.due = sync.due \ {s} /\ sync'.slot = s /\ sync'.pc = pc
      /\ sync'.job = sync.job
  BY <1>1 DEF TypeInv, TypeOK, Sync
<1>4. s \in sync.due
  BY DEF BeginEvent
<1>5. /\ store' = store /\ job' = job /\ jobCache' = jobCache /\ lastRid' = lastRid
  BY DEF BeginEvent, serverVars, cacheVars
<1>6. RidsDrawn' /\ IndexUnique'
  BY <1>3, <1>5 DEF IndexInv, RidsDrawn, IndexUnique, Created
<1>7. DuePhase'
  BY <1>2, <1>3 DEF DuePhase
<1>8. FreshRuntimeID' /\ LoopIndex'
  BY <1>3, <1>4, <1>5 DEF IndexInv, FreshRuntimeID, LoopIndex, WorkerPod, Created
<1> QED
  BY <1>6, <1>7, <1>8 DEF IndexInv

\* A creation, whether its answer is a success or a timeout.
LEMMA CreateIndex ==
    ASSUME TypeInv, IndexInv, sync.pc = "create", NEW n \in Objs, Create(n),
           job' = job, jobCache' = jobCache, lastRid' = lastRid,
           sync'.due = sync.due, sync'.slot = sync.slot, sync'.job = sync.job,
           \/ sync'.pc = "failed"
           \/ sync'.pc \in {"create", AfterEvent(sync.due)} /\ sync'.i = sync.i + 1
    PROVE  IndexInv'
<1>1. /\ store[n].st = "none"
      /\ store'[n].st # "none" /\ store'[n].slot = sync.slot
      /\ store'[n].rid = sync.job.rid /\ store'[n].idx = sync.i
      /\ \A o \in Objs : o # n => store'[o] = store[o]
  BY DEF Create, NewObj, NoObj, TypeInv, TypeOK
<1>2. sync.i \in Nat /\ \A o \in Objs : store[o].idx \in Nat
  BY DEF TypeInv, TypeOK, Sync, Object
<1>3. RidsDrawn'
  BY <1>1 DEF IndexInv, RidsDrawn
<1>4. DuePhase'
  BY DEF DuePhase, AfterEvent
<1>5. FreshRuntimeID'
  BY <1>1 DEF IndexInv, FreshRuntimeID, LoopIndex, WorkerPod, Created
<1>6. LoopIndex'
  <2>1. SUFFICES ASSUME sync'.pc = "create", sync'.slot = "workerPods"
                 PROVE  LoopIndex'
    BY DEF LoopIndex
  <2>2. sync'.i = sync.i + 1
    BY <2>1
  <2>3. "workerPods" \notin sync'.due
    BY <2>1 DEF IndexInv, LoopIndex
  <2>4. ASSUME NEW o \in Objs, WorkerPod(o)', store'[o].rid = sync'.job.rid
        PROVE  store'[o].idx < sync'.i
    BY <1>1, <1>2, <2>1, <2>2, <2>4 DEF IndexInv, LoopIndex, WorkerPod, Created
  <2> QED
    BY <2>3, <2>4 DEF LoopIndex
<1>7. IndexUnique'
  <2>1. SUFFICES ASSUME NEW o \in Objs, NEW p \in Objs, WorkerPod(o)', WorkerPod(p)', o # p,
                        store'[o].rid = store'[p].rid
                 PROVE  store'[o].idx # store'[p].idx
    BY DEF IndexUnique, WorkerPod
  <2>2. CASE o # n /\ p # n
    BY <1>1, <2>1, <2>2 DEF IndexInv, IndexUnique, WorkerPod, Created
  <2>3. ASSUME NEW q \in Objs, q # n, WorkerPod(q)', store'[q].rid = sync.job.rid,
               sync.slot = "workerPods"
        PROVE  store'[q].idx < sync.i
    BY <1>1, <2>3 DEF IndexInv, LoopIndex, WorkerPod, Created
  <2>4. CASE o = n
    BY <1>1, <1>2, <2>1, <2>3, <2>4 DEF WorkerPod
  <2>5. CASE p = n
    BY <1>1, <1>2, <2>1, <2>3, <2>5 DEF WorkerPod
  <2> QED
    BY <2>2, <2>4, <2>5
<1> QED
  BY <1>3, <1>4, <1>5, <1>6, <1>7 DEF IndexInv
LEMMA CreateStepsIndex == TypeInv /\ IndexInv /\ (CreateOk \/ CreateFails) => IndexInv'
<1> SUFFICES ASSUME TypeInv, IndexInv, CreateOk \/ CreateFails
             PROVE  IndexInv'
  OBVIOUS
<1>1. sync.pc = "create" /\ job' = job /\ jobCache' = jobCache /\ lastRid' = lastRid
  BY DEF CreateOk, CreateFails, cacheVars
<1>2. sync' = NextIndex \/ sync' = [sync EXCEPT !.pc = "failed"]
  BY DEF CreateOk, CreateFails
<1>3. /\ sync'.due = sync.due /\ sync'.slot = sync.slot /\ sync'.job = sync.job
      /\ \/ sync'.pc = "failed"
         \/ sync'.pc \in {"create", AfterEvent(sync.due)} /\ sync'.i = sync.i + 1
  BY <1>2 DEF NextIndex, TypeInv, TypeOK, Sync
<1>4. store' = store \/ \E n \in Objs : Create(n)
  BY DEF CreateOk, CreateFails
<1>5. ASSUME NEW n \in Objs, Create(n)
      PROVE  IndexInv'
  BY <1>1, <1>3, <1>5, CreateIndex
<1>6. CASE store' = store
  <2>1. RidsDrawn' /\ IndexUnique'
    BY <1>1, <1>3, <1>6 DEF IndexInv, RidsDrawn, IndexUnique, Created
  <2>2. DuePhase'
    BY <1>3 DEF DuePhase, AfterEvent
  <2>3. FreshRuntimeID'
    BY <1>3, <1>6 DEF IndexInv, FreshRuntimeID, WorkerPod, Created
  <2>4. LoopIndex'
    <3>1. SUFFICES ASSUME sync'.pc = "create"
                   PROVE  LoopIndex'
      BY DEF LoopIndex
    <3>2. sync'.i = sync.i + 1 /\ sync.i \in Nat /\ \A o \in Objs : store[o].idx \in Nat
      BY <1>3, <3>1 DEF TypeInv, TypeOK, Sync, Object
    <3> QED
      BY <1>1, <1>3, <1>6, <3>2 DEF IndexInv, LoopIndex, WorkerPod, Created
  <2> QED
    BY <2>1, <2>2, <2>3, <2>4 DEF IndexInv
<1> QED
  BY <1>4, <1>5, <1>6

LEMMA UpdateStatusIndex == TypeInv /\ IndexInv /\ UpdateStatus => IndexInv'
<1> SUFFICES ASSUME TypeInv, IndexInv, UpdateStatus
             PROVE  IndexInv'
  OBVIOUS
<1>1. store' = store /\ lastRid' = lastRid /\ sync.pc = "update"
  BY DEF UpdateStatus
<1>2. UpdatedJob.rid = sync.job.rid
  BY DEF UpdatedJob, TypeInv, TypeOK, Sync, Job
<1>3. job' \in {job, UpdatedJob} /\ jobCache' \in {jobCache, UpdatedJob}
  BY DEF UpdateStatus, CacheWrite
<1>4. sync' = Idle \/ sync' = [sync EXCEPT !.pc = "failed"]
  BY DEF UpdateStatus
<1>5. \/ sync'.due = {} /\ sync'.job.rid = 0 /\ sync'.pc = "idle"
      \/ sync'.due = sync.due /\ sync'.job = sync.job /\ sync'.pc = "failed"
  BY <1>4 DEF Idle, NoJob, NewJob, TypeInv, TypeOK, Sync
<1>6. RidsDrawn'
  BY <1>1, <1>2, <1>3, <1>5, RidsTyped DEF IndexInv, RidsDrawn
<1>7. sync'.due = {} /\ sync'.pc # "create"
  BY <1>1, <1>5 DEF IndexInv, DuePhase
<1>8. \A o \in Objs : Kept(o)
  BY <1>1 DEF Kept
<1> QED
  BY <1>6, <1>7, <1>8, NothingDue

LEMMA InformerIndex == TypeInv /\ IndexInv /\ InformerStep => IndexInv'
<1> SUFFICES ASSUME TypeInv, IndexInv, InformerStep
             PROVE  IndexInv'
  OBVIOUS
<1>1. store' = store /\ job' = job /\ lastRid' = lastRid /\ jobCache' \in {job, jobCache}
  BY DEF InformerStep, JobCatchUp, JobRelist, ObjCatchUp, serverVars
<1>2. sync' = sync \/ sync' = [sync EXCEPT !.attached = FALSE]
  BY DEF InformerStep, JobCatchUp, JobRelist, ObjCatchUp, Detached
<1>3. /\ sync'.pc = sync.pc /\ sync'.due = sync.due /\ sync'.slot = sync.slot
      /\ sync'.i = sync.i /\ sync'.job = sync.job
  BY <1>2 DEF TypeInv, TypeOK, Sync
<1>4. RidsDrawn'
  BY <1>1, <1>3 DEF IndexInv, RidsDrawn
<1>5. \A o \in Objs : Kept(o)
  BY <1>1 DEF Kept
<1> QED
  BY <1>3, <1>4, <1>5, WorkerKept

\* Handlers, timers and stuttering touch nothing that matters here.
LEMMA BystanderIndex ==
    TypeInv /\ IndexInv /\ (Requeue \/ HandlerStep \/ ExpectationExpires \/ UNCHANGED vars)
        => IndexInv'
<1> SUFFICES ASSUME TypeInv, IndexInv,
                    Requeue \/ HandlerStep \/ ExpectationExpires \/ UNCHANGED vars
             PROVE  IndexInv'
  OBVIOUS
<1>1. UNCHANGED <<job, store, lastRid, jobCache, sync>>
  BY DEF Requeue, HandlerStep, JobHandler, AddHandler, UpdateHandler, ExpectationExpires,
         vars, serverVars, cacheVars
<1> QED
  BY <1>1 DEF IndexInv, RidsDrawn, DuePhase, FreshRuntimeID, LoopIndex, IndexUnique,
              WorkerPod, Created

LEMMA PodStepKeeps ==
    ASSUME NEW o \in Objs, TypeInv,
           \/ PodSucceeds(o) \/ PodFails(o) \/ PodDeleted(o) \/ PodRemoved(o)
           \/ GarbageCollect(o)
    PROVE  \A p \in Objs : Kept(p)
<1>1. PICK r \in {[store[o] EXCEPT !.phase = "Succeeded"], [store[o] EXCEPT !.phase = "Failed"],
                  [store[o] EXCEPT !.deleting = TRUE], [store[o] EXCEPT !.st = "gone"]} :
         Live(o) /\ SetObj(o, r)
  BY DEF PodSucceeds, PodFails, PodDeleted, PodRemoved, GarbageCollect
<1>2. /\ store' = [store EXCEPT ![o] = r]
      /\ UNCHANGED <<job, jobCache, lastRid, sync>>
  BY <1>1 DEF SetObj, cacheVars
<1>3. store[o] \in Object /\ store[o].st = "live"
  BY <1>1 DEF TypeInv, TypeOK, Live
<1>4. /\ r.st # "none" /\ r.slot = store[o].slot /\ r.rid = store[o].rid
      /\ r.idx = store[o].idx
  BY <1>1, <1>3 DEF Object
<1>5. store \in [Objs -> Object]
  BY DEF TypeInv, TypeOK
<1> QED
  BY <1>2, <1>3, <1>4, <1>5 DEF Kept

LEMMA PodStepsIndex ==
    ASSUME NEW o \in Objs, TypeInv, IndexInv,
           \/ PodSucceeds(o) \/ PodFails(o) \/ PodDeleted(o) \/ PodRemoved(o)
           \/ GarbageCollect(o)
    PROVE  IndexInv'
<1>1. \A p \in Objs : Kept(p)
  BY PodStepKeeps
<1>2. UNCHANGED <<job, jobCache, lastRid, sync>>
  BY DEF PodSucceeds, PodFails, PodDeleted, PodRemoved, GarbageCollect, SetObj, cacheVars
<1>3. RidsDrawn'
  BY <1>1, <1>2 DEF Kept, IndexInv, RidsDrawn
<1> QED
  BY <1>1, <1>2, <1>3, WorkerKept

LEMMA JobStepsIndex ==
    TypeInv /\ IndexInv /\ (UserUpdate \/ UserDelete \/ JobFinalized \/ Recreate) => IndexInv'
<1> SUFFICES ASSUME TypeInv, IndexInv, UserUpdate \/ UserDelete \/ JobFinalized \/ Recreate
             PROVE  IndexInv'
  OBVIOUS
<1>1. PICK j \in {job, NoJob, [job EXCEPT !.deleting = TRUE], NewJob(lastUid + 1)} : WriteJob(j)
  BY DEF UserUpdate, UserDelete, JobFinalized, Recreate
<1>2. j.rid = job.rid \/ j.rid = 0
  BY <1>1 DEF NoJob, NewJob, TypeInv, TypeOK, Job
<1>3. /\ job' = j /\ UNCHANGED <<store, lastRid, jobCache>>
      /\ sync' = [sync EXCEPT !.oldRV = (sync.job.uid # 0)]
  BY <1>1 DEF WriteJob
<1>4. /\ sync'.pc = sync.pc /\ sync'.due = sync.due /\ sync'.slot = sync.slot
      /\ sync'.i = sync.i /\ sync'.job = sync.job
  BY <1>3 DEF TypeInv, TypeOK, Sync
<1>5. RidsDrawn'
  BY <1>2, <1>3, <1>4, RidsTyped DEF IndexInv, RidsDrawn
<1>6. \A o \in Objs : Kept(o)
  BY <1>3 DEF Kept
<1> QED
  BY <1>4, <1>5, <1>6, WorkerKept

LEMMA CrashIndex == TypeInv /\ IndexInv /\ Crash => IndexInv'
<1> SUFFICES ASSUME TypeInv, IndexInv, Crash
             PROVE  IndexInv'
  OBVIOUS
<1>1. UNCHANGED <<job, store, lastRid>> /\ jobCache' = NoJob /\ sync' = Idle
  BY DEF Crash, serverVars
<1>2. jobCache'.rid = 0 /\ sync'.job.rid = 0 /\ sync'.due = {} /\ sync'.pc = "idle"
  BY <1>1 DEF Idle, NoJob, NewJob
<1>3. RidsDrawn'
  BY <1>1, <1>2, RidsTyped DEF IndexInv, RidsDrawn
<1>4. \A o \in Objs : Kept(o)
  BY <1>1 DEF Kept
<1> QED
  BY <1>2, <1>3, <1>4, NothingDue

LEMMA NextIndexInv == TypeInv /\ IndexInv /\ [Next]_vars => IndexInv'
BY StartStepsIndex, ClaimIndex, ManageIndex, BeginEventIndex, CreateStepsIndex,
   UpdateStatusIndex, InformerIndex, BystanderIndex, PodStepsIndex, JobStepsIndex, CrashIndex
DEF Next, ControllerStep, ClusterStep

LEMMA IndexInvariance == Spec => []IndexInv
BY InitType, NextType, InitIndex, NextIndexInv, PTL DEF Spec

\* Whatever fails, races or is created twice: the worker pods of one RuntimeID have different
\* indices, for every number of replicas, pods, RuntimeIDs and incarnations.
THEOREM UniqueIndices == Spec => []IndexUnique
<1>1. IndexInv => IndexUnique
  BY DEF IndexInv
<1> QED
  BY <1>1, IndexInvariance, PTL

-----------------------------------------------------------------------------
(***************************************************************************)
(* The bound on what a sync claims.                                        *)
(***************************************************************************)
\* Every worker pod has an index below the number of replicas,
IndexBound == \A o \in Objs : WorkerPod(o) => store[o].idx < WorkerReplicas

\* as a loop over worker pods never counts further.
LoopBound ==
    /\ sync.num["workerPods"] <= WorkerReplicas
    /\ sync.pc = "create" => sync.i < sync.num[sync.slot]

\* The claimed worker pods are of one RuntimeID, even when the job has got another since.
ClaimsAlike ==
    \A c, d \in sync.claimed["workerPods"] : store[c.obj].rid = store[d.obj].rid

BoundInv == IndexBound /\ LoopBound /\ ClaimsAlike
AllInv == TypeInv /\ IndexInv /\ EarnedInv /\ BoundInv

-----------------------------------------------------------------------------
\* A new worker pod gets the index of the loop; no other step gives indices.
LEMMA IndexBoundKept == AllInv /\ [Next]_vars => IndexBound'
<1> SUFFICES ASSUME AllInv, [Next]_vars
             PROVE  IndexBound'
  OBVIOUS
<1>1. CASE \E n \in Objs : sync.pc = "create" /\ Create(n)
  <2>1. PICK n \in Objs : sync.pc = "create" /\ Create(n)
    BY <1>1
  <2>2. /\ \A o \in Objs : o # n => store'[o] = store[o]
        /\ store'[n].slot = sync.slot /\ store'[n].idx = sync.i
    BY <2>1 DEF Create, NewObj, NoObj, AllInv, TypeInv, TypeOK
  <2>3. sync.slot = "workerPods" => sync.i < WorkerReplicas
    BY <2>1, ReplicasAssumption DEF AllInv, BoundInv, LoopBound, TypeInv, TypeOK, Sync, AllSlots
  <2> QED
    BY <2>2, <2>3 DEF AllInv, BoundInv, IndexBound, WorkerPod, Created
<1>2. CASE \A o \in Objs : Kept(o)
  BY <1>2 DEF AllInv, BoundInv, IndexBound, WorkerPod, Created, Kept
<1>3. (\E n \in Objs : sync.pc = "create" /\ Create(n)) \/ \A o \in Objs : Kept(o)
  <2>1. CASE store' = store
    BY <2>1 DEF Kept
  <2>2. ASSUME NEW s \in Slots, Claim(s)
        PROVE  \A o \in Objs : Kept(o)
    BY <2>2, ClaimKeeps DEF AllInv
  <2>3. ASSUME NEW p \in Objs,
               \/ PodSucceeds(p) \/ PodFails(p) \/ PodDeleted(p) \/ PodRemoved(p)
               \/ GarbageCollect(p)
        PROVE  \A o \in Objs : Kept(o)
    BY <2>3, PodStepKeeps DEF AllInv
  <2>4. CASE CreateOk \/ CreateFails
    BY <2>1, <2>4 DEF CreateOk, CreateFails
  <2>5. CASE UNCHANGED vars
    BY <2>1, <2>5 DEF vars, serverVars
  <2>6. CASE Requeue \/ InformerStep \/ HandlerStep
    BY <2>1, <2>6 DEF Requeue, InformerStep, JobCatchUp, JobRelist, ObjCatchUp, HandlerStep,
                      JobHandler, AddHandler, UpdateHandler, serverVars
  <2>7. CASE Get \/ CheckExpectations \/ Lookup \/ Manage \/ (\E s \in Slots : BeginEvent(s))
             \/ UpdateStatus \/ DoneFailed
    BY <2>1, <2>7 DEF Get, CheckExpectations, Lookup, Manage, BeginEvent, UpdateStatus,
                      DoneFailed, serverVars
  <2>8. CASE UserUpdate \/ UserDelete \/ JobFinalized \/ Recreate \/ ExpectationExpires \/ Crash
    BY <2>1, <2>8 DEF UserUpdate, UserDelete, JobFinalized, Recreate, WriteJob,
                      ExpectationExpires, Crash, serverVars
  <2> QED
    BY <2>2, <2>3, <2>4, <2>5, <2>6, <2>7, <2>8 DEF Next, ControllerStep, ClusterStep
<1> QED
  BY <1>1, <1>2, <1>3

LEMMA NumberBound ==
    ASSUME TypeInv
    PROVE  Number("workerPods", Counts, Succeeded) <= WorkerReplicas
BY CountsTyped, ReplicasAssumption DEF Number, Expected, AllSlots

LEMMA LoopBoundKept == AllInv /\ [Next]_vars => LoopBound'
<1> SUFFICES ASSUME AllInv, [Next]_vars
             PROVE  LoopBound'
  OBVIOUS
<1> USE DEF AllInv, BoundInv
<1>1. sync \in Sync /\ WorkerReplicas \in Nat /\ 0 <= WorkerReplicas
  BY ReplicasAssumption DEF TypeInv, TypeOK
<1>2. CASE sync' = Idle
  BY <1>1, <1>2 DEF Idle, LoopBound, AllSlots
<1>3. CASE /\ sync'.num = sync.num
           /\ sync'.pc # "create" \/ (/\ sync'.pc = sync.pc /\ sync'.i = sync.i
                                      /\ sync'.slot = sync.slot)
  BY <1>3 DEF LoopBound
<1>13. CASE sync'.num = sync.num /\ sync'.pc # "create"
  BY <1>13 DEF LoopBound
<1>4. CASE Manage
  <2> DEFINE due == IF sync.needsSync /\ ~sync.job.deleting THEN Due(Counts, Succeeded) ELSE {}
             r == RuntimeID(sync.job, due)
             j == [sync.job EXCEPT !.rid = r]
             num == [s \in AllSlots |-> IF s \in due THEN Number(s, Counts, Succeeded) ELSE 0]
  <2>1. sync' = [sync EXCEPT !.pc = AfterEvent(due), !.due = due, !.job = j, !.num = num]
    BY <1>4 DEF Manage
  <2>2. num["workerPods"] <= WorkerReplicas
    BY <1>1, NumberBound DEF AllSlots
  <2> HIDE DEF due, r, j, num
  <2>3. sync'.num = num /\ sync'.pc # "create"
    BY <1>1, <2>1 DEF AfterEvent, Sync
  <2> QED
    BY <2>2, <2>3 DEF LoopBound
<1>5. ASSUME NEW s \in Slots, BeginEvent(s)
      PROVE  LoopBound'
  <2>1. /\ sync'.num = sync.num /\ sync'.slot = s /\ sync'.i = 0
        /\ sync'.pc = "create" => sync.num[s] > 0
    BY <1>1, <1>5 DEF BeginEvent, AfterEvent, Sync
  <2> QED
    BY <2>1 DEF LoopBound
<1>6. CASE CreateOk \/ CreateFails
  <2>1. sync' = NextIndex \/ sync' = [sync EXCEPT !.pc = "failed"]
    BY <1>6 DEF CreateOk, CreateFails
  <2>2. CASE sync' = NextIndex
    <3>1. /\ sync'.num = sync.num /\ sync'.slot = sync.slot /\ sync'.i = sync.i + 1
          /\ sync'.pc = "create" => sync.i + 1 < sync.num[sync.slot]
      BY <1>1, <2>2 DEF NextIndex, AfterEvent, Sync
    <3> QED
      BY <3>1 DEF LoopBound
  <2>3. CASE sync' = [sync EXCEPT !.pc = "failed"]
    BY <1>1, <1>3, <2>3 DEF Sync
  <2> QED
    BY <2>1, <2>2, <2>3
<1>7. CASE Get \/ CheckExpectations
  BY <1>1, <1>3, <1>7 DEF Get, CheckExpectations, Sync
<1>8. CASE Lookup
  <2>1. sync' = Idle \/ sync' = [sync EXCEPT !.pc = "claim", !.job = jobCache,
                                 !.attached = TRUE, !.oldRV = jobStale, !.todo = Slots]
    BY <1>8 DEF Lookup
  <2>2. sync' # Idle => sync'.num = sync.num /\ sync'.pc = "claim"
    BY <1>1, <2>1 DEF Sync
  <2> QED
    BY <1>2, <1>13, <2>2
<1>9. ASSUME NEW s \in Slots, Claim(s)
      PROVE  LoopBound'
  <2>1. sync'.num = sync.num /\ sync'.pc \in {"failed", "manage", "claim"}
    BY <1>1, <1>9 DEF Claim, Sync
  <2> QED
    BY <1>13, <2>1
<1>10. CASE UpdateStatus \/ DoneFailed \/ Crash
  <2>1. sync' = Idle \/ sync' = [sync EXCEPT !.pc = "failed"]
    BY <1>10 DEF UpdateStatus, DoneFailed, Crash
  <2>2. sync' # Idle => sync'.num = sync.num /\ sync'.pc = "failed"
    BY <1>1, <2>1 DEF Sync
  <2> QED
    BY <1>2, <1>13, <2>2
<1>11. CASE JobCatchUp \/ JobRelist \/ UserUpdate \/ UserDelete \/ JobFinalized \/ Recreate
  <2>1. \/ sync' = [sync EXCEPT !.attached = FALSE]
        \/ sync' = [sync EXCEPT !.oldRV = (sync.job.uid # 0)]
    BY <1>11 DEF JobCatchUp, JobRelist, Detached, UserUpdate, UserDelete, JobFinalized, Recreate,
                 WriteJob
  <2> QED
    BY <1>1, <1>3, <2>1 DEF Sync
<1>12. CASE \/ Requeue \/ HandlerStep \/ ExpectationExpires \/ UNCHANGED vars
            \/ \E o \in Objs : \/ ObjCatchUp(o) \/ PodSucceeds(o) \/ PodFails(o)
                               \/ PodDeleted(o) \/ PodRemoved(o) \/ GarbageCollect(o)
  BY <1>3, <1>12 DEF Requeue, HandlerStep, JobHandler, AddHandler, UpdateHandler, ObjCatchUp,
                     ExpectationExpires, PodSucceeds, PodFails, PodDeleted, PodRemoved,
                     GarbageCollect, SetObj, vars
<1> QED
  BY <1>4, <1>5, <1>6, <1>7, <1>8, <1>9, <1>10, <1>11, <1>12
  DEF Next, ControllerStep, InformerStep, ClusterStep

\* New claims are made by passes only, and all of them for the RuntimeID of the job.
LEMMA ClaimsAlikeKept == AllInv /\ [Next]_vars => ClaimsAlike'
<1> SUFFICES ASSUME AllInv, [Next]_vars
             PROVE  ClaimsAlike'
  OBVIOUS
<1> USE DEF AllInv, BoundInv
<1>1. sync \in Sync /\ \A o \in Objs : Grows(o)
  BY StoreGrows DEF TypeInv, TypeOK, EarnedInv
<1>2. CASE sync'.claimed["workerPods"] = {}
  BY <1>2 DEF ClaimsAlike
<1>3. CASE sync'.claimed["workerPods"] = sync.claimed["workerPods"]
  <2>1. \A c \in sync.claimed["workerPods"] : c.obj \in Objs /\ Created(c.obj)
    BY <1>1 DEF Sync, AllSlots, ClaimedObj, EarnedInv, ClaimsInv, ClaimsFaithful
  <2> QED
    BY <1>1, <1>3, <2>1 DEF ClaimsAlike, Grows
<1>4. CASE sync'.pc \in {"claim", "manage"}
  <2>1. ClaimsInv'
    BY <1>1, ClaimsStep DEF EarnedInv
  <2> QED
    BY <1>4, <2>1 DEF ClaimsInv, ClaimsCurrent, ClaimsAlike
<1>5. CASE sync' = Idle
  BY <1>2, <1>5 DEF Idle, AllSlots
<1>6. CASE Lookup
  BY <1>1, <1>4, <1>5, <1>6 DEF Lookup, Sync
<1>7. ASSUME NEW s \in Slots, Claim(s)
      PROVE  ClaimsAlike'
  <2>1. sync'.claimed = sync.claimed \/ sync'.pc \in {"claim", "manage"}
    BY <1>1, <1>7 DEF Claim, Sync
  <2> QED
    BY <1>3, <1>4, <2>1
<1>8. CASE UpdateStatus \/ DoneFailed \/ Crash
  <2>1. sync' = Idle \/ sync' = [sync EXCEPT !.pc = "failed"]
    BY <1>8 DEF UpdateStatus, DoneFailed, Crash
  <2>2. sync' # Idle => sync'.claimed = sync.claimed
    BY <1>1, <2>1 DEF Sync
  <2> QED
    BY <1>3, <1>5, <2>2
<1>9. CASE Get \/ CheckExpectations \/ Manage \/ (\E s \in Slots : BeginEvent(s)) \/ CreateOk
           \/ CreateFails
  <2>1. sync'.claimed = sync.claimed
    BY <1>1, <1>9 DEF Get, CheckExpectations, Manage, BeginEvent, CreateOk, CreateFails,
                      NextIndex, Sync
  <2> QED
    BY <1>3, <2>1
<1>10. CASE JobCatchUp \/ JobRelist \/ UserUpdate \/ UserDelete \/ JobFinalized \/ Recreate
  <2>1. \/ sync' = [sync EXCEPT !.attached = FALSE]
        \/ sync' = [sync EXCEPT !.oldRV = (sync.job.uid # 0)]
    BY <1>10 DEF JobCatchUp, JobRelist, Detached, UserUpdate, UserDelete, JobFinalized, Recreate,
                 WriteJob
  <2> QED
    BY <1>1, <1>3, <2>1 DEF Sync
<1>11. CASE \/ Requeue \/ HandlerStep \/ ExpectationExpires \/ UNCHANGED vars
            \/ \E o \in Objs : \/ ObjCatchUp(o) \/ PodSucceeds(o) \/ PodFails(o)
                               \/ PodDeleted(o) \/ PodRemoved(o) \/ GarbageCollect(o)
  BY <1>3, <1>11 DEF Requeue, HandlerStep, JobHandler, AddHandler, UpdateHandler, ObjCatchUp,
                     ExpectationExpires, PodSucceeds, PodFails, PodDeleted, PodRemoved,
                     GarbageCollect, SetObj, vars
<1> QED
  BY <1>6, <1>7, <1>8, <1>9, <1>10, <1>11
  DEF Next, ControllerStep, InformerStep, ClusterStep

LEMMA InitBound == Init => BoundInv
<1> SUFFICES ASSUME Init
             PROVE  BoundInv
  OBVIOUS
<1>1. IndexBound
  BY DEF Init, IndexBound, WorkerPod, Created, NoObj
<1>2. sync.num["workerPods"] = 0 /\ sync.pc = "idle" /\ sync.claimed["workerPods"] = {}
  BY DEF Init, Idle, AllSlots
<1> QED
  BY <1>1, <1>2, ReplicasAssumption DEF BoundInv, LoopBound, ClaimsAlike

LEMMA InitAll == Init => AllInv
BY InitType, InitIndex, InitEarned, InitBound DEF AllInv

LEMMA NextAll == AllInv /\ [Next]_vars => AllInv'
<1>1. AllInv /\ [Next]_vars => TypeInv' /\ IndexInv' /\ EarnedInv'
  BY NextType, NextIndexInv, NextEarned DEF AllInv
<1> QED
  BY <1>1, IndexBoundKept, LoopBoundKept, ClaimsAlikeKept DEF AllInv, BoundInv

LEMMA AllInvariance == Spec => []AllInv
BY InitAll, NextAll, PTL DEF Spec

LEMMA ClaimsIndexed == AllInv => ClaimedWithinReplicas
<1> SUFFICES ASSUME AllInv
             PROVE  ClaimedWithinReplicas
  OBVIOUS
<1> USE DEF AllInv, BoundInv
<1> DEFINE C == sync.claimed["workerPods"]
           I == 0..(WorkerReplicas - 1)
           f == [c \in C |-> store[c.obj].idx]
<1>1. WorkerReplicas \in Nat \ {0}
  BY ReplicasAssumption
<1>2. \A c \in C : c.obj \in Objs /\ WorkerPod(c.obj) /\ store[c.obj].idx \in Nat
  BY DEF TypeInv, TypeOK, Sync, AllSlots, ClaimedObj, Object, EarnedInv, ClaimsInv,
         ClaimsFaithful, WorkerPod
<1>3. f \in [C -> I]
  BY <1>1, <1>2 DEF IndexBound
<1>4. \A c, d \in C : store[c.obj].idx = store[d.obj].idx => c = d
  <2>1. SUFFICES ASSUME NEW c \in C, NEW d \in C, c.obj # d.obj
                 PROVE  store[c.obj].idx # store[d.obj].idx
    BY DEF TypeInv, ClaimsDistinct, AllSlots
  <2>2. store[c.obj].rid = store[d.obj].rid
    BY DEF ClaimsAlike
  <2> QED
    BY <1>2, <2>1, <2>2 DEF IndexInv, IndexUnique, WorkerPod
<1>5. f \in Injection(C, I)
  BY <1>3, <1>4 DEF Injection, IsInjective
<1>6. IsFiniteSet(I) /\ Cardinality(I) = WorkerReplicas
  BY <1>1, FS_Interval
<1> HIDE DEF I, f
<1>7. Cardinality(C) <= Cardinality(I)
  BY <1>5, <1>6, FS_Injection
<1> QED
  BY <1>6, <1>7 DEF ClaimedWithinReplicas

\* A sync never claims more worker pods than the TFJob has replicas, for every number of
\* replicas and in every interleaving: NewLocal never refuses what it is given, and the
\* updaters' test for equality cannot be overtaken by the count.
THEOREM ClaimsBounded == Spec => []ClaimedWithinReplicas
BY AllInvariance, ClaimsIndexed, PTL
====
