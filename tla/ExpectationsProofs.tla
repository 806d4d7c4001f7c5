---- MODULE ExpectationsProofs ----
(***************************************************************************)
(* What the expectations are worth.  They are one number per key, set by   *)
(* the sync, lowered by addPod, addService and by failed creations.        *)
(* For a local job, which has one kind of object and creates one at a      *)
(* time, the number is exact: it counts the creation that is being made,   *)
(* the pods that have not reached the lister and their events that wait    *)
(* for addPod.  So nothing expected means that nothing is missing.         *)
(*                                                                         *)
(* Exactness takes more than a local job.  A creation that takes effect    *)
(* and reports a timeout, an expectation that expires, a restart, and the  *)
(* deletion of the TFJob each make the number wrong.                       *)
(*                                                                         *)
(* For every kind of job only one thing makes the controller expect more   *)
(* than is on its way: the failure of a pod's creation, by the rest of the *)
(* loop it breaks off.  That takes no condition at all.                    *)
(***************************************************************************)
EXTENDS FinalProofs

Disturbances == {"timeout", "expire", "crash", "jobDelete", "foreground"}
Undisturbed == \A k \in Disturbances : budget[k] = 0

\* There is only one incarnation, and nothing is expected before the lister shows it.
OneJob ==
    /\ job.uid = 1 /\ ~job.deleting /\ lastUid = 1
    /\ jobCache.uid \in {0, 1} /\ sync.job.uid \in {0, 1}
    /\ jobCache.uid = 0 => sync.job.uid = 0 /\ exp = 0

\* A sync creates one pod at most.
LocalLoop ==
    /\ sync.due \subseteq {"workerPods"}
    /\ sync.due # {} => sync.num["workerPods"] = 1
    /\ sync.pc = "create" => /\ sync.slot = "workerPods" /\ sync.num["workerPods"] = 1
                             /\ sync.i = 0 /\ sync.due = {}

\* The add event of a pod that is not in the cache yet will be the TFJob's.
LateOwned ==
    \A o \in Objs : IF Created(o) THEN cache[o].st = "none" => store[o].owner = 1
                                  ELSE store[o].owner = 0

\* Nothing is expected, and so nothing late, when a sync decides to create.
Cleared ==
    \/ sync.due # {}
    \/ sync.needsSync /\ sync.pc \in {"lookup", "claim", "manage"}
    => exp = 0

Late == {o \in Objs : Created(o) /\ cache[o].st = "none"}

LocalInv == /\ FinalInv /\ Undisturbed /\ OneJob /\ LocalLoop /\ LateOwned /\ Cleared
            /\ ExpectationsExact

-----------------------------------------------------------------------------
LEMMA UndisturbedKept ==
    ASSUME TypeInv, Undisturbed, [Next]_vars
    PROVE  Undisturbed'
<1>1. Disturbances \subseteq EventKinds
  BY DEF Disturbances, EventKinds
<1> QED
  BY <1>1, BudgetSpent DEF Undisturbed

\* What cannot happen.
LEMMA Excluded ==
    ASSUME TypeInv, Undisturbed, OneJob
    PROVE  /\ ~UserDelete /\ ~JobFinalized /\ ~Recreate /\ ~ExpectationExpires /\ ~Crash
           /\ ~Spend("timeout")
<1>1. \A k \in Disturbances : ~Spend(k)
  BY DEF Undisturbed, Spend
<1> QED
  BY <1>1 DEF Disturbances, OneJob, UserDelete, JobFinalized, Recreate, ExpectationExpires, Crash

\* The updater alone changes the server's TFJob, and not its identity.
LEMMA JobKept ==
    ASSUME TypeInv, Undisturbed, OneJob, VersionInv, [Next]_vars
    PROVE  job'.uid = 1 /\ ~job'.deleting /\ lastUid' = 1
<1>1. \/ job' = job /\ lastUid' = lastUid
      \/ UpdateStatus /\ ~sync.oldRV /\ job' = UpdatedJob /\ lastUid' = lastUid
  <2>1. CASE Requeue \/ InformerStep \/ HandlerStep \/ UNCHANGED vars
    BY <2>1 DEF Requeue, InformerStep, JobCatchUp, JobRelist, ObjCatchUp, HandlerStep,
                JobHandler, AddHandler, UpdateHandler, vars, serverVars
  <2>2. CASE ControllerStep
    BY <2>2 DEF ControllerStep, Get, CheckExpectations, Lookup, Claim, Manage, BeginEvent,
                CreateOk, CreateFails, UpdateStatus, DoneFailed, serverVars
  <2>3. CASE ClusterStep
    BY <2>3, Excluded DEF ClusterStep, PodSucceeds, PodFails, PodDeleted, PodRemoved,
                GarbageCollect, SetObj, UserUpdate, WriteJob
  <2> QED
    BY <2>1, <2>2, <2>3 DEF Next
<1>2. CASE job' = job /\ lastUid' = lastUid
  BY <1>2 DEF OneJob
<1>3. CASE UpdateStatus /\ ~sync.oldRV /\ job' = UpdatedJob /\ lastUid' = lastUid
  BY <1>3, UpdatedFields DEF UpdateStatus, VersionInv, SameJob, Active, OneJob
<1> QED
  BY <1>1, <1>2, <1>3

\* The steps that change what is expected.
LEMMA CountSteps ==
    ASSUME [Next]_vars
    PROVE  \/ exp' = exp /\ added' = added
           \/ ExpectationExpires
           \/ \E o \in Objs : ObjCatchUp(o)
           \/ \E u \in 1..MaxUid : AddHandler(u)
           \/ \E s \in Slots : BeginEvent(s)
           \/ CreateFails
           \/ Lookup
           \/ Crash
<1>1. CASE Requeue \/ InformerStep \/ HandlerStep \/ UNCHANGED vars
  BY <1>1 DEF Requeue, InformerStep, JobCatchUp, JobRelist, HandlerStep,
              JobHandler, UpdateHandler, vars, eventVars
<1>2. CASE ControllerStep
  BY <1>2 DEF ControllerStep, Get, CheckExpectations, Claim, Manage,
              CreateOk, UpdateStatus, DoneFailed, eventVars
<1>3. CASE ClusterStep
  BY <1>3 DEF ClusterStep, PodSucceeds, PodFails, PodDeleted, PodRemoved, GarbageCollect, SetObj,
              UserUpdate, UserDelete, JobFinalized, Recreate, WriteJob, eventVars
<1> QED
  BY <1>1, <1>2, <1>3 DEF Next

LEMMA ExpSteps ==
    ASSUME TypeInv, Undisturbed, OneJob, [Next]_vars
    PROVE  \/ exp' = exp /\ added' = added
           \/ \E o \in Objs : ObjCatchUp(o)
           \/ \E u \in 1..MaxUid : AddHandler(u)
           \/ \E s \in Slots : BeginEvent(s)
           \/ CreateFails
           \/ Lookup
BY CountSteps, Excluded

\* As long as nothing is expected, only an event raises the number.
LEMMA ZeroKept ==
    ASSUME [Next]_vars, exp = 0
    PROVE  exp' = 0 \/ \E s \in Slots : BeginEvent(s)
<1>1. CASE \E o \in Objs : ObjCatchUp(o)
  BY <1>1 DEF ObjCatchUp
<1>2. CASE \E u \in 1..MaxUid : AddHandler(u)
  BY <1>2 DEF AddHandler, CreationObserved
<1>3. CASE CreateFails
  BY <1>3 DEF CreateFails, CreationObserved
<1>4. CASE Lookup \/ ExpectationExpires \/ Crash
  BY <1>4 DEF Lookup, ExpectationExpires, Crash, DeleteExpectations, NoExpectation
<1> QED
  BY <1>1, <1>2, <1>3, <1>4, CountSteps

LEMMA OneJobKept ==
    ASSUME FinalInv, Undisturbed, OneJob, [Next]_vars
    PROVE  OneJob'
<1>1. TypeInv /\ ~Crash /\ VersionInv /\ sync \in Sync
  BY NoCrashNow DEF FinalInv, AllInv, TypeInv, TypeOK
<1>2. job'.uid = 1 /\ ~job'.deleting /\ lastUid' = 1
  BY <1>1, JobKept
<1>3. CASE jobCache.uid = 1
  <2>1. NoJob.uid = 0 /\ Idle.job = NoJob
    BY DEF NoJob, NewJob, Idle
  <2>2. UpdatedJob.uid = sync.job.uid
    BY <1>1, UpdatedFields
  <2>3. CASE UpdateStatus
    <3>1. /\ jobCache' \in {jobCache, UpdatedJob} /\ sync'.job \in {sync.job, NoJob}
          /\ sync.pc = "update"
      BY <1>1, <2>1, <2>3 DEF UpdateStatus, CacheWrite, Sync
    <3>2. sync.job.uid = 1
      BY <1>1, <3>1 DEF OneJob, VersionInv, Active
    <3> QED
      BY <1>2, <1>3, <2>1, <2>2, <3>1, <3>2 DEF OneJob
  <2>4. CASE Manage
    <3>1. sync.job.uid = 1
      BY <1>1, <2>4, ManageFields DEF OneJob, VersionInv, Active
    <3> QED
      BY <1>1, <1>2, <1>3, <2>4, <3>1, ManageFields DEF OneJob
  <2>5. CASE \/ Bystands \/ PodChanges \/ JobDelivered \/ JobWritten \/ SyncStarts
             \/ (\E o \in Objs : ObjCatchUp(o))
    <3>1. jobCache' \in {job, jobCache} /\ sync'.job = sync.job
      BY <1>1, <2>5 DEF Bystands, PodChanges, JobDelivered, Detached, JobWritten, WriteJob,
                        SyncStarts, ObjCatchUp, Sync
    <3> QED
      BY <1>2, <1>3, <3>1 DEF OneJob
  <2>6. CASE SyncEnds \/ Lookup
    <3>1. jobCache' = jobCache /\ sync'.job \in {NoJob, jobCache}
      BY <1>1, <2>1, <2>6 DEF SyncEnds, DoneFailed, Lookup, cacheVars, Sync
    <3> QED
      BY <1>2, <1>3, <2>1, <3>1 DEF OneJob
  <2>7. CASE \/ (\E s \in Slots : Claim(s)) \/ (\E s \in Slots : BeginEvent(s))
             \/ CreateOk \/ CreateFails
    <3>1. jobCache' = jobCache /\ sync'.job = sync.job
      BY <1>1, <2>7, CallsKeepJob DEF Claim, BeginEvent, CreateOk, CreateFails, cacheVars
    <3> QED
      BY <1>2, <1>3, <3>1 DEF OneJob
  <2> QED
    BY <1>1, <2>3, <2>4, <2>5, <2>6, <2>7, Steps
<1>4. CASE jobCache.uid = 0
  <2>1. sync.job.uid = 0 /\ exp = 0 /\ ~Active
    BY <1>1, <1>4 DEF OneJob, VersionInv
  <2>2. exp' = 0
    BY <1>1, <2>1, ZeroKept DEF BeginEvent, Active
  <2>3. sync'.job.uid = 0 /\ jobCache'.uid \in {0, 1}
    <3>1. CASE \/ Bystands \/ PodChanges \/ JobDelivered \/ JobWritten \/ SyncStarts
               \/ (\E o \in Objs : ObjCatchUp(o))
      <4>1. jobCache' \in {job, jobCache} /\ sync'.job = sync.job
        BY <1>1, <3>1 DEF Bystands, PodChanges, JobDelivered, Detached, JobWritten, WriteJob,
                          SyncStarts, ObjCatchUp, Sync
      <4> QED
        BY <2>1, <4>1 DEF OneJob
    <3>2. CASE SyncEnds \/ Lookup
      <4>1. jobCache' = jobCache /\ sync' = Idle
        BY <1>4, <3>2 DEF SyncEnds, DoneFailed, Lookup, cacheVars
      <4> QED
        BY <1>4, <4>1 DEF Idle, NoJob, NewJob
    <3> QED
      BY <1>1, <2>1, <3>1, <3>2, Steps
      DEF Active, Claim, Manage, BeginEvent, CreateOk, CreateFails, UpdateStatus
  <2> QED
    BY <1>2, <2>1, <2>2, <2>3 DEF OneJob
<1> QED
  BY <1>3, <1>4 DEF OneJob

\* What a local job's sync still has to do.
LEMMA LocalLoopKept ==
    ASSUME FinalInv, LocalJob, LocalLoop, [Next]_vars
    PROVE  LocalLoop'
<1>1. TypeInv /\ ~Crash /\ DuePhase /\ sync \in Sync
  BY NoCrashNow DEF FinalInv, AllInv, IndexInv, TypeInv, TypeOK
<1>2. Slots = {"workerPods"} /\ "workerPods" \in AllSlots
  BY DEF Slots, PodSlots, ServiceSlots, AllSlots
<1>3. CASE sync'.due = {} /\ sync'.pc # "create"
  BY <1>3 DEF LocalLoop
<1>4. CASE /\ sync'.due = sync.due /\ sync'.num = sync.num /\ sync'.slot = sync.slot
           /\ sync'.i = sync.i
           /\ sync'.pc = "create" => sync.pc = "create"
  BY <1>4 DEF LocalLoop
<1>5. CASE \/ Bystands \/ PodChanges \/ JobDelivered \/ JobWritten
           \/ (\E o \in Objs : ObjCatchUp(o)) \/ (\E s \in Slots : Claim(s))
  <2>1. CASE \/ Bystands \/ PodChanges \/ JobDelivered \/ JobWritten
             \/ (\E o \in Objs : ObjCatchUp(o))
    BY <1>1, <1>4, <2>1 DEF Bystands, PodChanges, JobDelivered, Detached, JobWritten, WriteJob,
                            ObjCatchUp, Sync
  <2>2. ASSUME NEW s \in Slots, Claim(s)
        PROVE  LocalLoop'
    <3> DEFINE new == {[obj |-> o, phase |-> cache[o].phase, deleting |-> cache[o].deleting]
                         : o \in {o \in ListedFor(s) : \/ Verdict(o, s) = "claim"
                                                       \/ Verdict(o, s) = "adopt" /\ Live(o)}}
               pc == IF sync.todo = {s} THEN "manage" ELSE "claim"
    <3>1. \/ sync' = [sync EXCEPT !.pc = "failed"]
          \/ sync' = [sync EXCEPT !.todo = @ \ {s}, !.claimed[s] = new, !.pc = pc]
      BY <1>1, <2>2, PassClaims
    <3>2. pc # "create"
      OBVIOUS
    <3> HIDE DEF new, pc
    <3>3. /\ sync'.due = sync.due /\ sync'.num = sync.num /\ sync'.slot = sync.slot
          /\ sync'.i = sync.i /\ sync'.pc \in {"failed", pc}
      BY <1>1, <3>1 DEF Sync
    <3> QED
      BY <1>4, <3>2, <3>3
  <2> QED
    BY <1>5, <2>1, <2>2
<1>6. CASE SyncStarts \/ SyncEnds \/ Lookup \/ UpdateStatus
  <2>1. Idle.due = {} /\ Idle.pc = "idle"
    BY DEF Idle
  <2>2. \/ sync' = Idle
        \/ sync.due = {} /\ sync'.due = sync.due /\ sync'.pc # "create"
    BY <1>1, <1>6 DEF SyncStarts, SyncEnds, DoneFailed, Lookup, UpdateStatus, DuePhase, Sync
  <2> QED
    BY <1>3, <2>1, <2>2
<1>7. CASE Manage
  <2> DEFINE due == IF sync.needsSync /\ ~sync.job.deleting THEN Due(Counts, Succeeded) ELSE {}
             r == RuntimeID(sync.job, due)
             j == [sync.job EXCEPT !.rid = r]
             num == [s \in AllSlots |-> IF s \in due THEN Number(s, Counts, Succeeded) ELSE 0]
  <2>1. sync' = [sync EXCEPT !.pc = AfterEvent(due), !.due = due, !.job = j, !.num = num]
    BY <1>7 DEF Manage
  <2>2. due \subseteq {"workerPods"} /\ (due # {} => num["workerPods"] = 1)
    BY <1>2, DueTyped DEF Number
  <2> HIDE DEF due, j, num
  <2>3. sync'.due = due /\ sync'.num = num /\ sync'.pc # "create"
    BY <1>1, <2>1 DEF AfterEvent, Sync
  <2> QED
    BY <2>2, <2>3 DEF LocalLoop
<1>8. ASSUME NEW s \in Slots, BeginEvent(s)
      PROVE  LocalLoop'
  <2>1. /\ sync'.due = sync.due \ {s} /\ sync'.num = sync.num /\ sync'.slot = s /\ sync'.i = 0
        /\ s \in sync.due
    BY <1>1, <1>8 DEF BeginEvent, Sync
  <2> QED
    BY <1>2, <2>1 DEF LocalLoop
<1>9. CASE CreateOk \/ CreateFails
  <2>1. sync.pc = "create" /\ sync.due = {} /\ sync.num[sync.slot] = 1 /\ sync.i = 0
    BY <1>9 DEF LocalLoop, CreateOk, CreateFails
  <2>2. NextIndex = [sync EXCEPT !.i = 1, !.pc = "update"]
    BY <1>1, <2>1 DEF NextIndex, AfterEvent, Sync
  <2>3. sync'.due = {} /\ sync'.pc \in {"update", "failed"}
    BY <1>1, <1>9, <2>1, <2>2 DEF CreateOk, CreateFails, Sync
  <2> QED
    BY <1>3, <2>3
<1> QED
  BY <1>1, <1>5, <1>6, <1>7, <1>8, <1>9, Steps

LEMMA LateOwnedKept ==
    ASSUME FinalInv, OneJob, LateOwned, [Next]_vars
    PROVE  LateOwned'
<1>1. /\ TypeInv /\ ~Crash /\ VersionInv /\ CacheFaithful /\ sync \in Sync
      /\ store \in [Objs -> Object]
  BY NoCrashNow DEF FinalInv, AllInv, EarnedInv, TypeInv, TypeOK
<1>2. SUFFICES ASSUME NEW o \in Objs
               PROVE  IF store'[o].st # "none" THEN cache'[o].st = "none" => store'[o].owner = 1
                                               ELSE store'[o].owner = 0
  BY DEF LateOwned, Created
<1>3. cache'[o].st = "none" => cache[o].st = "none"
  BY <1>1, CacheGrows
<1>4. CASE /\ (store'[o].st = "none") = (store[o].st = "none")
           /\ cache[o].st = "none" => store'[o].owner = store[o].owner
  <2>1. store[o].st = "none" => cache[o].st = "none"
    BY <1>1 DEF CacheFaithful, Created
  <2> QED
    BY <1>3, <1>4, <2>1 DEF LateOwned, Created
<1>5. CASE store' = store
  BY <1>4, <1>5
<1>6. CASE PodChanges
  BY <1>4, <1>6 DEF PodChanges, Kept
<1>7. CASE \E s \in Slots : Claim(s)
  <2>1. PICK s \in Slots : Claim(s)
    BY <1>7
  <2>2. PICK F : store' = Patched(s, F)
    BY <2>1 DEF Claim
  <2>3. Kept(o)
    BY <1>1, <2>1, ClaimKeeps
  <2>4. cache[o].st = "none" => store'[o] = store[o]
    BY <2>2 DEF Patched, ListedFor
  <2> QED
    BY <1>4, <2>3, <2>4 DEF Kept
<1>8. ASSUME NEW n \in Objs, Create(n), sync.pc = "create"
      PROVE  IF store'[o].st # "none" THEN cache'[o].st = "none" => store'[o].owner = 1
                                      ELSE store'[o].owner = 0
  <2>1. sync.job.uid = 1
    BY <1>1, <1>8 DEF VersionInv, Active, OneJob
  <2>2. /\ o # n => store'[o] = store[o]
        /\ store'[n].st = "live" /\ store'[n].owner = sync.job.uid
    BY <1>1, <1>8 DEF Create, NewObj, NoObj
  <2> QED
    BY <1>4, <2>1, <2>2
<1>9. CASE CreateOk \/ CreateFails
  BY <1>5, <1>8, <1>9 DEF CreateOk, CreateFails
<1>10. CASE \/ Bystands \/ JobDelivered \/ JobWritten \/ SyncStarts \/ SyncEnds \/ Lookup
            \/ Manage \/ UpdateStatus \/ (\E n \in Objs : ObjCatchUp(n))
            \/ (\E s \in Slots : BeginEvent(s))
  <2>1. store' = store
    BY <1>10 DEF Bystands, JobDelivered, JobWritten, SyncStarts, SyncEnds, Lookup, Manage,
                 UpdateStatus, ObjCatchUp, BeginEvent, serverVars
  <2> QED
    BY <1>5, <2>1
<1> QED
  BY <1>1, <1>6, <1>7, <1>9, <1>10, Steps

\* A sync that is to create has seen nothing expected, and nobody has raised it since.
LEMMA ClearedKept ==
    ASSUME FinalInv, Undisturbed, OneJob, LocalLoop, Cleared, [Next]_vars
    PROVE  Cleared'
<1>1. TypeInv /\ ~Crash /\ DuePhase /\ sync \in Sync
  BY NoCrashNow DEF FinalInv, AllInv, IndexInv, TypeInv, TypeOK
<1>2. CASE sync'.due = {} /\ sync'.pc \notin {"lookup", "claim", "manage"}
  BY <1>2 DEF Cleared
<1>3. CASE exp = 0 /\ ~\E s \in Slots : BeginEvent(s)
  BY <1>1, <1>3, ZeroKept DEF Cleared
<1>4. CASE /\ sync'.due = sync.due /\ sync'.needsSync = sync.needsSync
           /\ \/ sync'.pc \notin {"lookup", "claim", "manage"}
              \/ sync.pc \in {"lookup", "claim", "manage"}
           /\ ~\E s \in Slots : BeginEvent(s)
  BY <1>3, <1>4 DEF Cleared
<1>5. ASSUME NEW s \in Slots, BeginEvent(s)
      PROVE  Cleared'
  <2>1. sync.pc = "events" /\ s \in sync.due /\ sync'.due = sync.due \ {s}
    BY <1>1, <1>5 DEF BeginEvent, Sync
  <2>2. sync'.pc \in {"create", "update", "events"}
    BY <1>1, <1>5 DEF BeginEvent, AfterEvent, Sync
  <2> QED
    BY <1>2, <2>1, <2>2 DEF LocalLoop
<1>6. CASE CheckExpectations
  <2>1. sync'.due = sync.due /\ sync'.needsSync = (exp = 0) /\ exp' = exp /\ sync.due = {}
    BY <1>1, <1>6 DEF CheckExpectations, SatisfiedExpectations, DuePhase, Sync
  <2> QED
    BY <2>1 DEF Cleared
<1>7. CASE Manage
  <2> DEFINE due == IF sync.needsSync /\ ~sync.job.deleting THEN Due(Counts, Succeeded) ELSE {}
             r == RuntimeID(sync.job, due)
             j == [sync.job EXCEPT !.rid = r]
             num == [s \in AllSlots |-> IF s \in due THEN Number(s, Counts, Succeeded) ELSE 0]
  <2>1. /\ sync' = [sync EXCEPT !.pc = AfterEvent(due), !.due = due, !.job = j, !.num = num]
        /\ sync.pc = "manage" /\ exp' = exp
    BY <1>7 DEF Manage
  <2>2. due # {} => sync.needsSync
    OBVIOUS
  <2> HIDE DEF due, j, num
  <2>3. sync'.due = due /\ sync'.pc \in {"update", "events"}
    BY <1>1, <2>1 DEF AfterEvent, Sync
  <2> QED
    BY <2>1, <2>2, <2>3 DEF Cleared
<1>8. ASSUME NEW s \in Slots, Claim(s)
      PROVE  Cleared'
  <2> DEFINE new == {[obj |-> o, phase |-> cache[o].phase, deleting |-> cache[o].deleting]
                       : o \in {o \in ListedFor(s) : \/ Verdict(o, s) = "claim"
                                                     \/ Verdict(o, s) = "adopt" /\ Live(o)}}
             pc == IF sync.todo = {s} THEN "manage" ELSE "claim"
  <2>1. \/ sync' = [sync EXCEPT !.pc = "failed"]
        \/ sync' = [sync EXCEPT !.todo = @ \ {s}, !.claimed[s] = new, !.pc = pc]
    BY <1>1, <1>8, PassClaims
  <2>2. sync.pc = "claim"
    BY <1>8 DEF Claim
  <2> HIDE DEF new, pc
  <2>3. sync'.due = sync.due /\ sync'.needsSync = sync.needsSync
    BY <1>1, <2>1 DEF Sync
  <2> QED
    BY <1>4, <2>2, <2>3 DEF BeginEvent
<1>9. CASE \/ Bystands \/ PodChanges \/ JobDelivered \/ JobWritten
           \/ (\E o \in Objs : ObjCatchUp(o))
  <2>1. /\ sync'.due = sync.due /\ sync'.needsSync = sync.needsSync /\ sync'.pc = sync.pc
        /\ sync'.slot = sync.slot
    BY <1>1, <1>9 DEF Bystands, PodChanges, JobDelivered, Detached, JobWritten, WriteJob,
                      ObjCatchUp, Sync
  <2>2. ~\E s \in Slots : BeginEvent(s)
    <3>1. SUFFICES ASSUME NEW s \in Slots, BeginEvent(s)
                   PROVE  FALSE
      OBVIOUS
    <3> QED
      BY <1>1, <2>1, <3>1 DEF BeginEvent, Sync
  <2> QED
    BY <1>4, <2>1, <2>2
<1>10. CASE Get \/ SyncEnds \/ Lookup \/ CreateOk \/ CreateFails \/ UpdateStatus
  <2>1. ~\E s \in Slots : BeginEvent(s)
    BY <1>10 DEF Get, SyncEnds, DoneFailed, Lookup, CreateOk, CreateFails, UpdateStatus, BeginEvent
  <2>2. Idle.due = {} /\ Idle.pc = "idle"
    BY DEF Idle
  <2>3. \/ sync' = Idle
        \/ /\ sync'.due = sync.due /\ sync'.needsSync = sync.needsSync
           /\ \/ sync'.pc \notin {"lookup", "claim", "manage"}
              \/ sync.pc = "lookup"
    <3>1. CASE Get \/ SyncEnds \/ UpdateStatus
      BY <1>1, <3>1 DEF Get, SyncEnds, DoneFailed, UpdateStatus, Sync
    <3>2. CASE Lookup
      BY <1>1, <3>2 DEF Lookup, Sync
    <3>3. CASE CreateOk \/ CreateFails
      BY <1>1, <3>3 DEF CreateOk, CreateFails, NextIndex, AfterEvent, Sync
    <3> QED
      BY <1>10, <3>1, <3>2, <3>3
  <2> QED
    BY <1>2, <1>4, <2>1, <2>2, <2>3
<1> QED
  BY <1>1, <1>5, <1>6, <1>7, <1>8, <1>9, <1>10, Steps DEF SyncStarts

-----------------------------------------------------------------------------
(***************************************************************************)
(* The count.                                                              *)
(***************************************************************************)
LateNext == {o \in Objs : store'[o].st # "none" /\ cache'[o].st = "none"}
Creating == IF sync.pc = "create" THEN 1 ELSE 0
CreatingNext == IF sync'.pc = "create" THEN 1 ELSE 0
Exact == exp = Cardinality(Late) + added[1] + Creating
ExactNext == exp' = Cardinality(LateNext) + added'[1] + CreatingNext

LEMMA ExactDef ==
    ASSUME LocalJob
    PROVE  /\ job.uid = 1 => (ExpectationsExact <=> Exact)
           /\ job'.uid = 1 => (ExpectationsExact' <=> ExactNext)
BY DEF ExpectationsExact, Exact, ExactNext, Late, LateNext, Created, Creating, CreatingNext

LEMMA CountsFinite ==
    ASSUME TypeInv
    PROVE  /\ IsFiniteSet(Late) /\ Cardinality(Late) \in Nat
           /\ IsFiniteSet(LateNext) /\ Cardinality(LateNext) \in Nat
           /\ added \in [1..MaxUid -> Nat] /\ 1 \in 1..MaxUid /\ added[1] \in Nat
           /\ exp \in Nat
<1>1. Late \subseteq Objs /\ LateNext \subseteq Objs
  BY DEF Late, LateNext
<1> QED
  BY <1>1, FiniteObjs, BoundsAssumption DEF TypeInv, TypeOK

\* Steps that neither create nor deliver.
LEMMA LateKept ==
    ASSUME cache' = cache, \A o \in Objs : (store'[o].st = "none") = (store[o].st = "none")
    PROVE  LateNext = Late
BY DEF Late, LateNext, Created

\* A created pod is one more that is late.
LEMMA CreationCounts ==
    ASSUME TypeInv, CacheFaithful, NEW n \in Objs, Create(n), cache' = cache
    PROVE  Cardinality(LateNext) = Cardinality(Late) + 1
<1>1. /\ store[n].st = "none" /\ store'[n].st = "live"
      /\ \A o \in Objs : o # n => store'[o] = store[o]
  BY DEF Create, NewObj, NoObj, TypeInv, TypeOK
<1>2. cache[n].st = "none"
  BY <1>1 DEF CacheFaithful, Created
<1>3. LateNext = Late \cup {n} /\ n \notin Late
  BY <1>1, <1>2 DEF Late, LateNext, Created
<1> QED
  BY <1>3, CountsFinite, FS_AddElement

\* A delivered pod is one less that is late, and one more event.
LEMMA DeliveryCounts ==
    ASSUME TypeInv, CacheFaithful, LateOwned, NEW n \in Objs, ObjCatchUp(n)
    PROVE  Cardinality(LateNext) + added'[1] = Cardinality(Late) + added[1]
<1>1. /\ store' = store /\ cache' = [cache EXCEPT ![n] = store[n]]
      /\ added' = IF cache[n].st = "none" /\ store[n].owner # 0
                  THEN [added EXCEPT ![store[n].owner] = @ + 1] ELSE added
  BY DEF ObjCatchUp, serverVars
<1>2. \A o \in Objs : cache'[o] = IF o = n THEN store[n] ELSE cache[o]
  BY <1>1 DEF TypeInv, TypeOK
<1>3. CASE cache[n].st # "none" \/ ~Created(n)
  <2>1. added' = added
    BY <1>1, <1>3 DEF LateOwned
  <2>2. (store[n].st = "none") = (cache[n].st = "none")
    BY <1>3 DEF CacheFaithful, Created
  <2>3. LateNext = Late
    BY <1>1, <1>2, <2>2 DEF Late, LateNext, Created
  <2> QED
    BY <2>1, <2>3
<1>4. CASE cache[n].st = "none" /\ Created(n)
  <2>1. added'[1] = added[1] + 1
    <3>1. store[n].owner = 1
      BY <1>4 DEF LateOwned
    <3>2. added' = [added EXCEPT ![1] = added[1] + 1]
      BY <1>1, <1>4, <3>1
    <3> QED
      BY <3>2, CountsFinite
  <2>2. LateNext = Late \ {n} /\ n \in Late
    BY <1>1, <1>2, <1>4 DEF Late, LateNext, Created
  <2>3. Cardinality(LateNext) = Cardinality(Late) - 1
    BY <2>2, CountsFinite, FS_RemoveElement
  <2> QED
    BY <2>1, <2>3, CountsFinite
<1> QED
  BY <1>3, <1>4

LEMMA ExactKept ==
    ASSUME LocalJob, FinalInv, Undisturbed, OneJob, LocalLoop, LateOwned, Cleared, Exact,
           [Next]_vars
    PROVE  ExactNext
<1>1. /\ TypeInv /\ ~Crash /\ CacheFaithful /\ VersionInv /\ sync \in Sync
      /\ store \in [Objs -> Object]
  BY NoCrashNow DEF FinalInv, AllInv, EarnedInv, TypeInv, TypeOK
<1>2. /\ Cardinality(Late) \in Nat /\ Cardinality(LateNext) \in Nat
      /\ added \in [1..MaxUid -> Nat] /\ 1 \in 1..MaxUid /\ added[1] \in Nat
      /\ exp \in Nat /\ Creating \in {0, 1}
  BY <1>1, CountsFinite DEF Creating
<1>3. CASE \E n \in Objs : ObjCatchUp(n)
  <2>1. exp' = exp /\ sync' = sync
    BY <1>3 DEF ObjCatchUp
  <2>2. CreatingNext = Creating
    BY <2>1 DEF Creating, CreatingNext
  <2>3. Cardinality(LateNext) + added'[1] = Cardinality(Late) + added[1]
    BY <1>1, <1>3, DeliveryCounts
  <2>4. added'[1] \in Nat
    BY <1>1, <1>2, NextType DEF TypeInv, TypeOK
  <2> QED
    BY <1>2, <2>1, <2>2, <2>3, <2>4 DEF Exact, ExactNext
<1>4. ASSUME NEW u \in 1..MaxUid, AddHandler(u)
      PROVE  ExactNext
  <2>1. UNCHANGED <<store, cache, sync>> /\ added[u] > 0 /\ added' = [added EXCEPT ![u] = @ - 1]
    BY <1>4 DEF AddHandler, serverVars, cacheVars
  <2>2. LateNext = Late /\ CreatingNext = Creating
    BY <2>1, LateKept DEF Creating, CreatingNext
  <2>3. CASE u = 1
    <3>1. exp > 0
      BY <1>2, <2>1, <2>3 DEF Exact
    <3>2. exp' = exp - 1
      BY <1>2, <1>4, <2>3, <3>1 DEF AddHandler, Resolves, OneJob, CreationObserved
    <3>3. added'[1] = added[1] - 1
      BY <1>2, <2>1, <2>3
    <3> QED
      BY <1>2, <2>2, <3>2, <3>3 DEF Exact, ExactNext
  <2>4. CASE u # 1
    <3>1. exp' = exp
      BY <1>4, <2>4 DEF AddHandler, Resolves, OneJob
    <3>2. added'[1] = added[1]
      BY <1>2, <2>1, <2>4
    <3> QED
      BY <2>2, <3>1, <3>2 DEF Exact, ExactNext
  <2> QED
    BY <2>3, <2>4
<1>5. ASSUME NEW s \in Slots, BeginEvent(s)
      PROVE  ExactNext
  <2>1. UNCHANGED <<store, cache, added>> /\ sync.pc = "events" /\ s \in sync.due
    BY <1>5 DEF BeginEvent, serverVars, cacheVars, eventVars
  <2>2. LateNext = Late
    BY <2>1, LateKept
  <2>3. s = "workerPods" /\ sync.num[s] = 1 /\ exp = 0
    BY <2>1 DEF LocalLoop, Cleared
  <2>4. exp' = 1
    BY <1>5, <2>3 DEF BeginEvent, ExpectCreations
  <2>5. sync'.pc = "create"
    BY <1>1, <1>5, <2>3 DEF BeginEvent, Sync
  <2> QED
    BY <1>2, <2>1, <2>2, <2>3, <2>4, <2>5 DEF Exact, ExactNext, Creating, CreatingNext
<1>6. CASE CreateOk
  <2>1. sync.pc = "create" /\ cache' = cache /\ exp' = exp /\ added' = added
    BY <1>6 DEF CreateOk, cacheVars, eventVars
  <2>2. Cardinality(LateNext) = Cardinality(Late) + 1
    BY <1>1, <1>6, <2>1, CreationCounts DEF CreateOk
  <2>3. sync'.pc # "create"
    <3>1. sync.due = {} /\ sync.num[sync.slot] = 1 /\ sync.i = 0
      BY <2>1 DEF LocalLoop
    <3> QED
      BY <1>1, <1>6, <3>1 DEF CreateOk, NextIndex, AfterEvent, Sync
  <2> QED
    BY <1>2, <2>1, <2>2, <2>3 DEF Exact, ExactNext, Creating, CreatingNext
<1>7. CASE CreateFails
  <2>1. sync.pc = "create" /\ cache' = cache /\ exp' = CreationObserved(exp) /\ added' = added
    BY <1>7 DEF CreateFails, cacheVars, eventVars
  <2>2. store' = store
    BY <1>1, <1>7, Excluded DEF CreateFails
  <2>3. LateNext = Late
    BY <2>1, <2>2, LateKept
  <2>4. exp' = exp - 1
    BY <1>2, <2>1 DEF Exact, Creating, CreationObserved
  <2>5. sync'.pc = "failed"
    BY <1>1, <1>7, <2>1 DEF CreateFails, LocalLoop, AllPodSlots, Sync
  <2> QED
    BY <1>2, <2>1, <2>3, <2>4, <2>5 DEF Exact, ExactNext, Creating, CreatingNext
<1>8. CASE Lookup
  <2>1. UNCHANGED <<store, cache, added>> /\ sync.pc = "lookup"
    BY <1>8 DEF Lookup, serverVars, cacheVars, eventVars
  <2>2. LateNext = Late
    BY <2>1, LateKept
  <2>3. exp' = exp
    BY <1>8 DEF Lookup, OneJob, DeleteExpectations, NoExpectation
  <2>4. sync'.pc # "create"
    <3>1. Idle.pc = "idle"
      BY DEF Idle
    <3> QED
      BY <1>1, <1>8, <3>1 DEF Lookup, Sync
  <2> QED
    BY <2>1, <2>2, <2>3, <2>4 DEF Exact, ExactNext, Creating, CreatingNext
<1>9. CASE \/ Bystands \/ PodChanges \/ JobDelivered \/ JobWritten \/ SyncStarts \/ SyncEnds
           \/ (\E s \in Slots : Claim(s)) \/ Manage \/ UpdateStatus
  <2> SUFFICES ASSUME exp' = exp, added' = added
               PROVE  ExactNext
    BY <1>1, <1>3, <1>4, <1>5, <1>7, <1>8, ExpSteps
  <2>1. cache' = cache
    BY <1>9 DEF Bystands, PodChanges, JobDelivered, JobWritten, SyncStarts, SyncEnds, Claim,
                Manage, UpdateStatus, cacheVars
  <2>2. \A o \in Objs : (store'[o].st = "none") = (store[o].st = "none")
    <3>1. ASSUME NEW s \in Slots, Claim(s)
          PROVE  \A o \in Objs : Kept(o)
      BY <1>1, <3>1, ClaimKeeps
    <3> QED
      BY <1>9, <3>1 DEF Bystands, PodChanges, JobDelivered, JobWritten, SyncStarts, SyncEnds,
                        Manage, UpdateStatus, Kept
  <2>3. CreatingNext = Creating
    <3>1. CASE Bystands \/ PodChanges \/ JobDelivered \/ JobWritten
      <4>1. sync'.pc = sync.pc
        BY <1>1, <3>1 DEF Bystands, PodChanges, JobDelivered, Detached, JobWritten, WriteJob, Sync
      <4> QED
        BY <4>1 DEF Creating, CreatingNext
    <3>2. CASE SyncStarts \/ SyncEnds \/ Manage \/ UpdateStatus
      <4>1. sync.pc # "create" /\ sync'.pc # "create"
        BY <1>1, <3>2, ManageFields DEF SyncStarts, SyncEnds, DoneFailed, UpdateStatus, Idle, Sync
      <4> QED
        BY <4>1 DEF Creating, CreatingNext
    <3>3. ASSUME NEW s \in Slots, Claim(s)
          PROVE  CreatingNext = Creating
      <4>1. sync.pc = "claim"
        BY <3>3 DEF Claim
      <4>2. sync'.pc \in {"failed", "manage", "claim"}
        BY <1>1, <3>3, PassClaims DEF Sync
      <4> QED
        BY <4>1, <4>2 DEF Creating, CreatingNext
    <3> QED
      BY <1>9, <3>1, <3>2, <3>3
  <2> QED
    BY <2>1, <2>2, <2>3, LateKept DEF Exact, ExactNext
<1> QED
  BY <1>1, <1>3, <1>4, <1>5, <1>6, <1>7, <1>8, <1>9, Steps

-----------------------------------------------------------------------------
LEMMA InitLocal ==
    ASSUME LocalJob, \A b \in Budgets : \A k \in Disturbances : b[k] = 0, Init
    PROVE  LocalInv
<1>1. FinalInv
  BY InitFinal DEF Disturbances
<1>2. Undisturbed
  BY DEF Init, Undisturbed
<1>3. /\ sync.due = {} /\ sync.pc = "idle" /\ sync.job.uid = 0 /\ exp = 0 /\ lastUid = 1
      /\ job.uid = 1 /\ ~job.deleting /\ jobCache.uid = 0
  BY DEF Init, Idle, NewJob, NoJob, NoExpectation
<1>4. \A o \in Objs : ~Created(o) /\ store[o].owner = 0
  BY DEF Init, Created, NoObj
<1>5. OneJob /\ LocalLoop /\ LateOwned /\ Cleared
  BY <1>3, <1>4 DEF OneJob, LocalLoop, LateOwned, Cleared
<1>6. Late = {} /\ added[1] = 0 /\ Creating = 0
  BY <1>3, <1>4, BoundsAssumption DEF Init, Late, NoneAdded, Creating
<1>7. ExpectationsExact
  BY <1>3, <1>6, ExactDef, FS_EmptySet DEF Exact
<1> QED
  BY <1>1, <1>2, <1>5, <1>7 DEF LocalInv

LEMMA NextLocal ==
    ASSUME LocalJob
    PROVE  LocalInv /\ [Next]_vars => LocalInv'
<1> SUFFICES ASSUME LocalInv, [Next]_vars
             PROVE  LocalInv'
  OBVIOUS
<1> USE DEF LocalInv
<1>1. TypeInv
  BY DEF FinalInv, AllInv
<1>2. FinalInv' /\ Undisturbed' /\ OneJob' /\ LocalLoop' /\ LateOwned' /\ Cleared'
  BY <1>1, NextFinal, UndisturbedKept, OneJobKept, LocalLoopKept, LateOwnedKept, ClearedKept
<1>3. job.uid = 1 /\ job'.uid = 1
  BY <1>2 DEF OneJob
<1>4. Exact
  BY <1>3, ExactDef
<1>5. ExactNext
  BY <1>4, ExactKept
<1> QED
  BY <1>2, <1>3, <1>5, ExactDef

LEMMA ExactCovers ==
    ASSUME LocalJob, LocalInv
    PROVE  exp = 0 /\ sync.pc # "create" => Late = {}
<1>1. SUFFICES ASSUME exp = 0, sync.pc # "create"
               PROVE  Late = {}
  OBVIOUS
<1>2. TypeInv /\ job.uid = 1
  BY DEF LocalInv, OneJob, FinalInv, AllInv
<1>3. Exact
  BY <1>2, ExactDef DEF LocalInv
<1>4. Cardinality(Late) = 0
  BY <1>1, <1>2, <1>3, CountsFinite DEF Exact, Creating
<1> QED
  BY <1>2, <1>4, CountsFinite, FS_EmptySet

LEMMA ComposeSees ==
    ASSUME LocalJob, LocalInv, [Next]_vars, lastRid' # lastRid
    PROVE  \A o \in Objs : Created(o) => cache[o].st # "none"
<1>1. TypeInv /\ ~Crash
  BY NoCrashNow DEF LocalInv, FinalInv, AllInv
<1>2. Manage
  BY <1>1, Steps DEF Bystands, PodChanges, JobDelivered, JobWritten, SyncStarts, SyncEnds,
                     ObjCatchUp, Lookup, Claim, BeginEvent, CreateOk, CreateFails, UpdateStatus,
                     serverVars
<1>3. sync.pc = "manage" /\ sync.needsSync
  <2> DEFINE due == IF sync.needsSync /\ ~sync.job.deleting THEN Due(Counts, Succeeded) ELSE {}
             r == RuntimeID(sync.job, due)
  <2>1. sync.pc = "manage" /\ lastRid' = IF r > lastRid THEN r ELSE lastRid
    BY <1>2 DEF Manage
  <2>2. due # {} \/ r = sync.job.rid
    BY DEF RuntimeID, Composes
  <2>3. due # {} => sync.needsSync
    OBVIOUS
  <2> HIDE DEF due, r
  <2>4. sync.job.rid <= lastRid /\ sync.job.rid \in Nat /\ lastRid \in Nat
    BY <1>1, RidsTyped DEF LocalInv, FinalInv, AllInv, IndexInv, RidsDrawn
  <2> QED
    BY <2>1, <2>2, <2>3, <2>4
<1>4. exp = 0
  BY <1>3 DEF LocalInv, Cleared
<1> QED
  BY <1>3, <1>4, ExactCovers DEF Late

\* A local job's expectations are exact: whatever calls and pods fail, however late the
\* informers and handlers are, and for any number of syncs, they count the creation that is
\* being made, the pods that have not reached the lister and the events that wait for
\* addPod.  None of the excluded events can be allowed: a timed-out creation, an expired
\* expectation, a restart and a deletion of the TFJob each break the count.
THEOREM ExpectationsAreExact ==
    ASSUME LocalJob, \A b \in Budgets : \A k \in Disturbances : b[k] = 0
    PROVE  Spec => []ExpectationsExact
<1>1. Init => LocalInv
  BY InitLocal
<1>2. LocalInv /\ [Next]_vars => LocalInv'
  BY NextLocal
<1>3. LocalInv => ExpectationsExact
  BY DEF LocalInv
<1> QED
  BY <1>1, <1>2, <1>3, PTL DEF Spec

\* When a local job's expectations are fulfilled, its lister shows every pod that was ever
\* created for it, which is what CheckExpectations is for.
THEOREM ExpectationsCover ==
    ASSUME LocalJob, \A b \in Budgets : \A k \in Disturbances : b[k] = 0
    PROVE  Spec => []ExpectationsCoverPods
<1>1. Init => LocalInv
  BY InitLocal
<1>2. LocalInv /\ [Next]_vars => LocalInv'
  BY NextLocal
<1>3. LocalInv => ExpectationsCoverPods
  BY ExactCovers DEF ExpectationsCoverPods, NoExpectation, Late
<1> QED
  BY <1>1, <1>2, <1>3, PTL DEF Spec

\* A sync of a local job decides to create a worker only when the lister shows every pod
\* created before.  For a distributed job this is false even without a fault: the run
\* blind_creation shows how add events of services stand in for those of pods.
THEOREM NothingCreatedBlind ==
    ASSUME LocalJob, \A b \in Budgets : \A k \in Disturbances : b[k] = 0
    PROVE  Spec => NoBlindCreation
<1>1. Init => LocalInv
  BY InitLocal
<1>2. LocalInv /\ [Next]_vars => LocalInv'
  BY NextLocal
<1>3. LocalInv /\ [Next]_vars =>
        [lastRid' # lastRid =>
           \A o \in Objs : Created(o) /\ store[o].owner = sync.job.uid => cache[o].st # "none"]_vars
  BY ComposeSees
<1> QED
  BY <1>1, <1>2, <1>3, PTL DEF Spec, NoBlindCreation

-----------------------------------------------------------------------------
(***************************************************************************)
(* What is expected in vain, for every kind of job.  A distributed job     *)
(* overwrites the number with each event of Action, so that it is too low  *)
(* as a rule.  It starts as the length of the loop, each creation moves    *)
(* one from the loop to the pods and services that are late, and each      *)
(* delivery from there to the events.  Only a loop that is given up makes  *)
(* it too high, by what the loop still had to create.                      *)
(***************************************************************************)
\* A loop that goes on has something to create.
Looping == sync.pc = "create" => sync.i < sync.num[sync.slot]

\* The copies of the first incarnation, of which nothing is expected before the lister shows it.
FirstLife ==
    job.uid = 1 =>
        /\ jobCache.uid \in {0, 1} /\ sync.job.uid \in {0, 1}
        /\ jobCache.uid = 0 => sync.job.uid = 0 /\ exp = 0

VainInv == AllInv /\ VersionInv /\ Looping /\ FirstLife

LEMMA CrashForgets ==
    ASSUME Crash
    PROVE  /\ sync'.pc = "idle" /\ sync'.job.uid = 0 /\ sync'.num = [s \in AllSlots |-> 0]
           /\ jobCache'.uid = 0 /\ jobStale' = TRUE /\ exp' = 0 /\ added' = NoneAdded
           /\ job' = job
BY DEF Crash, Idle, NoJob, NewJob, NoExpectation, serverVars

LEMMA VersionAlwaysKept ==
    ASSUME TypeInv, VersionInv, [Next]_vars
    PROVE  VersionInv'
<1>1. CASE Crash
  BY <1>1, CrashForgets DEF VersionInv, Active
<1>2. CASE ~Crash
  BY <1>2, VersionKept
<1> QED
  BY <1>1, <1>2

\* The first incarnation does not come back.
LEMMA FirstLifeBefore ==
    ASSUME TypeInv, VersionInv, [Next]_vars, job'.uid = 1
    PROVE  job.uid = 1
<1>1. job.uid \in 0..MaxUid /\ lastUid \in 1..MaxUid
  BY DEF TypeInv, TypeOK, Job
<1>2. CASE job' = job
  BY <1>2
<1>3. CASE UpdateStatus
  <2>1. job' = job \/ (~sync.oldRV /\ job' = UpdatedJob /\ sync.pc = "update")
    BY <1>3 DEF UpdateStatus
  <2> QED
    BY <2>1, UpdatedFields DEF VersionInv, SameJob, Active
<1>4. CASE UserUpdate \/ UserDelete \/ JobFinalized
  <2>1. NoJob.uid = 0
    BY DEF NoJob, NewJob
  <2>2. job'.uid \in {0, job.uid}
    BY <1>4, <2>1 DEF UserUpdate, UserDelete, JobFinalized, WriteJob, TypeInv, TypeOK, Job
  <2> QED
    BY <2>2
<1>5. CASE Recreate
  <2>1. job'.uid = lastUid + 1
    BY <1>5 DEF Recreate, WriteJob, NewJob
  <2> QED
    BY <1>1, <2>1
<1>6. CASE Requeue \/ InformerStep \/ HandlerStep \/ UNCHANGED vars
  <2>1. job' = job
    BY <1>6 DEF Requeue, InformerStep, JobCatchUp, JobRelist, ObjCatchUp, HandlerStep,
                JobHandler, AddHandler, UpdateHandler, vars, serverVars
  <2> QED
    BY <1>2, <2>1
<1>7. CASE ControllerStep /\ ~UpdateStatus
  <2>1. job' = job
    BY <1>7 DEF ControllerStep, Get, CheckExpectations, Lookup, Claim, Manage, BeginEvent,
                CreateOk, CreateFails, DoneFailed, serverVars
  <2> QED
    BY <1>2, <2>1
<1>8. CASE ClusterStep /\ ~(UserUpdate \/ UserDelete \/ JobFinalized \/ Recreate)
  <2>1. job' = job
    BY <1>8 DEF ClusterStep, PodSucceeds, PodFails, PodDeleted, PodRemoved, GarbageCollect,
                SetObj, ExpectationExpires, Crash, serverVars
  <2> QED
    BY <1>2, <2>1
<1> QED
  BY <1>3, <1>4, <1>5, <1>6, <1>7, <1>8 DEF Next

LEMMA FirstLifeKept ==
    ASSUME TypeInv, VersionInv, FirstLife, [Next]_vars
    PROVE  FirstLife'
<1>1. SUFFICES ASSUME job'.uid = 1
               PROVE  /\ jobCache'.uid \in {0, 1} /\ sync'.job.uid \in {0, 1}
                      /\ jobCache'.uid = 0 => sync'.job.uid = 0 /\ exp' = 0
  BY DEF FirstLife
<1>2. job.uid = 1 /\ sync \in Sync
  BY <1>1, FirstLifeBefore DEF TypeInv, TypeOK
<1>3. /\ jobCache.uid \in {0, 1} /\ sync.job.uid \in {0, 1}
      /\ jobCache.uid = 0 => sync.job.uid = 0 /\ exp = 0 /\ ~Active
  BY <1>2 DEF FirstLife, VersionInv
<1>4. CASE Crash
  BY <1>4, CrashForgets
<1>5. CASE ~Crash
  <2>1. /\ jobCache'.uid \in {jobCache.uid, 1, sync.job.uid}
        /\ sync'.job.uid \in {0, sync.job.uid, jobCache.uid}
        /\ jobCache'.uid = sync.job.uid => jobCache'.uid = jobCache.uid \/ Active
    <3>1. CASE \/ Bystands \/ PodChanges \/ JobDelivered \/ JobWritten \/ SyncStarts
               \/ (\E o \in Objs : ObjCatchUp(o))
      <4>1. jobCache' \in {job, jobCache} /\ sync'.job = sync.job
        BY <1>2, <3>1 DEF Bystands, PodChanges, JobDelivered, Detached, JobWritten, WriteJob,
                          SyncStarts, ObjCatchUp, Sync
      <4>2. jobCache' = jobCache \/ jobCache'.uid = 1
        BY <1>2, <4>1
      <4> QED
        BY <1>3, <4>1, <4>2
    <3>2. CASE SyncEnds \/ Lookup
      <4>1. Idle.job.uid = 0
        BY DEF Idle, NoJob, NewJob
      <4>2. jobCache' = jobCache /\ sync'.job \in {Idle.job, jobCache}
        BY <1>2, <3>2 DEF SyncEnds, DoneFailed, Lookup, cacheVars, Sync
      <4> QED
        BY <4>1, <4>2
    <3>3. CASE \/ (\E s \in Slots : Claim(s)) \/ (\E s \in Slots : BeginEvent(s))
               \/ CreateOk \/ CreateFails
      <4>1. jobCache' = jobCache /\ sync'.job = sync.job
        BY <3>3, CallsKeepJob DEF Claim, BeginEvent, CreateOk, CreateFails, cacheVars
      <4> QED
        BY <4>1
    <3>4. CASE Manage
      BY <3>4, ManageFields DEF Active
    <3>5. CASE UpdateStatus
      <4>1. /\ jobCache' \in {jobCache, UpdatedJob} /\ sync'.job \in {sync.job, Idle.job}
            /\ sync.pc = "update"
        BY <1>2, <3>5 DEF UpdateStatus, CacheWrite, Sync
      <4>2. Idle.job.uid = 0
        BY DEF Idle, NoJob, NewJob
      <4> QED
        BY <4>1, <4>2, UpdatedFields DEF Active
    <3> QED
      BY <1>5, <3>1, <3>2, <3>3, <3>4, <3>5, Steps
  <2>2. CASE jobCache.uid = 1
    <3>1. jobCache'.uid = 1
      BY <1>3, <2>1, <2>2 DEF VersionInv
    <3> QED
      BY <1>3, <2>1, <2>2, <3>1
  <2>3. CASE jobCache.uid = 0
    <3>1. exp' = 0
      <4>1. exp = 0 /\ sync.pc \notin {"events", "create"}
        BY <1>3, <2>3 DEF Active
      <4> QED
        BY <4>1, ZeroKept DEF BeginEvent
    <3> QED
      BY <1>3, <2>1, <2>3, <3>1
  <2> QED
    BY <1>3, <2>2, <2>3
<1> QED
  BY <1>4, <1>5

\* What the loops still have to do.
LEMMA LoopingKept ==
    ASSUME TypeInv, Looping, [Next]_vars
    PROVE  Looping'
<1>1. sync \in Sync
  BY DEF TypeInv, TypeOK
<1>2. CASE sync'.num = sync.num /\ sync'.pc # "create"
  BY <1>2 DEF Looping
<1>3. CASE /\ sync'.num = sync.num /\ sync'.slot = sync.slot /\ sync'.i = sync.i
           /\ sync'.pc = sync.pc
  BY <1>3 DEF Looping
<1>4. CASE sync' = Idle
  <2>1. Idle.pc = "idle"
    BY DEF Idle
  <2> QED
    BY <1>4, <2>1 DEF Looping
<1>5. CASE Crash
  BY <1>4, <1>5 DEF Crash
<1>6. CASE ~Crash
  <2>1. CASE \/ Bystands \/ PodChanges \/ JobDelivered \/ JobWritten
             \/ (\E o \in Objs : ObjCatchUp(o))
    BY <1>1, <1>3, <2>1 DEF Bystands, PodChanges, JobDelivered, Detached, JobWritten, WriteJob,
                            ObjCatchUp, Sync
  <2>2. CASE SyncStarts \/ SyncEnds \/ Lookup \/ UpdateStatus
    <3>1. sync' = Idle \/ (sync'.num = sync.num /\ sync'.pc # "create")
      BY <1>1, <2>2 DEF SyncStarts, Get, CheckExpectations, SyncEnds, DoneFailed, Lookup,
                        UpdateStatus, Sync
    <3> QED
      BY <1>2, <1>4, <3>1
  <2>3. ASSUME NEW s \in Slots, Claim(s)
        PROVE  Looping'
    <3> DEFINE new == {[obj |-> o, phase |-> cache[o].phase, deleting |-> cache[o].deleting]
                         : o \in {o \in ListedFor(s) : \/ Verdict(o, s) = "claim"
                                                       \/ Verdict(o, s) = "adopt" /\ Live(o)}}
               pc == IF sync.todo = {s} THEN "manage" ELSE "claim"
    <3>1. \/ sync' = [sync EXCEPT !.pc = "failed"]
          \/ sync' = [sync EXCEPT !.todo = @ \ {s}, !.claimed[s] = new, !.pc = pc]
      BY <2>3, PassClaims
    <3>2. pc # "create"
      OBVIOUS
    <3> HIDE DEF new, pc
    <3>3. sync'.num = sync.num /\ sync'.pc \in {"failed", pc}
      BY <1>1, <3>1 DEF Sync
    <3> QED
      BY <1>2, <3>2, <3>3
  <2>4. CASE Manage
    <3> DEFINE due == IF sync.needsSync /\ ~sync.job.deleting THEN Due(Counts, Succeeded) ELSE {}
               r == RuntimeID(sync.job, due)
               j == [sync.job EXCEPT !.rid = r]
               num == [s \in AllSlots |-> IF s \in due THEN Number(s, Counts, Succeeded) ELSE 0]
    <3>1. sync' = [sync EXCEPT !.pc = AfterEvent(due), !.due = due, !.job = j, !.num = num]
      BY <2>4 DEF Manage
    <3> HIDE DEF due, j, num
    <3>2. sync'.pc # "create"
      BY <1>1, <3>1 DEF AfterEvent, Sync
    <3> QED
      BY <3>2 DEF Looping
  <2>5. ASSUME NEW s \in Slots, BeginEvent(s)
        PROVE  Looping'
    <3>1. /\ sync'.num = sync.num /\ sync'.slot = s /\ sync'.i = 0
          /\ sync'.pc = "create" => sync.num[s] > 0
      BY <1>1, <2>5 DEF BeginEvent, AfterEvent, Sync
    <3> QED
      BY <3>1 DEF Looping
  <2>6. CASE CreateOk \/ CreateFails
    <3>1. sync' \in {[sync EXCEPT !.pc = "failed"], NextIndex}
      BY <2>6 DEF CreateOk, CreateFails
    <3>2. /\ sync'.num = sync.num /\ sync'.slot = sync.slot
          /\ sync'.pc = "create" => sync'.i = sync.i + 1 /\ sync.i + 1 < sync.num[sync.slot]
      BY <1>1, <3>1 DEF NextIndex, AfterEvent, Sync
    <3> QED
      BY <3>2 DEF Looping
  <2> QED
    BY <1>6, <2>1, <2>2, <2>3, <2>4, <2>5, <2>6, Steps
<1> QED
  BY <1>5, <1>6

\* The late pods and services whose add events will be the first incarnation's, and the rest
\* of the loop.
Owed == {o \in Late : store[o].owner = 1}
OwedNext == {o \in LateNext : store'[o].owner = 1}
Rest == IF sync.pc = "create" THEN sync.num[sync.slot] - sync.i ELSE 0
RestNext == IF sync'.pc = "create" THEN sync'.num[sync'.slot] - sync'.i ELSE 0
Vain == exp - Cardinality(Owed) - added[1] - Rest
VainNext == exp' - Cardinality(OwedNext) - added'[1] - RestNext
GivenUp == IF sync.pc = "create" /\ sync'.pc = "failed" THEN Rest - 1 ELSE 0
NoneInVain == VainNext <= 0 \/ VainNext <= Vain + GivenUp

LEMMA VainDef == InVain = Vain /\ InVain' = VainNext
<1>1. /\ Owed = {o \in Objs : Created(o) /\ cache[o].st = "none" /\ store[o].owner = 1}
      /\ OwedNext = {o \in Objs : /\ store'[o].st # "none" /\ cache'[o].st = "none"
                                  /\ store'[o].owner = 1}
  BY DEF Owed, OwedNext, Late, LateNext
<1> QED
  BY <1>1 DEF InVain, Vain, VainNext, Rest, RestNext, Created

LEMMA OwedFinite ==
    ASSUME TypeInv, TypeInv', Looping, Looping'
    PROVE  /\ IsFiniteSet(Owed) /\ Cardinality(Owed) \in Nat
           /\ IsFiniteSet(OwedNext) /\ Cardinality(OwedNext) \in Nat
           /\ 1 \in 1..MaxUid /\ added \in [1..MaxUid -> Nat] /\ added' \in [1..MaxUid -> Nat]
           /\ added[1] \in Nat /\ added'[1] \in Nat /\ exp \in Nat /\ exp' \in Nat
           /\ Rest \in Nat /\ RestNext \in Nat /\ GivenUp \in Nat
<1>1. Owed \subseteq Objs /\ OwedNext \subseteq Objs
  BY DEF Owed, OwedNext, Late, LateNext
<1>2. sync \in Sync /\ sync' \in Sync
  BY DEF TypeInv, TypeOK, Sync, Job, Object, ClaimedObj
<1>3. Rest \in Nat
  BY <1>2 DEF Rest, Looping, Sync
<1>4. RestNext \in Nat
  BY <1>2 DEF RestNext, Looping, Sync
<1>5. /\ added \in [1..MaxUid -> Nat] /\ added' \in [1..MaxUid -> Nat]
      /\ exp \in Nat /\ exp' \in Nat
  BY DEF TypeInv, TypeOK
<1>6. /\ IsFiniteSet(Owed) /\ Cardinality(Owed) \in Nat
      /\ IsFiniteSet(OwedNext) /\ Cardinality(OwedNext) \in Nat
  BY <1>1, FiniteObjs
<1>7. 1 \in 1..MaxUid
  BY BoundsAssumption
<1>8. GivenUp \in Nat
  BY <1>2, <1>3 DEF GivenUp, Rest, Looping, Sync
<1> QED
  BY <1>3, <1>4, <1>5, <1>6, <1>7, <1>8

\* Late objects that stay late, with their owner, stay owed.
LEMMA OwedKept ==
    ASSUME TypeInv, TypeInv', Looping, Looping', cache' = cache,
           \A o \in Owed : store'[o].st # "none" /\ store'[o].owner = store[o].owner
    PROVE  Cardinality(Owed) <= Cardinality(OwedNext)
<1>1. Owed \subseteq OwedNext
  BY DEF Owed, OwedNext, Late, LateNext
<1> QED
  BY <1>1, OwedFinite, FS_Subset

LEMMA CreationOwed ==
    ASSUME TypeInv, TypeInv', CacheFaithful, Looping, Looping', sync.job.uid = 1,
           NEW n \in Objs, Create(n), cache' = cache
    PROVE  Cardinality(OwedNext) >= Cardinality(Owed) + 1
<1>1. /\ store[n].st = "none" /\ store'[n].st = "live" /\ store'[n].owner = 1
      /\ \A o \in Objs : o # n => store'[o] = store[o]
  BY DEF Create, NewObj, NoObj, TypeInv, TypeOK
<1>2. cache[n].st = "none"
  BY <1>1 DEF CacheFaithful, Created
<1>3. Owed \cup {n} \subseteq OwedNext /\ n \notin Owed
  BY <1>1, <1>2 DEF Owed, OwedNext, Late, LateNext, Created
<1>4. IsFiniteSet(Owed \cup {n}) /\ Cardinality(Owed \cup {n}) = Cardinality(Owed) + 1
  BY <1>3, OwedFinite, FS_AddElement
<1>5. Cardinality(Owed \cup {n}) <= Cardinality(OwedNext)
  BY <1>3, OwedFinite, FS_Subset
<1> QED
  BY <1>4, <1>5

LEMMA DeliveryOwed ==
    ASSUME TypeInv, TypeInv', Looping, Looping', NEW n \in Objs, ObjCatchUp(n)
    PROVE  Cardinality(OwedNext) + added'[1] >= Cardinality(Owed) + added[1]
<1>1. /\ store' = store /\ cache' = [cache EXCEPT ![n] = store[n]]
      /\ added' = IF cache[n].st = "none" /\ store[n].owner # 0
                  THEN [added EXCEPT ![store[n].owner] = @ + 1] ELSE added
  BY DEF ObjCatchUp, serverVars
<1>2. \A o \in Objs : cache'[o] = IF o = n THEN store[n] ELSE cache[o]
  BY <1>1 DEF TypeInv, TypeOK
<1>3. Owed \ {n} \subseteq OwedNext
  BY <1>1, <1>2 DEF Owed, OwedNext, Late, LateNext, Created
<1>4. CASE n \in Owed
  <2>1. cache[n].st = "none" /\ store[n].owner = 1
    BY <1>4 DEF Owed, Late
  <2>2. added' = [added EXCEPT ![1] = added[1] + 1]
    BY <1>1, <2>1
  <2>3. added'[1] = added[1] + 1
    BY <2>2, OwedFinite
  <2>4. IsFiniteSet(Owed \ {n}) /\ Cardinality(Owed \ {n}) = Cardinality(Owed) - 1
    BY <1>4, OwedFinite, FS_RemoveElement
  <2>5. Cardinality(Owed \ {n}) <= Cardinality(OwedNext)
    BY <1>3, OwedFinite, FS_Subset
  <2> QED
    BY <2>3, <2>4, <2>5, OwedFinite
<1>5. CASE n \notin Owed
  <2>1. Owed \subseteq OwedNext
    BY <1>3, <1>5
  <2>2. Cardinality(Owed) <= Cardinality(OwedNext)
    BY <2>1, OwedFinite, FS_Subset
  <2>3. added'[1] >= added[1]
    <3>1. CASE added' = added
      BY <3>1, OwedFinite
    <3>2. CASE cache[n].st = "none" /\ store[n].owner # 0
      <4>1. added' = [added EXCEPT ![store[n].owner] = added[store[n].owner] + 1]
        BY <1>1, <3>2
      <4>2. added'[1] \in {added[1], added[1] + 1}
        BY <4>1, OwedFinite
      <4> QED
        BY <4>2, OwedFinite
    <3> QED
      BY <1>1, <3>1, <3>2
  <2> QED
    BY <2>2, <2>3, OwedFinite
<1> QED
  BY <1>4, <1>5

\* A creation moves one from the loop to the late, whether its sync learns of it or not.
LEMMA CreationNotInVain ==
    ASSUME TypeInv, TypeInv', CacheFaithful, VersionInv, Looping, Looping',
           FirstLife, job.uid = 1, CreateOk \/ CreateFails
    PROVE  NoneInVain
<1>1. /\ sync.pc = "create" /\ cache' = cache /\ added' = added /\ sync \in Sync
      /\ sync.job.uid = 1
  <2>1. sync.pc = "create" /\ cache' = cache /\ added' = added
    BY DEF CreateOk, CreateFails, cacheVars, eventVars
  <2>2. sync.job.uid # 0
    BY <2>1 DEF VersionInv, Active
  <2> QED
    BY <2>1, <2>2 DEF FirstLife, TypeInv, TypeOK
<1>2. /\ Cardinality(Owed) \in Nat /\ Cardinality(OwedNext) \in Nat /\ added[1] \in Nat
      /\ exp \in Nat /\ Rest \in Nat /\ RestNext \in Nat /\ GivenUp \in Nat
  BY OwedFinite
<1>3. Rest = sync.num[sync.slot] - sync.i /\ Rest >= 1
  BY <1>1, <1>2 DEF Rest, Looping, Sync
<1>4. ASSUME sync' = NextIndex
      PROVE  RestNext = Rest - 1 \/ (RestNext = 0 /\ Rest = 1)
  <2>1. /\ sync'.num = sync.num /\ sync'.slot = sync.slot /\ sync'.i = sync.i + 1
        /\ sync'.pc = IF sync.i + 1 < sync.num[sync.slot] THEN "create" ELSE AfterEvent(sync.due)
    BY <1>1, <1>4 DEF NextIndex, Sync
  <2>2. AfterEvent(sync.due) # "create"
    BY DEF AfterEvent
  <2>3. sync.num[sync.slot] \in Int /\ sync.i \in Nat
    BY <1>1 DEF Sync
  <2> QED
    BY <1>3, <2>1, <2>2, <2>3 DEF RestNext
<1>5. CASE CreateOk
  <2>1. exp' = exp /\ sync' = NextIndex
    BY <1>5 DEF CreateOk
  <2>2. Cardinality(OwedNext) >= Cardinality(Owed) + 1
    BY <1>1, <1>5, CreationOwed DEF CreateOk
  <2> QED
    BY <1>1, <1>2, <1>3, <1>4, <2>1, <2>2 DEF NoneInVain, Vain, VainNext
<1>6. CASE CreateFails
  <2>1. Cardinality(OwedNext) >= Cardinality(Owed)
    <3>1. CASE store' = store
      BY <1>1, <3>1, OwedKept DEF Owed, Late, Created
    <3>2. CASE \E n \in Objs : Create(n)
      BY <1>1, <1>2, <3>2, CreationOwed
    <3> QED
      BY <1>6, <3>1, <3>2 DEF CreateFails
  <2>2. exp' <= exp /\ (exp > 0 => exp' = exp - 1) /\ exp' \in Nat
    BY <1>2, <1>6 DEF CreateFails, CreationObserved
  <2>3. RestNext + GivenUp >= Rest - 1
    <3>1. CASE sync' = NextIndex
      BY <1>2, <1>4, <3>1
    <3>2. CASE sync' = [sync EXCEPT !.pc = "failed"]
      <4>1. sync'.pc = "failed"
        BY <1>1, <3>2 DEF Sync
      <4> QED
        BY <1>1, <1>2, <4>1 DEF GivenUp
    <3> QED
      BY <1>6, <3>1, <3>2 DEF CreateFails
  <2> QED
    BY <1>1, <1>2, <1>3, <2>1, <2>2, <2>3 DEF NoneInVain, Vain, VainNext
<1> QED
  BY <1>5, <1>6

LEMMA VainKept ==
    ASSUME TypeInv, TypeInv', CacheFaithful, VersionInv, Looping, Looping',
           FirstLife, job.uid = 1, [Next]_vars
    PROVE  NoneInVain
<1>1. sync \in Sync
  BY DEF TypeInv, TypeOK
<1>2. /\ Cardinality(Owed) \in Nat /\ Cardinality(OwedNext) \in Nat
      /\ added[1] \in Nat /\ added'[1] \in Nat /\ added \in [1..MaxUid -> Nat]
      /\ exp \in Nat /\ exp' \in Nat /\ Rest \in Nat /\ RestNext \in Nat
      /\ GivenUp \in Nat
  BY OwedFinite
<1>2a. ASSUME VainNext <= Vain
       PROVE  NoneInVain
  <2>1. Vain \in Int
    BY <1>2 DEF Vain
  <2>2. VainNext \in Int
    BY <1>2 DEF VainNext
  <2> QED
    BY <1>2, <1>2a, <2>1, <2>2 DEF NoneInVain
<1>3. CASE exp' = 0
  BY <1>2, <1>3 DEF NoneInVain, VainNext
<1>4. ASSUME NEW n \in Objs, ObjCatchUp(n)
      PROVE  NoneInVain
  <2>1. exp' = exp /\ sync' = sync
    BY <1>4 DEF ObjCatchUp
  <2>2. RestNext = Rest
    BY <2>1 DEF Rest, RestNext
  <2>3. VainNext <= Vain
    BY <1>2, <1>4, <2>1, <2>2, DeliveryOwed DEF Vain, VainNext
  <2> QED
    BY <1>2a, <2>3
<1>5. ASSUME NEW u \in 1..MaxUid, AddHandler(u)
      PROVE  NoneInVain
  <2>1. UNCHANGED <<store, cache, sync>> /\ added[u] > 0 /\ added' = [added EXCEPT ![u] = @ - 1]
    BY <1>5 DEF AddHandler, serverVars, cacheVars
  <2>2. OwedNext = Owed /\ RestNext = Rest
    BY <2>1, LateKept DEF Owed, OwedNext, Rest, RestNext
  <2>3. CASE u = 1
    <3>1. exp' = 0 \/ (exp > 0 /\ exp' = exp - 1)
      BY <1>2, <1>5, <2>3 DEF AddHandler, Resolves, FirstLife, CreationObserved
    <3>2. added'[1] = added[1] - 1
      BY <1>2, <2>1, <2>3
    <3>3. CASE exp' = exp - 1
      <4>1. VainNext = Vain
        BY <1>2, <2>2, <3>2, <3>3 DEF Vain, VainNext
      <4>2. VainNext <= Vain
        BY <1>2, <4>1 DEF Vain
      <4> QED
        BY <1>2a, <4>2
    <3> QED
      BY <1>3, <3>1, <3>3
  <2>4. CASE u # 1
    <3>1. exp' <= exp
      BY <1>2, <1>5 DEF AddHandler, CreationObserved
    <3>2. added'[1] = added[1]
      BY <1>2, <2>1, <2>4
    <3>3. VainNext <= Vain
      BY <1>2, <2>2, <3>1, <3>2 DEF Vain, VainNext
    <3> QED
      BY <1>2a, <3>3
  <2> QED
    BY <2>3, <2>4
<1>6. ASSUME NEW s \in Slots, BeginEvent(s)
      PROVE  NoneInVain
  <2>1. s \in AllSlots /\ sync.num[s] \in Int
    BY <1>1, SlotsTyped DEF Sync
  <2>2. exp' = IF sync.num[s] > 0 THEN sync.num[s] ELSE 0
    BY <1>6 DEF BeginEvent, ExpectCreations
  <2>3. CASE sync.num[s] > 0
    <3>1. sync'.pc = "create" /\ sync'.slot = s /\ sync'.i = 0 /\ sync'.num = sync.num
      BY <1>1, <1>6, <2>3 DEF BeginEvent, Sync
    <3>2. RestNext = sync.num[s]
      BY <2>1, <3>1 DEF RestNext
    <3> QED
      BY <1>2, <2>1, <2>2, <2>3, <3>2 DEF NoneInVain, VainNext
  <2>4. CASE ~(sync.num[s] > 0)
    BY <1>3, <2>2, <2>4
  <2> QED
    BY <2>3, <2>4
<1>7. CASE CreateOk \/ CreateFails
  BY <1>7, CreationNotInVain
<1>8. CASE Crash \/ ExpectationExpires
  BY <1>3, <1>8 DEF Crash, ExpectationExpires, NoExpectation
<1>9. CASE Lookup
  <2>1. UNCHANGED <<store, cache, added>> /\ sync.pc = "lookup" /\ exp' \in {0, exp}
    BY <1>9 DEF Lookup, serverVars, cacheVars, eventVars, DeleteExpectations, NoExpectation
  <2>2. OwedNext = Owed
    BY <2>1, LateKept DEF Owed, OwedNext
  <2>3. Rest = 0
    BY <2>1 DEF Rest
  <2> QED
    BY <1>2, <1>3, <2>1, <2>2, <2>3 DEF NoneInVain, Vain, VainNext
<1>10. CASE /\ ~Crash
            /\ \/ Bystands \/ PodChanges \/ JobDelivered \/ JobWritten \/ SyncStarts \/ SyncEnds
               \/ (\E s \in Slots : Claim(s)) \/ Manage \/ UpdateStatus
  <2> SUFFICES ASSUME exp' = exp, added' = added
               PROVE  NoneInVain
    BY <1>4, <1>5, <1>6, <1>7, <1>8, <1>9, CountSteps
  <2>1. cache' = cache
    BY <1>10 DEF Bystands, PodChanges, JobDelivered, JobWritten, SyncStarts, SyncEnds, Claim,
                 Manage, UpdateStatus, cacheVars
  <2>2. \A o \in Owed : store'[o].st # "none" /\ store'[o].owner = store[o].owner
    <3>1. \A o \in Owed : o \in Objs /\ Created(o) /\ cache[o].st = "none"
      BY DEF Owed, Late
    <3>2. ASSUME NEW s \in Slots, Claim(s)
          PROVE  \A o \in Owed : store'[o] = store[o]
      <4>1. PICK F : store' = Patched(s, F)
        BY <3>2 DEF Claim
      <4> QED
        BY <3>1, <4>1 DEF Patched, ListedFor
    <3>3. CASE PodChanges
      BY <3>1, <3>3 DEF PodChanges, Kept, Created
    <3>4. CASE store' = store
      BY <3>1, <3>4 DEF Created
    <3> QED
      BY <1>10, <3>1, <3>2, <3>3, <3>4
      DEF Bystands, JobDelivered, JobWritten, SyncStarts, SyncEnds, Manage, UpdateStatus, Created
  <2>3. RestNext = Rest
    <3>1. CASE Bystands \/ PodChanges \/ JobDelivered \/ JobWritten
      <4>1. /\ sync'.pc = sync.pc /\ sync'.slot = sync.slot /\ sync'.i = sync.i
            /\ sync'.num = sync.num
        BY <1>1, <3>1 DEF Bystands, PodChanges, JobDelivered, Detached, JobWritten, WriteJob, Sync
      <4> QED
        BY <4>1 DEF Rest, RestNext
    <3>2. CASE SyncStarts \/ SyncEnds \/ Manage \/ UpdateStatus
      <4>1. sync.pc # "create" /\ sync'.pc # "create"
        BY <1>1, <3>2, ManageFields DEF SyncStarts, SyncEnds, DoneFailed, UpdateStatus, Idle, Sync
      <4> QED
        BY <4>1 DEF Rest, RestNext
    <3>3. ASSUME NEW s \in Slots, Claim(s)
          PROVE  RestNext = Rest
      <4>1. sync.pc = "claim"
        BY <3>3 DEF Claim
      <4>2. sync'.pc \in {"failed", "manage", "claim"}
        BY <1>1, <3>3, PassClaims DEF Sync
      <4> QED
        BY <4>1, <4>2 DEF Rest, RestNext
    <3> QED
      BY <1>10, <3>1, <3>2, <3>3
  <2> QED
    BY <1>2, <2>1, <2>2, <2>3, OwedKept DEF NoneInVain, Vain, VainNext
<1> QED
  BY <1>4, <1>6, <1>7, <1>8, <1>9, <1>10, Steps

LEMMA InitVain == Init => VainInv
<1> SUFFICES ASSUME Init
             PROVE  VainInv
  OBVIOUS
<1>1. AllInv
  BY InitAll
<1>2. /\ sync.pc = "idle" /\ sync.job.uid = 0 /\ exp = 0 /\ jobCache.uid = 0 /\ jobStale = TRUE
  BY DEF Init, Idle, NewJob, NoJob, NoExpectation
<1>3. VersionInv /\ Looping /\ FirstLife
  BY <1>2 DEF VersionInv, Active, Looping, FirstLife
<1> QED
  BY <1>1, <1>3 DEF VainInv

LEMMA NextVain ==
    ASSUME VainInv, [Next]_vars
    PROVE  /\ VainInv'
           /\ job.uid = 1 => NoneInVain
<1>1. AllInv /\ TypeInv /\ CacheFaithful /\ VersionInv /\ Looping /\ FirstLife
  BY DEF VainInv, AllInv, EarnedInv
<1>2. AllInv'
  BY <1>1, NextAll
<1>3. TypeInv'
  BY <1>2 DEF AllInv
<1>4. VersionInv' /\ Looping' /\ FirstLife'
  BY <1>1, VersionAlwaysKept, LoopingKept, FirstLifeKept
<1>5. job.uid = 1 => NoneInVain
  BY <1>1, <1>3, <1>4, VainKept
<1> QED
  BY <1>2, <1>4, <1>5 DEF VainInv

\* For every kind of job and all bounds, what the controller expects in vain of a key's first
\* TFJob grows only when the creation of a pod fails, and then by no more than the rest of the
\* loop, which is given up: crashes, relists, expiry, deletions, timeouts and
\* the creation of services add nothing to it.
THEOREM VainOnlyByFailure == Spec => NothingInVain
<1>1. VainInv /\ [Next]_vars =>
        (/\ job.uid = 1 /\ job'.uid = 1 /\ InVain' > 0
         => InVain' <= InVain + (IF sync.pc = "create" /\ sync'.pc = "failed"
                                 THEN sync.num[sync.slot] - sync.i - 1 ELSE 0))
  <2> SUFFICES ASSUME VainInv, [Next]_vars, job.uid = 1, InVain' > 0
               PROVE  InVain' <= InVain + (IF sync.pc = "create" /\ sync'.pc = "failed"
                                           THEN sync.num[sync.slot] - sync.i - 1 ELSE 0)
    OBVIOUS
  <2>1. NoneInVain
    BY NextVain
  <2>2. TypeInv /\ TypeInv' /\ Looping /\ Looping'
    BY NextVain DEF VainInv, AllInv
  <2>3. Vain \in Int /\ VainNext \in Int /\ GivenUp \in Nat
    BY <2>2, OwedFinite DEF Vain, VainNext
  <2>4. VainNext <= Vain + GivenUp
    BY <2>1, <2>3, VainDef DEF NoneInVain
  <2> QED
    BY <2>4, VainDef DEF GivenUp, Rest
<1>2. VainInv /\ [Next]_vars => VainInv'
  BY NextVain
<1>3. [Next]_vars /\ VainInv => [job.uid = 1 /\ job'.uid = 1 /\ InVain' > 0 =>
         InVain' <= InVain + (IF sync.pc = "create" /\ sync'.pc = "failed"
                              THEN sync.num[sync.slot] - sync.i - 1 ELSE 0)]_vars
  BY <1>1
<1> QED
  BY <1>2, <1>3, InitVain, PTL DEF Spec, NothingInVain
====
