---- MODULE TFJobControllerTypes ----
(***************************************************************************)
(* Type correctness of the controller working on one key, for every kind   *)
(* of job, any number of replicas, and any bounds on what happens to it.   *)
(* Counts are natural numbers only because what a pass claims is finite:   *)
(* it holds each listed object at most once.  And the key is served as the *)
(* work queue promises.                                                    *)
(***************************************************************************)
EXTENDS TFJobController, FiniteSetTheorems, TLAPS

ClaimsDistinct ==
    \A s \in AllSlots : \A c, d \in sync.claimed[s] : c.obj = d.obj => c = d

TypeInv == TypeOK /\ ClaimsDistinct

LEMMA FiniteClaims ==
    ASSUME NEW C \in SUBSET ClaimedObj, \A c, d \in C : c.obj = d.obj => c = d
    PROVE  IsFiniteSet(C)
<1> DEFINE f == [c \in C |-> c.obj]
<1>1. f \in [C -> Objs]
  BY DEF ClaimedObj
<1>2. f \in Injection(C, Objs)
  BY <1>1 DEF Injection, IsInjective
<1>3. IsFiniteSet(Objs)
  BY FS_Interval, BoundsAssumption DEF Objs
<1> QED
  BY <1>2, <1>3, FS_Injection

LEMMA FiniteClaimed ==
    ASSUME TypeInv, NEW s \in AllSlots, NEW C \in SUBSET sync.claimed[s]
    PROVE  Cardinality(C) \in Nat
<1>1. IsFiniteSet(sync.claimed[s])
  BY FiniteClaims DEF TypeInv, TypeOK, Sync, ClaimsDistinct
<1> QED
  BY <1>1, FS_Subset, FS_CardinalityType

LEMMA SlotsTyped == PodSlots \subseteq AllSlots /\ Slots \subseteq AllSlots
BY DEF Slots, PodSlots, ServiceSlots, AllSlots

LEMMA DueTyped == \A n, k : Due(n, k) \subseteq Slots
BY DEF Slots, PodSlots, ServiceSlots, Due, LocalDue, DistributedDue

LEMMA RecordsTyped ==
    /\ NoJob \in Job
    /\ \A u \in 1..MaxUid : NewJob(u) \in Job
    /\ NoObj \in Object
    /\ Idle \in Sync
<1>1. \A u \in 0..MaxUid : NewJob(u) \in Job
  BY BoundsAssumption DEF NewJob, NoReplicas, Job
<1>2. NoJob \in Job
  BY <1>1, BoundsAssumption DEF NoJob
<1>3. NoObj \in Object
  BY BoundsAssumption DEF NoObj, Object, AllSlots, Phases
<1>4. Idle \in Sync
  BY <1>2 DEF Idle, Sync, AllSlots
<1> QED
  BY <1>1, <1>2, <1>3, <1>4, BoundsAssumption

LEMMA SpendType ==
    ASSUME TypeOK, NEW k \in EventKinds, Spend(k)
    PROVE  budget' \in [EventKinds -> Int]
BY DEF TypeOK, Spend

LEMMA InitType == Init => TypeInv
<1> SUFFICES ASSUME Init
             PROVE  TypeInv
  OBVIOUS
<1>1. ClaimsDistinct
  BY DEF Init, Idle, ClaimsDistinct
<1>2. job \in Job /\ jobCache \in Job /\ sync \in Sync
  BY RecordsTyped, BoundsAssumption DEF Init
<1>3. store \in [Objs -> Object] /\ cache \in [Objs -> Object]
  BY RecordsTyped DEF Init
<1>4. listed \in 0..MaxObjs /\ lastRid \in 0..MaxRid /\ lastUid \in 1..MaxUid
  BY BoundsAssumption DEF Init
<1>5. added \in [1..MaxUid -> Nat] /\ touched \in SUBSET (1..MaxUid) /\ exp \in Nat
  BY DEF Init, NoneAdded, NoExpectation
<1>6. budget \in [EventKinds -> Int]
  BY BoundsAssumption DEF Init
<1> QED
  BY <1>1, <1>2, <1>3, <1>4, <1>5, <1>6 DEF Init, TypeOK, TypeInv

\* When a sync step keeps the claims, only the worker's record is to be checked.
LEMMA SameClaims ==
    ASSUME TypeInv, sync'.claimed = sync.claimed
    PROVE  ClaimsDistinct'
BY DEF TypeInv, ClaimsDistinct

LEMMA QueueStepsType == TypeInv /\ (Requeue \/ Get \/ CheckExpectations \/ DoneFailed) => TypeInv'
<1> SUFFICES ASSUME TypeInv, Requeue \/ Get \/ CheckExpectations \/ DoneFailed
             PROVE  TypeInv'
  OBVIOUS
<1> USE DEF serverVars, cacheVars, eventVars, queueVars
<1>1. CASE Requeue
  BY <1>1 DEF Requeue, TypeInv, TypeOK, ClaimsDistinct
<1>2. CASE Get
  <2>1. budget' \in [EventKinds -> Int]
    BY <1>2, SpendType DEF Get, EventKinds, TypeInv
  <2>2. sync' \in Sync /\ sync'.claimed = sync.claimed
    BY <1>2 DEF Get, TypeInv, TypeOK, Sync
  <2> QED
    BY <1>2, <2>1, <2>2, SameClaims DEF Get, TypeInv, TypeOK
<1>3. CASE CheckExpectations
  <2>1. sync' \in Sync /\ sync'.claimed = sync.claimed
    BY <1>3 DEF CheckExpectations, SatisfiedExpectations, TypeInv, TypeOK, Sync
  <2> QED
    BY <1>3, <2>1, SameClaims DEF CheckExpectations, TypeInv, TypeOK
<1>4. CASE DoneFailed
  BY <1>4, RecordsTyped DEF DoneFailed, Idle, TypeInv, TypeOK, ClaimsDistinct
<1> QED
  BY <1>1, <1>2, <1>3, <1>4

LEMMA LookupType == TypeInv /\ Lookup => TypeInv'
<1> SUFFICES ASSUME TypeInv, Lookup
             PROVE  TypeInv'
  OBVIOUS
<1>1. ASSUME sync' = Idle
      PROVE  sync' \in Sync /\ ClaimsDistinct'
  <2>1. ClaimsDistinct'
    BY <1>1 DEF Idle, ClaimsDistinct
  <2> QED
    BY <1>1, <2>1, RecordsTyped
<1>2. ASSUME sync' = [sync EXCEPT !.pc = "claim", !.job = jobCache, !.attached = TRUE,
                                  !.oldRV = jobStale, !.todo = Slots]
      PROVE  sync' \in Sync /\ ClaimsDistinct'
  <2>1. sync' \in Sync /\ sync'.claimed = sync.claimed
    BY <1>2, SlotsTyped DEF TypeInv, TypeOK, Sync
  <2> QED
    BY <2>1, SameClaims
<1>3. exp' \in Nat
  BY DEF Lookup, DeleteExpectations, NoExpectation, TypeInv, TypeOK
<1> QED
  BY <1>1, <1>2, <1>3
  DEF Lookup, TypeInv, TypeOK, serverVars, cacheVars, eventVars, queueVars

LEMMA PatchedType ==
    ASSUME TypeInv, NEW s \in AllSlots, NEW failing
    PROVE  Patched(s, failing) \in [Objs -> Object]
<1> SUFFICES ASSUME NEW o \in Objs
             PROVE  Patched(s, failing)[o] \in Object
  BY DEF Patched
<1>1. store[o] \in Object /\ sync.job.uid \in 0..MaxUid /\ 0 \in 0..MaxUid
  BY BoundsAssumption DEF TypeInv, TypeOK, Sync, Job
<1>2. \A u \in 0..MaxUid : [store[o] EXCEPT !.owner = u] \in Object
  BY <1>1 DEF Object
<1> QED
  BY <1>1, <1>2 DEF Patched

LEMMA ClaimType == ASSUME NEW s \in Slots PROVE TypeInv /\ Claim(s) => TypeInv'
<1> SUFFICES ASSUME TypeInv, Claim(s)
             PROVE  TypeInv'
  OBVIOUS
<1>1. s \in AllSlots
  BY SlotsTyped
<1>2. store' \in [Objs -> Object]
  BY <1>1, PatchedType DEF Claim
<1>3. budget' \in [EventKinds -> Int]
  BY SpendType DEF Claim, EventKinds, TypeInv, TypeOK
<1>4. PICK mine \in SUBSET Objs :
         \/ sync' = [sync EXCEPT !.pc = "failed"]
         \/ sync' = [sync EXCEPT
                       !.todo = @ \ {s},
                       !.claimed[s] = {[obj |-> o, phase |-> cache[o].phase,
                                        deleting |-> cache[o].deleting] : o \in mine},
                       !.pc = IF sync.todo = {s} THEN "manage" ELSE "claim"]
  BY DEF Claim, ListedFor
<1> DEFINE C == {[obj |-> o, phase |-> cache[o].phase,
                  deleting |-> cache[o].deleting] : o \in mine}
<1>5. C \in SUBSET ClaimedObj
  BY DEF ClaimedObj, TypeInv, TypeOK, Object
<1>6. \A c, d \in C : c.obj = d.obj => c = d
  OBVIOUS
<1> HIDE DEF C
<1>7. CASE sync' = [sync EXCEPT !.pc = "failed"]
  <2>1. sync' \in Sync /\ sync'.claimed = sync.claimed
    BY <1>7 DEF TypeInv, TypeOK, Sync
  <2> QED
    BY <1>2, <1>3, <2>1, SameClaims
    DEF Claim, TypeInv, TypeOK, cacheVars, eventVars, queueVars
<1>8. CASE sync' = [sync EXCEPT !.todo = @ \ {s}, !.claimed[s] = C,
                                !.pc = IF sync.todo = {s} THEN "manage" ELSE "claim"]
  <2>1. sync' \in Sync /\ sync'.claimed = [sync.claimed EXCEPT ![s] = C]
    BY <1>1, <1>5, <1>8 DEF TypeInv, TypeOK, Sync
  <2>2. ClaimsDistinct'
    BY <1>1, <1>6, <2>1 DEF ClaimsDistinct, TypeInv, TypeOK, Sync
  <2> QED
    BY <1>2, <1>3, <2>1, <2>2
    DEF Claim, TypeInv, TypeOK, cacheVars, eventVars, queueVars
<1> QED
  BY <1>4, <1>7, <1>8 DEF C
LEMMA CountsTyped ==
    ASSUME TypeInv
    PROVE  /\ \A s \in AllSlots : Counts[s] \in Nat
           /\ Succeeded \in Nat
           /\ WorkerReplicas \in Nat /\ PSReplicas \in Nat
<1>1. \A s \in AllSlots : Held(s) \in SUBSET sync.claimed[s]
  BY DEF Held
<1>2. \A s \in AllSlots : Cardinality(Held(s)) \in Nat
  BY <1>1, FiniteClaimed
<1>3. Succeeded \in Nat
  BY FiniteClaimed DEF Succeeded, AllSlots
<1> QED
  BY <1>2, <1>3, ReplicasAssumption DEF Counts

LEMMA ManageType == TypeInv /\ Manage => TypeInv'
<1> SUFFICES ASSUME TypeInv, Manage
             PROVE  TypeInv'
  OBVIOUS
<1> DEFINE due == IF sync.needsSync /\ ~sync.job.deleting THEN Due(Counts, Succeeded) ELSE {}
           r == RuntimeID(sync.job, due)
           j == [sync.job EXCEPT !.rid = r]
           num == [s \in AllSlots |-> IF s \in due THEN Number(s, Counts, Succeeded) ELSE 0]
<1>1. /\ r <= MaxRid
      /\ lastRid' = IF r > lastRid THEN r ELSE lastRid
      /\ CacheWrite(j)
      /\ sync' = [sync EXCEPT !.pc = AfterEvent(due), !.due = due, !.job = j, !.num = num]
  BY DEF Manage
<1>2. due \in SUBSET AllSlots
  BY DueTyped, SlotsTyped
<1>3. num \in [AllSlots -> Int]
  <2> SUFFICES ASSUME NEW s \in AllSlots
               PROVE  Number(s, Counts, Succeeded) \in Int
    OBVIOUS
  <2> QED
    BY CountsTyped DEF Number, Expected
<1>4. r \in 0..MaxRid
  <2>1. r \in {lastRid + 1, sync.job.rid} /\ r <= MaxRid
    BY <1>1 DEF RuntimeID
  <2>2. lastRid \in Nat /\ sync.job.rid \in 0..MaxRid
    BY DEF TypeInv, TypeOK, Sync, Job
  <2> QED
    BY <2>1, <2>2, BoundsAssumption
<1>5. j \in Job
  BY <1>4 DEF TypeInv, TypeOK, Sync, Job
<1>6. AfterEvent(due) \in {"update", "events"}
  BY DEF AfterEvent
<1> HIDE DEF due, r, j, num
<1>7. sync' \in Sync /\ sync'.claimed = sync.claimed
  BY <1>1, <1>2, <1>3, <1>5, <1>6 DEF TypeInv, TypeOK, Sync
<1>8. lastRid' \in 0..MaxRid
  BY <1>1, <1>4 DEF TypeInv, TypeOK
<1>9. jobCache' \in Job
  BY <1>1, <1>5 DEF CacheWrite, TypeInv, TypeOK
<1> QED
  BY <1>7, <1>8, <1>9, SameClaims DEF Manage, TypeInv, TypeOK, eventVars, queueVars

LEMMA BeginEventType == ASSUME NEW s \in Slots PROVE TypeInv /\ BeginEvent(s) => TypeInv'
<1> SUFFICES ASSUME TypeInv, BeginEvent(s)
             PROVE  TypeInv'
  OBVIOUS
<1>1. s \in AllSlots
  BY SlotsTyped
<1>2. sync' \in Sync /\ sync'.claimed = sync.claimed
  BY <1>1 DEF BeginEvent, AfterEvent, TypeInv, TypeOK, Sync
<1>3. exp' \in Nat
  BY <1>1 DEF BeginEvent, ExpectCreations, TypeInv, TypeOK, Sync
<1> QED
  BY <1>2, <1>3, SameClaims
  DEF BeginEvent, TypeInv, TypeOK, serverVars, cacheVars, eventVars, queueVars

LEMMA CreateType ==
    ASSUME TypeInv, NEW o \in Objs, Create(o)
    PROVE  store' \in [Objs -> Object]
<1>1. NewObj(sync.slot, sync.job.rid, sync.i, sync.job.uid) \in Object
  BY RecordsTyped DEF NewObj, Object, TypeInv, TypeOK, Sync, Job
<1> QED
  BY <1>1 DEF Create, TypeInv, TypeOK

LEMMA NextIndexType == TypeInv => NextIndex \in Sync /\ NextIndex.claimed = sync.claimed
<1> SUFFICES ASSUME TypeInv
             PROVE  NextIndex \in Sync /\ NextIndex.claimed = sync.claimed
  OBVIOUS
<1> DEFINE pc == IF sync.i + 1 < sync.num[sync.slot] THEN "create" ELSE AfterEvent(sync.due)
<1>1. pc \in {"create", "update", "events"}
  BY DEF AfterEvent
<1> DEFINE i == sync.i + 1
<1>2. NextIndex = [sync EXCEPT !.i = i, !.pc = pc]
  BY DEF NextIndex
<1>3. i \in Nat
  BY DEF TypeInv, TypeOK, Sync
<1> HIDE DEF pc, i
<1> QED
  BY <1>1, <1>2, <1>3 DEF TypeInv, TypeOK, Sync

LEMMA CreateStepsType == TypeInv /\ (CreateOk \/ CreateFails) => TypeInv'
<1> SUFFICES ASSUME TypeInv, CreateOk \/ CreateFails
             PROVE  TypeInv'
  OBVIOUS
<1>1. store' \in [Objs -> Object]
  BY CreateType DEF CreateOk, CreateFails, TypeInv, TypeOK
<1>2. sync' = NextIndex \/ sync' = [sync EXCEPT !.pc = "failed"]
  BY DEF CreateOk, CreateFails
<1>3. sync' \in Sync /\ sync'.claimed = sync.claimed
  BY <1>2, NextIndexType DEF TypeInv, TypeOK, Sync
<1>4. budget' \in [EventKinds -> Int]
  BY SpendType DEF CreateOk, CreateFails, EventKinds, TypeInv, TypeOK
<1>5. exp' \in Nat
  BY DEF CreateOk, CreateFails, CreationObserved, TypeInv, TypeOK
<1> QED
  BY <1>1, <1>3, <1>4, <1>5, SameClaims
  DEF CreateOk, CreateFails, TypeInv, TypeOK, cacheVars, eventVars, queueVars

LEMMA UpdatedJobType == TypeInv => UpdatedJob \in Job
<1> SUFFICES ASSUME TypeInv
             PROVE  UpdatedJob \in Job
  OBVIOUS
<1>1. sync.job \in Job
  BY DEF TypeInv, TypeOK, Sync
<1>2. \A s \in AllPodSlots, p \in Phases :
         Cardinality({c \in sync.claimed[s] : c.phase = p}) \in Nat
  BY FiniteClaimed DEF AllSlots, AllPodSlots
<1>3. UpdatedReplicas \in [AllPodSlots -> [Phases -> Nat]]
  BY <1>1, <1>2 DEF UpdatedReplicas, Job
<1>4. UpdatedPhase \in {"None", "Running", "Succeeded"}
  BY DEF UpdatedPhase
<1> QED
  BY <1>1, <1>3, <1>4 DEF UpdatedJob, Job

LEMMA UpdateStatusType == TypeInv /\ UpdateStatus => TypeInv'
<1> SUFFICES ASSUME TypeInv, UpdateStatus
             PROVE  TypeInv'
  OBVIOUS
<1>1. job' = job \/ job' = UpdatedJob
  BY DEF UpdateStatus
<1>2. jobCache' = jobCache \/ jobCache' = UpdatedJob
  BY DEF UpdateStatus, CacheWrite
<1>3. job' \in Job /\ jobCache' \in Job
  BY <1>1, <1>2, UpdatedJobType DEF TypeInv, TypeOK
<1>4. jobStale' \in BOOLEAN
  BY DEF UpdateStatus, TypeInv, TypeOK
<1>5. budget' \in [EventKinds -> Int]
  BY SpendType DEF UpdateStatus, EventKinds, TypeInv, TypeOK
<1>6. sync' = Idle \/ sync' = [sync EXCEPT !.pc = "failed"]
  BY DEF UpdateStatus
<1>7. CASE sync' = Idle
  <2>1. ClaimsDistinct'
    BY <1>7 DEF Idle, ClaimsDistinct
  <2> QED
    BY <1>3, <1>4, <1>5, <1>7, <2>1, RecordsTyped
    DEF UpdateStatus, TypeInv, TypeOK, eventVars, queueVars
<1>8. CASE sync' = [sync EXCEPT !.pc = "failed"]
  <2>1. sync' \in Sync /\ sync'.claimed = sync.claimed
    BY <1>8 DEF TypeInv, TypeOK, Sync
  <2> QED
    BY <1>3, <1>4, <1>5, <2>1, SameClaims
    DEF UpdateStatus, TypeInv, TypeOK, eventVars, queueVars
<1> QED
  BY <1>6, <1>7, <1>8
LEMMA InformerType == TypeInv /\ InformerStep => TypeInv'
<1> SUFFICES ASSUME TypeInv, InformerStep
             PROVE  TypeInv'
  OBVIOUS
<1> USE DEF serverVars, queueVars
<1>1. Detached \in Sync /\ Detached.claimed = sync.claimed
  BY DEF Detached, TypeInv, TypeOK, Sync
<1>2. CASE JobCatchUp
  <2>1. sync' \in Sync /\ ClaimsDistinct'
    BY <1>1, <1>2, SameClaims DEF JobCatchUp
  <2>2. jobNotif' \in BOOLEAN
    BY <1>2 DEF JobCatchUp, TypeInv, TypeOK
  <2> QED
    BY <1>2, <2>1, <2>2 DEF JobCatchUp, TypeInv, TypeOK
<1>3. CASE JobRelist
  <2>1. sync' \in Sync /\ ClaimsDistinct'
    BY <1>1, <1>3, SameClaims DEF JobRelist
  <2>2. budget' \in [EventKinds -> Int]
    BY <1>3, SpendType DEF JobRelist, EventKinds, TypeInv
  <2> QED
    BY <1>3, <2>1, <2>2 DEF JobRelist, TypeInv, TypeOK
<1>4. ASSUME NEW o \in Objs, ObjCatchUp(o)
      PROVE  TypeInv'
  <2>1. cache' \in [Objs -> Object]
    BY <1>4 DEF ObjCatchUp, TypeInv, TypeOK
  <2>2. store[o].owner \in 0..MaxUid /\ cache[o].owner \in 0..MaxUid
    BY DEF TypeInv, TypeOK, Object
  <2>3. store[o].owner # 0 => store[o].owner \in 1..MaxUid
    BY <2>2, BoundsAssumption
  <2>4. added' \in [1..MaxUid -> Nat]
    BY <1>4, <2>3 DEF ObjCatchUp, TypeInv, TypeOK
  <2>5. {cache[o].owner, store[o].owner} \ {0} \subseteq 1..MaxUid
    BY <2>2, BoundsAssumption
  <2>6. touched' \in SUBSET (1..MaxUid)
    BY <1>4, <2>5 DEF ObjCatchUp, TypeInv, TypeOK
  <2> QED
    BY <1>4, <2>1, <2>4, <2>6 DEF ObjCatchUp, TypeInv, TypeOK, ClaimsDistinct
<1> QED
  BY <1>2, <1>3, <1>4 DEF InformerStep

LEMMA HandlerType == TypeInv /\ HandlerStep => TypeInv'
<1> SUFFICES ASSUME TypeInv, HandlerStep
             PROVE  TypeInv'
  OBVIOUS
<1> USE DEF serverVars, cacheVars
<1>1. CASE JobHandler
  BY <1>1 DEF JobHandler, TypeInv, TypeOK, ClaimsDistinct
<1>2. ASSUME NEW u \in 1..MaxUid, AddHandler(u)
      PROVE  TypeInv'
  <2>1. added' \in [1..MaxUid -> Nat] /\ exp' \in Nat /\ waiting' \in BOOLEAN
    BY <1>2 DEF AddHandler, CreationObserved, Resolves, TypeInv, TypeOK
  <2> QED
    BY <1>2, <2>1 DEF AddHandler, TypeInv, TypeOK, ClaimsDistinct
<1>3. ASSUME NEW u \in 1..MaxUid, UpdateHandler(u)
      PROVE  TypeInv'
  BY <1>3 DEF UpdateHandler, Resolves, TypeInv, TypeOK, ClaimsDistinct
<1> QED
  BY <1>1, <1>2, <1>3 DEF HandlerStep

\* What the cluster does to one object.
LEMMA SetObjType ==
    ASSUME TypeInv, NEW o \in Objs, NEW r \in Object, SetObj(o, r),
           budget' \in [EventKinds -> Int]
    PROVE  TypeInv'
BY DEF SetObj, TypeInv, TypeOK, ClaimsDistinct, cacheVars, eventVars, queueVars

LEMMA WriteJobType ==
    ASSUME TypeInv, NEW j \in Job, WriteJob(j), budget' \in [EventKinds -> Int],
           lastUid' \in 1..MaxUid
    PROVE  TypeInv'
<1>1. sync' \in Sync /\ sync'.claimed = sync.claimed
  BY DEF WriteJob, TypeInv, TypeOK, Sync
<1> QED
  BY <1>1, SameClaims DEF WriteJob, TypeInv, TypeOK, eventVars, queueVars

LEMMA ClusterType == TypeInv /\ ClusterStep => TypeInv'
<1> SUFFICES ASSUME TypeInv, ClusterStep
             PROVE  TypeInv'
  OBVIOUS
<1>1. budget' \in [EventKinds -> Int]
  <2>1. budget' = budget \/ \E k \in EventKinds : Spend(k)
    BY DEF ClusterStep, PodSucceeds, PodFails, PodDeleted, PodRemoved, GarbageCollect,
           UserUpdate, UserDelete, JobFinalized, Recreate, ExpectationExpires, Crash, EventKinds
  <2> QED
    BY <2>1, SpendType DEF TypeInv, TypeOK
<1>2. ASSUME NEW o \in Objs,
             \/ PodSucceeds(o) \/ PodFails(o) \/ PodDeleted(o) \/ PodRemoved(o)
             \/ GarbageCollect(o)
      PROVE  TypeInv'
  <2>1. store[o] \in Object
    BY DEF TypeInv, TypeOK
  <2>2. /\ [store[o] EXCEPT !.phase = "Succeeded"] \in Object
        /\ [store[o] EXCEPT !.phase = "Failed"] \in Object
        /\ [store[o] EXCEPT !.deleting = TRUE] \in Object
        /\ [store[o] EXCEPT !.st = "gone"] \in Object
    BY <2>1 DEF Object, Phases
  <2> QED
    BY <1>1, <1>2, <2>2, SetObjType
    DEF PodSucceeds, PodFails, PodDeleted, PodRemoved, GarbageCollect
<1>3. CASE UserUpdate \/ UserDelete \/ JobFinalized
  <2>1. job \in Job /\ [job EXCEPT !.deleting = TRUE] \in Job /\ NoJob \in Job
    BY RecordsTyped DEF TypeInv, TypeOK, Job
  <2>2. lastUid' \in 1..MaxUid
    BY <1>3 DEF UserUpdate, UserDelete, JobFinalized, TypeInv, TypeOK
  <2> QED
    BY <1>1, <1>3, <2>1, <2>2, WriteJobType DEF UserUpdate, UserDelete, JobFinalized
<1>4. CASE Recreate
  <2>1. lastUid + 1 \in 1..MaxUid
    BY <1>4, BoundsAssumption DEF Recreate, TypeInv, TypeOK
  <2>2. NewJob(lastUid + 1) \in Job
    BY <2>1, RecordsTyped
  <2> QED
    BY <1>1, <1>4, <2>1, <2>2, WriteJobType DEF Recreate
<1>5. CASE ExpectationExpires
  BY <1>1, <1>5 DEF ExpectationExpires, NoExpectation, TypeInv, TypeOK, ClaimsDistinct,
                    serverVars, cacheVars, eventVars, queueVars
<1>6. CASE Crash
  <2>1. cache' \in [Objs -> Object]
    BY <1>6, RecordsTyped DEF Crash, TypeInv, TypeOK
  <2>2. listed' \in 0..MaxObjs
    <3> DEFINE S == {o \in Objs : store[o].st # "none"}
    <3>1. IsFiniteSet(Objs) /\ Cardinality(Objs) = MaxObjs
      BY FS_Interval, BoundsAssumption DEF Objs
    <3>2. IsFiniteSet(S) /\ Cardinality(S) <= MaxObjs
      BY <3>1, FS_Subset
    <3>3. Cardinality(S) \in Nat
      BY <3>2, FS_CardinalityType
    <3> QED
      BY <1>6, <3>2, <3>3, BoundsAssumption DEF Crash
  <2>3. sync' \in Sync /\ ClaimsDistinct'
    BY <1>6, RecordsTyped DEF Crash, Idle, ClaimsDistinct
  <2>4. added' \in [1..MaxUid -> Nat]
    BY <1>6 DEF Crash, NoneAdded
  <2> QED
    BY <1>1, <1>6, <2>1, <2>2, <2>3, <2>4, RecordsTyped
    DEF Crash, NoExpectation, TypeInv, TypeOK, serverVars
<1> QED
  BY <1>2, <1>3, <1>4, <1>5, <1>6 DEF ClusterStep

LEMMA StutterType == TypeInv /\ UNCHANGED vars => TypeInv'
BY DEF TypeInv, TypeOK, ClaimsDistinct, vars, serverVars, cacheVars, eventVars, queueVars

LEMMA NextType == TypeInv /\ [Next]_vars => TypeInv'
BY QueueStepsType, LookupType, ClaimType, ManageType, BeginEventType, CreateStepsType,
   UpdateStatusType, InformerType, HandlerType, ClusterType, StutterType
DEF Next, ControllerStep

LEMMA TypeInvariance == Spec => []TypeInv
BY InitType, NextType, PTL DEF Spec

\* The variables keep the types of the structs they stand for, whatever the bounds: no count
\* of the controller, its expectations among them, becomes negative or infinite.
THEOREM TypeCorrect == Spec => []TypeOK
<1>1. TypeInv => TypeOK
  BY DEF TypeInv
<1> QED
  BY <1>1, TypeInvariance, PTL

-----------------------------------------------------------------------------
(***************************************************************************)
(* The key is served as the work queue promises.                           *)
(***************************************************************************)
Pending == waiting \/ queued
Handling == sync.pc # "idle"

LEMMA InitServes == Init => Service!Init
BY DEF Init, Idle, Service!Init

\* Each step is one of the service's, or none.
LEMMA ServiceSteps ==
    ASSUME \/ Pending' = Pending /\ Handling' = Handling
           \/ Pending' /\ Handling' = Handling
           \/ Pending /\ ~Handling /\ Handling'
           \/ Pending' = Pending /\ Handling /\ ~Handling'
           \/ ~Pending' /\ ~Handling'
    PROVE  [Service!Next]_(Service!vars)
<1> DEFINE p == IF waiting \/ queued THEN {"key"} ELSE {}
           h == IF sync.pc # "idle" THEN {"key"} ELSE {}
<1>1. CASE Pending' = Pending /\ Handling' = Handling
  <2>1. p' = p /\ h' = h
    BY <1>1 DEF Pending, Handling
  <2> QED
    BY <2>1 DEF Service!vars
<1>2. CASE Pending' /\ Handling' = Handling
  <2>1. p' = p \cup {"key"} /\ h' = h
    BY <1>2 DEF Pending, Handling
  <2> QED
    BY <2>1 DEF Service!Next, Service!Request
<1>3. CASE Pending /\ ~Handling /\ Handling'
  <2>1. "key" \in p \ h /\ p' \in {p, p \ {"key"}} /\ h' = h \cup {"key"}
    BY <1>3 DEF Pending, Handling
  <2> QED
    BY <2>1 DEF Service!Next, Service!Start
<1>4. CASE Pending' = Pending /\ Handling /\ ~Handling'
  <2>1. p' = p /\ "key" \in h /\ h' = h \ {"key"}
    BY <1>4 DEF Pending, Handling
  <2> QED
    BY <2>1 DEF Service!Next, Service!Finish
<1>5. CASE ~Pending' /\ ~Handling'
  <2>1. p' = {} /\ h' = {}
    BY <1>5 DEF Pending, Handling
  <2> QED
    BY <2>1 DEF Service!Next, Service!Restart
<1> QED
  BY <1>1, <1>2, <1>3, <1>4, <1>5

LEMMA StepServes == TypeInv /\ [Next]_vars => [Service!Next]_(Service!vars)
<1> SUFFICES ASSUME TypeInv, [Next]_vars
             PROVE  [Service!Next]_(Service!vars)
  OBVIOUS
<1>1. sync \in Sync /\ waiting \in BOOLEAN /\ queued \in BOOLEAN
  BY DEF TypeInv, TypeOK
<1>2. CASE Get
  <2>1. Pending /\ ~Handling /\ Handling'
    BY <1>1, <1>2 DEF Get, Pending, Handling, Sync
  <2> QED
    BY <2>1, ServiceSteps
<1>3. CASE Crash
  <2>1. ~Pending' /\ ~Handling'
    BY <1>3 DEF Crash, Idle, Pending, Handling
  <2> QED
    BY <2>1, ServiceSteps
<1>4. CASE Requeue \/ HandlerStep
  <2>1. sync' = sync /\ (Pending' = Pending \/ Pending')
    BY <1>1, <1>4 DEF Requeue, HandlerStep, JobHandler, AddHandler, UpdateHandler, Pending
  <2> QED
    BY <2>1, ServiceSteps DEF Handling
<1>5. CASE ControllerStep /\ ~Get
  <2>1. UNCHANGED queueVars /\ Handling
    BY <1>5 DEF ControllerStep, CheckExpectations, Lookup, Claim, Manage, BeginEvent, CreateOk,
                CreateFails, UpdateStatus, DoneFailed, Handling
  <2> QED
    BY <2>1, ServiceSteps DEF queueVars, Pending, Handling
<1>6. CASE InformerStep \/ (ClusterStep /\ ~Crash) \/ UNCHANGED vars
  <2>1. UNCHANGED queueVars
    BY <1>6 DEF InformerStep, JobCatchUp, JobRelist, ObjCatchUp, ClusterStep, PodSucceeds,
                PodFails, PodDeleted, PodRemoved, GarbageCollect, SetObj, UserUpdate, UserDelete,
                JobFinalized, Recreate, WriteJob, ExpectationExpires, vars
  <2>2. sync'.pc = sync.pc
    BY <1>1, <1>6 DEF InformerStep, JobCatchUp, JobRelist, Detached, ObjCatchUp, ClusterStep,
                PodSucceeds, PodFails, PodDeleted, PodRemoved, GarbageCollect, SetObj,
                UserUpdate, UserDelete, JobFinalized, Recreate, WriteJob, ExpectationExpires,
                vars, Sync
  <2> QED
    BY <2>1, <2>2, ServiceSteps DEF queueVars, Pending, Handling
<1> QED
  BY <1>2, <1>3, <1>4, <1>5, <1>6 DEF Next

\* What this specification takes the work queue for is what the work queue is proved to be:
\* both implement the abstract key service.
THEOREM KeyServed == Spec => ImplementsService
<1>1. TypeInv /\ [Next]_vars => [Service!Next]_(Service!vars)
  BY StepServes
<1> QED
  BY <1>1, InitServes, TypeInvariance, PTL DEF Spec, ImplementsService, Service!Spec
====
