---- MODULE SucceededProofs ----
(***************************************************************************)
(* A TFJob is Succeeded only when enough of its current worker pods are.   *)
(* The updater counts what a sync claimed from a cache that may be old, in *)
(* a pass that was made for the RuntimeID the job had before compose.  The *)
(* argument: success is final for a pod, so an old cache errs on the safe  *)
(* side; and compose runs only when a worker is missing, so that no count  *)
(* of the old RuntimeID's pods can reach the number of replicas.           *)
(***************************************************************************)
EXTENDS TFJobControllerTypes

\* An object that was not created yet has not succeeded.
NoneSucceeded == \A o \in Objs : ~Created(o) => store[o].phase # "Succeeded"

\* The cache is late, but not wrong.
CacheFaithful ==
    \A o \in Objs : cache[o].st # "none" =>
        /\ Created(o)
        /\ cache[o].slot = store[o].slot /\ cache[o].rid = store[o].rid
        /\ cache[o].phase = "Succeeded" => store[o].phase = "Succeeded"

\* What the sync claimed as workers are worker pods, and succeeded if it says so.
ClaimsFaithful ==
    \A c \in sync.claimed["workerPods"] :
        /\ Created(c.obj) /\ store[c.obj].slot = "workerPods"
        /\ c.phase = "Succeeded" => store[c.obj].phase = "Succeeded"

\* They are of the job's RuntimeID, but for one that compose drew since.
ClaimsCurrent ==
    sync.pc \in {"claim", "manage"} \/ Succeeded >= WorkerReplicas =>
        \A c \in sync.claimed["workerPods"] : store[c.obj].rid = sync.job.rid

NoClaimsYet == sync.pc \in {"idle", "check", "lookup"} => sync.claimed["workerPods"] = {}

ClaimsInv == ClaimsFaithful /\ ClaimsCurrent /\ NoClaimsYet
EarnedInv == NoneSucceeded /\ CacheFaithful /\ ClaimsInv /\ SucceededEarned

-----------------------------------------------------------------------------
\* What no step takes back.
Grows(o) ==
    /\ Created(o) => /\ store'[o].st # "none"
                     /\ store'[o].slot = store[o].slot /\ store'[o].rid = store[o].rid
                     /\ store[o].phase = "Succeeded" => store'[o].phase = "Succeeded"
    /\ store'[o].st = "none" => store'[o].phase # "Succeeded"

LEMMA PatchedGrows ==
    ASSUME TypeInv, NoneSucceeded, NEW s \in Slots, Claim(s), NEW o \in Objs
    PROVE  Grows(o)
<1>1. PICK F : store' = Patched(s, F)
  BY DEF Claim
<1>2. store'[o] = store[o] \/ \E u : store'[o] = [store[o] EXCEPT !.owner = u]
  BY <1>1 DEF Patched
<1>3. store[o] \in Object
  BY DEF TypeInv, TypeOK
<1> QED
  BY <1>2, <1>3 DEF Grows, NoneSucceeded, Created, Object

LEMMA CreateGrows ==
    ASSUME TypeInv, NoneSucceeded, NEW n \in Objs, Create(n), NEW o \in Objs
    PROVE  Grows(o)
<1>1. /\ store[n].st = "none" /\ store'[n].st # "none"
      /\ o # n => store'[o] = store[o]
  BY DEF Create, NewObj, NoObj, TypeInv, TypeOK
<1> QED
  BY <1>1 DEF Grows, NoneSucceeded, Created

LEMMA PodStepGrows ==
    ASSUME TypeInv, NoneSucceeded, NEW p \in Objs,
           \/ PodSucceeds(p) \/ PodFails(p) \/ PodDeleted(p) \/ PodRemoved(p)
           \/ GarbageCollect(p),
           NEW o \in Objs
    PROVE  Grows(o)
<1>1. store[p] \in Object /\ store \in [Objs -> Object]
  BY DEF TypeInv, TypeOK
<1>2. Live(p)
  BY DEF PodSucceeds, PodFails, PodDeleted, PodRemoved, GarbageCollect
<1>3. PICK r : /\ store' = [store EXCEPT ![p] = r]
               /\ \/ r = [store[p] EXCEPT !.phase = "Succeeded"]
                  \/ r = [store[p] EXCEPT !.phase = "Failed"] /\ ~Terminal(p)
                  \/ r = [store[p] EXCEPT !.deleting = TRUE]
                  \/ r = [store[p] EXCEPT !.st = "gone"]
  BY DEF PodSucceeds, PodFails, PodDeleted, PodRemoved, GarbageCollect, SetObj
<1>4. /\ r.st # "none" /\ r.slot = store[p].slot /\ r.rid = store[p].rid
      /\ store[p].phase = "Succeeded" => r.phase = "Succeeded"
  BY <1>1, <1>2, <1>3 DEF Live, Terminal, Object
<1>5. store'[p] = r /\ (o # p => store'[o] = store[o])
  BY <1>1, <1>3
<1> QED
  BY <1>4, <1>5 DEF Grows, NoneSucceeded, Created

LEMMA StoreGrows ==
    TypeInv /\ NoneSucceeded /\ [Next]_vars => \A o \in Objs : Grows(o)
<1> SUFFICES ASSUME TypeInv, NoneSucceeded, [Next]_vars, NEW o \in Objs
             PROVE  Grows(o)
  OBVIOUS
<1>1. CASE store' = store
  BY <1>1 DEF Grows, NoneSucceeded, Created
<1>2. CASE \E s \in Slots : Claim(s)
  BY <1>2, PatchedGrows
<1>3. CASE \E n \in Objs : Create(n)
  BY <1>3, CreateGrows
<1>4. CASE \E p \in Objs : \/ PodSucceeds(p) \/ PodFails(p) \/ PodDeleted(p) \/ PodRemoved(p)
                           \/ GarbageCollect(p)
  BY <1>4, PodStepGrows
<1>5. \/ store' = store \/ (\E s \in Slots : Claim(s)) \/ (\E n \in Objs : Create(n))
      \/ \E p \in Objs : \/ PodSucceeds(p) \/ PodFails(p) \/ PodDeleted(p) \/ PodRemoved(p)
                         \/ GarbageCollect(p)
  <2>1. CASE UNCHANGED vars
    BY <2>1 DEF vars, serverVars
  <2>2. CASE Requeue \/ InformerStep \/ HandlerStep
    BY <2>2 DEF Requeue, InformerStep, JobCatchUp, JobRelist, ObjCatchUp, HandlerStep,
                JobHandler, AddHandler, UpdateHandler, serverVars
  <2>3. CASE ControllerStep
    BY <2>3 DEF ControllerStep, Get, CheckExpectations, Lookup, Manage, BeginEvent, CreateOk,
                CreateFails, UpdateStatus, DoneFailed, serverVars
  <2>4. CASE ClusterStep
    BY <2>4 DEF ClusterStep, UserUpdate, UserDelete, JobFinalized, Recreate, WriteJob,
                ExpectationExpires, Crash, serverVars
  <2> QED
    BY <2>1, <2>2, <2>3, <2>4 DEF Next
<1> QED
  BY <1>1, <1>2, <1>3, <1>4, <1>5

-----------------------------------------------------------------------------
LEMMA NoneSucceededKept ==
    ASSUME \A o \in Objs : Grows(o)
    PROVE  NoneSucceeded'
BY DEF NoneSucceeded, Created, Grows

LEMMA CacheKept ==
    ASSUME TypeInv, CacheFaithful, \A o \in Objs : Grows(o), [Next]_vars
    PROVE  CacheFaithful'
<1>1. CASE cache' = cache
  BY <1>1 DEF CacheFaithful, Grows, Created
<1>2. CASE \E o \in Objs : ObjCatchUp(o)
  <2>1. PICK o \in Objs : ObjCatchUp(o)
    BY <1>2
  <2>2. store' = store /\ cache' = [cache EXCEPT ![o] = store[o]]
    BY <2>1 DEF ObjCatchUp, serverVars
  <2> QED
    BY <2>2 DEF CacheFaithful, Created, TypeInv, TypeOK
<1>3. CASE Crash
  <2>1. store' = store /\ cache' = [o \in Objs |-> IF store[o].st = "gone" THEN store[o]
                                                   ELSE NoObj]
    BY <1>3 DEF Crash, serverVars
  <2>2. NoObj.st = "none"
    BY DEF NoObj
  <2> QED
    BY <2>1, <2>2 DEF CacheFaithful, Created
<1>4. cache' = cache \/ (\E o \in Objs : ObjCatchUp(o)) \/ Crash
  <2>1. CASE UNCHANGED vars
    BY <2>1 DEF vars, cacheVars
  <2>2. CASE Requeue \/ InformerStep \/ HandlerStep
    BY <2>2 DEF Requeue, InformerStep, JobCatchUp, JobRelist, HandlerStep,
                JobHandler, AddHandler, UpdateHandler, cacheVars
  <2>3. CASE ControllerStep
    BY <2>3 DEF ControllerStep, Get, CheckExpectations, Lookup, Claim, Manage, BeginEvent,
                CreateOk, CreateFails, UpdateStatus, DoneFailed, cacheVars
  <2>4. CASE ClusterStep
    BY <2>4 DEF ClusterStep, PodSucceeds, PodFails, PodDeleted, PodRemoved, GarbageCollect,
                SetObj, UserUpdate, UserDelete, JobFinalized, Recreate, WriteJob,
                ExpectationExpires, cacheVars
  <2> QED
    BY <2>1, <2>2, <2>3, <2>4 DEF Next
<1> QED
  BY <1>1, <1>2, <1>3, <1>4
-----------------------------------------------------------------------------
\* Steps that leave the claims, and the RuntimeID they were made for, alone.
LEMMA ClaimsKept ==
    ASSUME TypeInv, ClaimsInv, \A o \in Objs : Grows(o),
           sync'.claimed = sync.claimed, sync'.job.rid = sync.job.rid,
           sync'.pc \in {"claim", "manage"} => sync.pc \in {"claim", "manage"},
           sync'.pc \in {"idle", "check", "lookup"} => sync.pc \in {"idle", "check", "lookup"}
    PROVE  ClaimsInv'
<1>1. Succeeded' = Succeeded
  BY DEF Succeeded
<1>2. \A c \in sync.claimed["workerPods"] : c.obj \in Objs
  BY DEF TypeInv, TypeOK, Sync, AllSlots, ClaimedObj
<1>3. \A c \in sync.claimed["workerPods"] : Created(c.obj)
  BY DEF ClaimsInv, ClaimsFaithful
<1>4. ClaimsFaithful'
  BY <1>2, <1>3 DEF ClaimsInv, ClaimsFaithful, Grows, Created
<1>5. ClaimsCurrent'
  BY <1>1, <1>2, <1>3 DEF ClaimsInv, ClaimsCurrent, Grows
<1>6. NoClaimsYet'
  BY DEF ClaimsInv, NoClaimsYet
<1> QED
  BY <1>4, <1>5, <1>6 DEF ClaimsInv

LEMMA NoClaims ==
    ASSUME sync'.claimed["workerPods"] = {}
    PROVE  ClaimsInv'
BY DEF ClaimsInv, ClaimsFaithful, ClaimsCurrent, NoClaimsYet

LEMMA IdleClaims ==
    ASSUME sync' = Idle
    PROVE  ClaimsInv'
BY NoClaims DEF Idle, AllSlots

LEMMA LookupClaims == TypeInv /\ ClaimsInv /\ Lookup => ClaimsInv'
<1> SUFFICES ASSUME TypeInv, ClaimsInv, Lookup
             PROVE  ClaimsInv'
  OBVIOUS
<1>1. sync.claimed["workerPods"] = {}
  BY DEF Lookup, ClaimsInv, NoClaimsYet
<1>2. sync' = Idle \/ sync' = [sync EXCEPT !.pc = "claim", !.job = jobCache, !.attached = TRUE,
                                           !.oldRV = jobStale, !.todo = Slots]
  BY DEF Lookup
<1>3. CASE sync' # Idle
  <2>1. sync'.claimed = sync.claimed
    BY <1>2, <1>3 DEF TypeInv, TypeOK, Sync
  <2> QED
    BY <1>1, <2>1, NoClaims
<1> QED
  BY <1>3, IdleClaims

\* A pass claims what matches the selector in the cache.
LEMMA ClaimClaims ==
    ASSUME TypeInv, CacheFaithful, ClaimsInv, \A o \in Objs : Grows(o),
           NEW s \in Slots, Claim(s)
    PROVE  ClaimsInv'
<1>1. sync \in Sync /\ sync.pc = "claim"
  BY DEF Claim, TypeInv, TypeOK
<1>2. PICK mine \in SUBSET {o \in ListedFor(s) : Matches(o, s)} :
         \/ sync' = [sync EXCEPT !.pc = "failed"]
         \/ sync' = [sync EXCEPT
                       !.todo = @ \ {s},
                       !.claimed[s] = {[obj |-> o, phase |-> cache[o].phase,
                                        deleting |-> cache[o].deleting] : o \in mine},
                       !.pc = IF sync.todo = {s} THEN "manage" ELSE "claim"]
  <2>1. \A o \in Objs : Verdict(o, s) \in {"claim", "adopt"} => Matches(o, s)
    BY DEF Verdict, ClaimObject
  <2> DEFINE adopting == {o \in ListedFor(s) : Verdict(o, s) = "adopt"}
             mine == {o \in ListedFor(s) : Verdict(o, s) = "claim"}
                        \cup {o \in adopting : Live(o)}
  <2>2. mine \in SUBSET {o \in ListedFor(s) : Matches(o, s)}
    BY <2>1 DEF ListedFor
  <2>3. \/ sync' = [sync EXCEPT !.pc = "failed"]
        \/ sync' = [sync EXCEPT
                      !.todo = @ \ {s},
                      !.claimed[s] = {[obj |-> o, phase |-> cache[o].phase,
                                       deleting |-> cache[o].deleting] : o \in mine},
                      !.pc = IF sync.todo = {s} THEN "manage" ELSE "claim"]
    BY DEF Claim
  <2> HIDE DEF mine
  <2> QED
    BY <2>2, <2>3
<1> DEFINE C == {[obj |-> o, phase |-> cache[o].phase,
                  deleting |-> cache[o].deleting] : o \in mine}
           pc == IF sync.todo = {s} THEN "manage" ELSE "claim"
<1>3. ASSUME s = "workerPods", NEW c \in C
      PROVE  /\ c.obj \in Objs /\ Created(c.obj)
             /\ store[c.obj].slot = "workerPods" /\ store[c.obj].rid = sync.job.rid
             /\ c.phase = "Succeeded" => store[c.obj].phase = "Succeeded"
  BY <1>3 DEF ListedFor, Matches, CacheFaithful
<1>4. pc \in {"claim", "manage"}
  OBVIOUS
<1> HIDE DEF C, pc
<1>5. CASE sync' = [sync EXCEPT !.pc = "failed"]
  <2>1. sync'.claimed = sync.claimed /\ sync'.job = sync.job /\ sync'.pc = "failed"
    BY <1>1, <1>5 DEF Sync
  <2> QED
    BY <2>1, ClaimsKept
<1>6. CASE sync' = [sync EXCEPT !.todo = @ \ {s}, !.claimed[s] = C, !.pc = pc]
  <2>1. /\ sync'.claimed = [sync.claimed EXCEPT ![s] = C] /\ sync'.job = sync.job
        /\ sync'.pc = pc
    BY <1>1, <1>6 DEF Sync
  <2>2. s \in AllSlots /\ sync.claimed \in [AllSlots -> SUBSET ClaimedObj]
    BY <1>1, SlotsTyped DEF Sync
  <2>3. CASE s = "workerPods"
    <3>1. sync'.claimed["workerPods"] = C
      BY <2>1, <2>2, <2>3
    <3>2. ClaimsFaithful'
      BY <1>3, <2>3, <3>1 DEF ClaimsFaithful, Grows, Created
    <3>3. ClaimsCurrent'
      BY <1>3, <2>1, <2>3, <3>1 DEF ClaimsCurrent, Grows
    <3> QED
      BY <1>4, <2>1, <3>2, <3>3 DEF ClaimsInv, NoClaimsYet
  <2>4. CASE s # "workerPods"
    <3>1. sync'.claimed["workerPods"] = sync.claimed["workerPods"]
      BY <2>1, <2>2, <2>4
    <3>2. \A c \in sync.claimed["workerPods"] :
             /\ c.obj \in Objs /\ Created(c.obj)
             /\ store[c.obj].slot = "workerPods" /\ store[c.obj].rid = sync.job.rid
             /\ c.phase = "Succeeded" => store[c.obj].phase = "Succeeded"
      BY <1>1, <2>2 DEF ClaimsInv, ClaimsFaithful, ClaimsCurrent, ClaimedObj, AllSlots
    <3>3. ClaimsFaithful' /\ ClaimsCurrent'
      BY <2>1, <3>1, <3>2 DEF ClaimsFaithful, ClaimsCurrent, Grows, Created
    <3> QED
      BY <1>4, <2>1, <3>3 DEF ClaimsInv, NoClaimsYet
  <2> QED
    BY <2>3, <2>4
<1> QED
  BY <1>2, <1>5, <1>6 DEF C, pc

\* compose is called only when too few workers succeeded to end the job.
LEMMA DueTooFew ==
    ASSUME TypeInv, "workerPods" \in Due(Counts, Succeeded)
    PROVE  Succeeded < WorkerReplicas
<1>1. Counts["workerPods"] \in Nat /\ Succeeded \in Nat /\ WorkerReplicas \in Nat \ {0}
  BY CountsTyped, ReplicasAssumption DEF AllSlots
<1>2. CASE LocalJob
  BY <1>1, <1>2 DEF Due, LocalDue
<1>3. CASE ~LocalJob
  BY <1>1, <1>3 DEF Due, DistributedDue, Expected, ServiceSlots
<1> QED
  BY <1>2, <1>3

LEMMA ManageClaims ==
    ASSUME TypeInv, ClaimsInv, Manage, \A o \in Objs : Grows(o)
    PROVE  ClaimsInv'
<1> DEFINE due == IF sync.needsSync /\ ~sync.job.deleting THEN Due(Counts, Succeeded) ELSE {}
           r == RuntimeID(sync.job, due)
           j == [sync.job EXCEPT !.rid = r]
           num == [s \in AllSlots |-> IF s \in due THEN Number(s, Counts, Succeeded) ELSE 0]
<1>1. /\ sync' = [sync EXCEPT !.pc = AfterEvent(due), !.due = due, !.job = j, !.num = num]
      /\ sync.pc = "manage" /\ store' = store
  BY DEF Manage
<1>2. "workerPods" \in due => Succeeded < WorkerReplicas
  BY DueTooFew
<1>3. "workerPods" \notin due => r = sync.job.rid
  BY DEF RuntimeID, Composes
<1> HIDE DEF due, r, num
<1>4. j.rid = r
  BY DEF TypeInv, TypeOK, Sync, Job
<1> HIDE DEF j
<1>5. sync'.claimed = sync.claimed /\ sync'.job = j /\ sync'.pc \in {"update", "events"}
  BY <1>1 DEF AfterEvent, TypeInv, TypeOK, Sync
<1>6. CASE "workerPods" \in due
  <2>1. Succeeded' = Succeeded /\ Succeeded \in Nat /\ WorkerReplicas \in Nat
    BY <1>5, CountsTyped DEF Succeeded
  <2>2. ClaimsCurrent'
    BY <1>2, <1>5, <1>6, <2>1 DEF ClaimsCurrent
  <2>3. ClaimsFaithful'
    BY <1>1, <1>5 DEF ClaimsInv, ClaimsFaithful, Created
  <2> QED
    BY <1>5, <2>2, <2>3 DEF ClaimsInv, NoClaimsYet
<1>7. CASE "workerPods" \notin due
  BY <1>3, <1>4, <1>5, <1>7, ClaimsKept
<1> QED
  BY <1>6, <1>7

LEMMA ClaimsStep ==
    ASSUME TypeInv, CacheFaithful, ClaimsInv, \A o \in Objs : Grows(o), [Next]_vars
    PROVE  ClaimsInv'
<1>1. sync \in Sync
  BY DEF TypeInv, TypeOK
<1>2. CASE sync' = sync
  BY <1>2, ClaimsKept
<1>3. CASE Get \/ CheckExpectations \/ (\E s \in Slots : BeginEvent(s)) \/ CreateOk \/ CreateFails
  <2>1. /\ sync'.claimed = sync.claimed /\ sync'.job = sync.job
        /\ \/ sync'.pc \in {"check", "lookup"} /\ sync.pc \in {"idle", "check"}
           \/ sync'.pc \in {"create", "events", "update", "failed"}
    <3>1. CASE Get \/ CheckExpectations
      BY <1>1, <3>1 DEF Get, CheckExpectations, Sync
    <3>2. CASE \E s \in Slots : BeginEvent(s)
      BY <1>1, <3>2 DEF BeginEvent, AfterEvent, Sync
    <3>3. CASE CreateOk \/ CreateFails
      <4>1. sync' \in {[sync EXCEPT !.pc = "failed"], NextIndex}
        BY <3>3 DEF CreateOk, CreateFails
      <4> QED
        BY <1>1, <4>1 DEF NextIndex, AfterEvent, Sync
    <3> QED
      BY <1>3, <3>1, <3>2, <3>3
  <2> QED
    BY <2>1, ClaimsKept
<1>4. CASE Lookup
  BY <1>4, LookupClaims
<1>5. CASE \E s \in Slots : Claim(s)
  BY <1>5, ClaimClaims
<1>6. CASE Manage
  BY <1>6, ManageClaims
<1>7. CASE UpdateStatus
  <2>1. sync' = Idle \/ sync' = [sync EXCEPT !.pc = "failed"]
    BY <1>7 DEF UpdateStatus
  <2>2. CASE sync' = [sync EXCEPT !.pc = "failed"]
    <3>1. sync'.claimed = sync.claimed /\ sync'.job = sync.job /\ sync'.pc = "failed"
      BY <1>1, <2>2 DEF Sync
    <3> QED
      BY <3>1, ClaimsKept
  <2> QED
    BY <2>1, <2>2, IdleClaims
<1>8. CASE DoneFailed \/ Crash
  BY <1>8, IdleClaims DEF DoneFailed, Crash
<1>9. CASE JobCatchUp \/ JobRelist \/ UserUpdate \/ UserDelete \/ JobFinalized \/ Recreate
  <2>1. \/ sync' = [sync EXCEPT !.attached = FALSE]
        \/ sync' = [sync EXCEPT !.oldRV = (sync.job.uid # 0)]
    BY <1>9 DEF JobCatchUp, JobRelist, Detached, UserUpdate, UserDelete, JobFinalized, Recreate,
                WriteJob
  <2>2. sync'.claimed = sync.claimed /\ sync'.job = sync.job /\ sync'.pc = sync.pc
    BY <1>1, <2>1 DEF Sync
  <2> QED
    BY <2>2, ClaimsKept
<1>10. CASE \/ Requeue \/ HandlerStep \/ ExpectationExpires \/ UNCHANGED vars
            \/ \E o \in Objs : \/ ObjCatchUp(o) \/ PodSucceeds(o) \/ PodFails(o)
                               \/ PodDeleted(o) \/ PodRemoved(o) \/ GarbageCollect(o)
  BY <1>2, <1>10 DEF Requeue, HandlerStep, JobHandler, AddHandler, UpdateHandler, ObjCatchUp,
                     ExpectationExpires, PodSucceeds, PodFails, PodDeleted, PodRemoved,
                     GarbageCollect, SetObj, vars
<1> QED
  BY <1>3, <1>4, <1>5, <1>6, <1>7, <1>8, <1>9, <1>10
  DEF Next, ControllerStep, InformerStep, ClusterStep

-----------------------------------------------------------------------------
WorkersSucceeded(r) ==
    {o \in Objs : store[o].slot = "workerPods" /\ store[o].rid = r
                 /\ store[o].phase = "Succeeded"}
\* The same after the step.
WorkersSucceededNext(r) ==
    {o \in Objs : store'[o].slot = "workerPods" /\ store'[o].rid = r
                 /\ store'[o].phase = "Succeeded"}

LEMMA FiniteObjs == ASSUME NEW S \in SUBSET Objs PROVE IsFiniteSet(S) /\ Cardinality(S) \in Nat
<1>1. IsFiniteSet(Objs)
  BY FS_Interval, BoundsAssumption DEF Objs
<1> QED
  BY <1>1, FS_Subset, FS_CardinalityType

\* The claims the updater counts are as many objects in the store.
LEMMA CountIsEarned ==
    ASSUME TypeInv, ClaimsInv, Succeeded = WorkerReplicas
    PROVE  Cardinality(WorkersSucceeded(sync.job.rid)) >= WorkerReplicas
<1> DEFINE C == {c \in sync.claimed["workerPods"] : c.phase = "Succeeded"}
           S == WorkersSucceeded(sync.job.rid)
           f == [c \in C |-> c.obj]
<1>1. WorkerReplicas \in Nat /\ Cardinality(C) = WorkerReplicas
  BY ReplicasAssumption DEF Succeeded
<1>2. \A c \in C : c.obj \in S
  <2>1. \A c \in C : c.obj \in Objs
    BY DEF TypeInv, TypeOK, Sync, AllSlots, ClaimedObj
  <2>2. \A c \in C : store[c.obj].rid = sync.job.rid
    BY <1>1 DEF ClaimsInv, ClaimsCurrent
  <2> QED
    BY <2>1, <2>2 DEF ClaimsInv, ClaimsFaithful, WorkersSucceeded
<1>3. f \in Injection(C, S)
  <2>1. f \in [C -> S]
    BY <1>2
  <2>2. \A c, d \in C : c.obj = d.obj => c = d
    BY DEF TypeInv, ClaimsDistinct, AllSlots
  <2> QED
    BY <2>1, <2>2 DEF Injection, IsInjective
<1>4. IsFiniteSet(S)
  BY FiniteObjs DEF WorkersSucceeded
<1>5. Cardinality(C) <= Cardinality(S)
  BY <1>3, <1>4, FS_Injection
<1> QED
  BY <1>1, <1>5

LEMMA EarnedKept ==
    ASSUME TypeInv, NoneSucceeded, \A o \in Objs : Grows(o), NEW r
    PROVE  /\ Cardinality(WorkersSucceeded(r)) <= Cardinality(WorkersSucceededNext(r))
           /\ Cardinality(WorkersSucceeded(r)) \in Nat
           /\ Cardinality(WorkersSucceededNext(r)) \in Nat
<1>1. WorkersSucceeded(r) \subseteq WorkersSucceededNext(r)
  BY DEF WorkersSucceeded, WorkersSucceededNext, NoneSucceeded, Grows
<1>2. WorkersSucceeded(r) \subseteq Objs /\ WorkersSucceededNext(r) \subseteq Objs
  BY DEF WorkersSucceeded, WorkersSucceededNext
<1> QED
  BY <1>1, <1>2, FiniteObjs, FS_Subset

LEMMA EarnedStep ==
    ASSUME TypeInv, EarnedInv, \A o \in Objs : Grows(o), [Next]_vars
    PROVE  SucceededEarned'
<1>1. SUFFICES ASSUME job'.phase = "Succeeded"
               PROVE  Cardinality(WorkersSucceededNext(job'.rid)) >= WorkerReplicas
  BY DEF SucceededEarned, WorkersSucceededNext
<1>2. WorkerReplicas \in Nat
  BY ReplicasAssumption
<1>3. CASE job.phase = "Succeeded" /\ job'.rid = job.rid
  <2>1. Cardinality(WorkersSucceeded(job.rid)) >= WorkerReplicas
    BY <1>3 DEF EarnedInv, SucceededEarned, WorkersSucceeded
  <2> QED
    BY <1>2, <1>3, <2>1, EarnedKept DEF EarnedInv
<1>4. CASE UpdateStatus /\ job' = UpdatedJob
  <2>1. UpdatedJob.phase = UpdatedPhase /\ UpdatedJob.rid = sync.job.rid
    BY DEF UpdatedJob, TypeInv, TypeOK, Sync, Job
  <2>2. Succeeded = WorkerReplicas
    BY <1>1, <1>4, <2>1 DEF UpdatedPhase
  <2>3. Cardinality(WorkersSucceeded(sync.job.rid)) >= WorkerReplicas
    BY <2>2, CountIsEarned DEF EarnedInv
  <2> QED
    BY <1>2, <1>4, <2>1, <2>3, EarnedKept DEF EarnedInv
<1>5. \/ job' = job
      \/ UpdateStatus /\ job' = UpdatedJob
      \/ \E u : job' = NewJob(u)
      \/ job' = [job EXCEPT !.deleting = TRUE]
  <2>1. CASE UNCHANGED vars
    BY <2>1 DEF vars, serverVars
  <2>2. CASE Requeue \/ InformerStep \/ HandlerStep
    BY <2>2 DEF Requeue, InformerStep, JobCatchUp, JobRelist, ObjCatchUp, HandlerStep,
                JobHandler, AddHandler, UpdateHandler, serverVars
  <2>3. CASE ControllerStep
    BY <2>3 DEF ControllerStep, Get, CheckExpectations, Lookup, Claim, Manage, BeginEvent,
                CreateOk, CreateFails, UpdateStatus, DoneFailed, serverVars
  <2>4. CASE ClusterStep
    BY <2>4 DEF ClusterStep, PodSucceeds, PodFails, PodDeleted, PodRemoved, GarbageCollect,
                SetObj, UserUpdate, UserDelete, JobFinalized, Recreate, WriteJob, NoJob,
                ExpectationExpires, Crash, serverVars
  <2> QED
    BY <2>1, <2>2, <2>3, <2>4 DEF Next
<1>6. \A u : NewJob(u).phase # "Succeeded"
  BY DEF NewJob
<1>7. LET j == [job EXCEPT !.deleting = TRUE] IN j.phase = job.phase /\ j.rid = job.rid
  BY DEF TypeInv, TypeOK, Job
<1> QED
  BY <1>1, <1>3, <1>4, <1>5, <1>6, <1>7

-----------------------------------------------------------------------------
LEMMA InitEarned == Init => EarnedInv
<1> SUFFICES ASSUME Init
             PROVE  EarnedInv
  OBVIOUS
<1>1. NoneSucceeded /\ CacheFaithful
  BY DEF Init, NoneSucceeded, CacheFaithful, Created, NoObj
<1>2. sync.claimed["workerPods"] = {}
  BY DEF Init, Idle, AllSlots
<1>3. SucceededEarned
  BY DEF Init, SucceededEarned, NewJob
<1> QED
  BY <1>1, <1>2, <1>3 DEF EarnedInv, ClaimsInv, ClaimsFaithful, ClaimsCurrent, NoClaimsYet

LEMMA NextEarned == TypeInv /\ EarnedInv /\ [Next]_vars => EarnedInv'
<1> SUFFICES ASSUME TypeInv, EarnedInv, [Next]_vars
             PROVE  EarnedInv'
  OBVIOUS
<1>1. \A o \in Objs : Grows(o)
  BY StoreGrows DEF EarnedInv
<1>2. NoneSucceeded'
  BY <1>1, NoneSucceededKept
<1>3. CacheFaithful'
  BY <1>1, CacheKept DEF EarnedInv
<1>4. ClaimsInv'
  BY <1>1, ClaimsStep DEF EarnedInv
<1>5. SucceededEarned'
  BY <1>1, EarnedStep
<1> QED
  BY <1>2, <1>3, <1>4, <1>5 DEF EarnedInv

\* A TFJob is reported Succeeded only when as many of its current worker pods as it has
\* replicas have succeeded, for every number of replicas, whatever the caches show, whatever
\* fails or is lost, and through crashes of the controller.
THEOREM SuccessIsEarned == Spec => []SucceededEarned
<1>1. EarnedInv => SucceededEarned
  BY DEF EarnedInv
<1> QED
  BY <1>1, InitType, NextType, InitEarned, NextEarned, PTL DEF Spec
====
