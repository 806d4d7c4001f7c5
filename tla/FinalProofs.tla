---- MODULE FinalProofs ----
(***************************************************************************)
(* Success is final, as long as the controller process lives.              *)
(*                                                                         *)
(* When the updater reports success, the pods it counted are in the cache, *)
(* as Succeeded pods of the job's RuntimeID, and a cache forgets nothing   *)
(* but in a crash.  A later sync finds them again if it works with the     *)
(* same RuntimeID and may claim them.  The RuntimeID: a sync whose write   *)
(* the server would take has read the job as the server has it, and draws  *)
(* no new one while enough workers succeeded.  The claims: pods of one     *)
(* RuntimeID have never had another owner than the incarnation of the      *)
(* TFJob that drew it.                                                     *)
(***************************************************************************)
EXTENDS TFJobControllerProofs

NoCrash == budget["crash"] = 0

\* The worker is past the lookup and has not met an error.
Active == sync.pc \in {"claim", "manage", "events", "create", "update"}

\* The cache does not show a removal that has not happened.
RemovalsFaithful ==
    \A o \in Objs : cache[o].st # "none" =>
        /\ cache[o].deleting => store[o].deleting
        /\ cache[o].st = "gone" => store[o].st = "gone"

\* What the sync claimed is still in the cache, at least as far as it was.
ClaimsCached ==
    \A c \in sync.claimed["workerPods"] :
        /\ cache[c.obj].st # "none"
        /\ c.phase = "Succeeded" => cache[c.obj].phase = "Succeeded"

\* The copies of the TFJob.  A RuntimeID belongs to one incarnation,
Copies == {job, jobCache, sync.job}
OneLife == \A x, y \in Copies : x.rid = y.rid /\ x.rid # 0 => x.uid = y.uid

\* and so do the worker pods that carry it, on the server and in the cache.
OwnerFits(r) == \A j \in Copies : r.rid = j.rid => r.owner \in {0, j.uid}
WorkersOwned ==
    \A o \in Objs : WorkerPod(o) =>
        /\ store[o].rid # 0
        /\ OwnerFits(store[o])
        /\ cache[o].st # "none" => OwnerFits(cache[o])

\* Worker pods are created with the RuntimeID of a compose.
ComposedFirst ==
    "workerPods" \in sync.due \/ (sync.pc = "create" /\ sync.slot = "workerPods") =>
        sync.job.rid # 0

LivesInv == OneLife /\ WorkersOwned /\ ComposedFirst

\* A copy that is not known to be old is the server's TFJob, but for what is written in place.
SameJob(j) == j.uid = job.uid /\ j.deleting = job.deleting
VersionInv ==
    /\ Active => sync.job.uid # 0
    /\ ~jobStale => SameJob(jobCache)
    /\ Active /\ ~sync.oldRV => SameJob(sync.job)
    /\ Active /\ sync.attached /\ sync.oldRV => jobStale

\* The worker pods that the lister shows as Succeeded.
CachedDone(r) == {o \in Objs : /\ cache[o].st # "none"
                               /\ cache[o].slot = "workerPods" /\ cache[o].rid = r
                               /\ cache[o].phase = "Succeeded"}

SuccessCached ==
    job.phase = "Succeeded" => Cardinality(CachedDone(job.rid)) >= WorkerReplicas

\* Reported success that nobody has touched, in the cache and in a sync that may write.
Settled == job.phase = "Succeeded" /\ ~job.deleting /\ ~LosesWorker
CacheSettled == Settled /\ ~jobStale => jobCache.rid = job.rid
SyncSettled ==
    Settled /\ Active /\ ~sync.oldRV =>
        /\ sync.job.rid = job.rid
        /\ sync.pc # "claim" \/ "workerPods" \notin sync.todo => Succeeded >= WorkerReplicas
        /\ "workerPods" \notin sync.due

FinalInv == /\ AllInv /\ NoCrash /\ RemovalsFaithful /\ ClaimsCached /\ LivesInv
            /\ VersionInv /\ SuccessCached /\ CacheSettled /\ SyncSettled

-----------------------------------------------------------------------------
(***************************************************************************)
(* What the steps change.                                                  *)
(***************************************************************************)
\* Handlers, timers and stuttering.
Bystands == UNCHANGED <<job, store, lastRid, jobCache, jobStale, cache, sync>>

\* Something happens to a pod or a service.
PodChanges ==
    /\ UNCHANGED <<job, lastRid, jobCache, jobStale, cache, sync>>
    /\ \A o \in Objs :
          /\ Kept(o) /\ store'[o].owner = store[o].owner
          /\ store[o].deleting => store'[o].deleting
          /\ store[o].st = "gone" => store'[o].st = "gone"

\* The TFJob informer replaces the cached object.
JobDelivered ==
    /\ jobCache' = job /\ jobStale' = FALSE /\ sync' = Detached
    /\ UNCHANGED <<job, store, lastRid, cache>>

\* Somebody writes to the TFJob, deletes it or creates it again.
JobWritten ==
    /\ \E j : /\ WriteJob(j)
              /\ \/ j \in {job, [job EXCEPT !.deleting = TRUE]}
                 \/ /\ j.rid = 0 /\ j.phase = "None"
                    /\ j.uid # job.uid \/ job.deleting
    /\ UNCHANGED <<store, lastRid, jobCache, cache>>

SyncStarts == /\ Get \/ CheckExpectations
              /\ UNCHANGED <<job, store, lastRid, jobCache, jobStale, cache>>
              /\ sync'.pc \in {"check", "lookup"}
              /\ sync.pc \in {"idle", "check"}
              /\ sync'.job = sync.job /\ sync'.due = sync.due
              /\ sync'.claimed = sync.claimed

SyncEnds == DoneFailed /\ UNCHANGED <<job, store, lastRid, jobCache, jobStale, cache>>

LEMMA Bystanders ==
    ASSUME Requeue \/ HandlerStep \/ ExpectationExpires \/ UNCHANGED vars
    PROVE  Bystands
BY DEF Bystands, Requeue, HandlerStep, JobHandler, AddHandler, UpdateHandler,
       ExpectationExpires, vars, serverVars, cacheVars

LEMMA PodSteps ==
    ASSUME TypeInv, NEW o \in Objs,
           \/ PodSucceeds(o) \/ PodFails(o) \/ PodDeleted(o) \/ PodRemoved(o)
           \/ GarbageCollect(o)
    PROVE  PodChanges
<1>1. \A p \in Objs : Kept(p)
  BY PodStepKeeps
<1>2. PICK r \in {[store[o] EXCEPT !.phase = "Succeeded"], [store[o] EXCEPT !.phase = "Failed"],
                  [store[o] EXCEPT !.deleting = TRUE], [store[o] EXCEPT !.st = "gone"]} :
         SetObj(o, r)
  BY DEF PodSucceeds, PodFails, PodDeleted, PodRemoved, GarbageCollect
<1>3. store' = [store EXCEPT ![o] = r] /\ UNCHANGED <<job, jobCache, jobStale, cache, lastRid, sync>>
  BY <1>2 DEF SetObj, cacheVars
<1>4. Live(o) /\ store[o] \in Object /\ store \in [Objs -> Object]
  BY DEF PodSucceeds, PodFails, PodDeleted, PodRemoved, GarbageCollect, TypeInv, TypeOK
<1>5. /\ r.owner = store[o].owner
      /\ store[o].deleting => r.deleting
      /\ store[o].st # "gone"
  BY <1>2, <1>4 DEF Live, Object
<1> QED
  BY <1>1, <1>3, <1>4, <1>5 DEF PodChanges

LEMMA Deliveries ==
    ASSUME JobCatchUp \/ JobRelist
    PROVE  JobDelivered
BY DEF JobDelivered, JobCatchUp, JobRelist, serverVars

LEMMA Writes ==
    ASSUME TypeInv, UserUpdate \/ UserDelete \/ JobFinalized \/ Recreate
    PROVE  JobWritten
<1>1. job.uid \in 0..MaxUid /\ lastUid \in 1..MaxUid
  BY DEF TypeInv, TypeOK, Job
<1>2. CASE UserUpdate
  BY <1>2 DEF UserUpdate, JobWritten, WriteJob
<1>3. CASE UserDelete
  <2>1. NoJob.uid = 0 /\ NoJob.rid = 0 /\ NoJob.phase = "None"
    BY DEF NoJob, NewJob
  <2> QED
    BY <1>3, <2>1 DEF UserDelete, JobWritten, WriteJob
<1>4. CASE JobFinalized
  <2>1. NoJob.uid = 0 /\ NoJob.rid = 0 /\ NoJob.phase = "None"
    BY DEF NoJob, NewJob
  <2> QED
    BY <1>4, <2>1 DEF JobFinalized, JobWritten, WriteJob
<1>5. CASE Recreate
  <2> DEFINE j == NewJob(lastUid + 1)
  <2>1. j.uid = lastUid + 1 /\ j.rid = 0 /\ j.phase = "None"
    BY DEF NewJob
  <2>2. j.uid # job.uid
    BY <1>1, <1>5, <2>1 DEF Recreate
  <2> QED
    BY <1>5, <2>1, <2>2 DEF Recreate, JobWritten, WriteJob
<1> QED
  BY <1>2, <1>3, <1>4, <1>5

LEMMA Starts ==
    ASSUME TypeInv, Get \/ CheckExpectations
    PROVE  SyncStarts
BY DEF SyncStarts, Get, CheckExpectations, serverVars, cacheVars, TypeInv, TypeOK, Sync

\* The kinds of steps there are while the process lives.
LEMMA Steps ==
    ASSUME TypeInv, ~Crash, [Next]_vars
    PROVE  \/ Bystands \/ PodChanges \/ JobDelivered \/ JobWritten \/ SyncStarts \/ SyncEnds
           \/ (\E o \in Objs : ObjCatchUp(o)) \/ Lookup \/ (\E s \in Slots : Claim(s))
           \/ Manage \/ (\E s \in Slots : BeginEvent(s)) \/ CreateOk \/ CreateFails
           \/ UpdateStatus
<1>1. DoneFailed => SyncEnds
  BY DEF DoneFailed, SyncEnds, serverVars, cacheVars
<1> QED
  BY <1>1, Bystanders, PodSteps, Deliveries, Writes, Starts
  DEF Next, ControllerStep, InformerStep, ClusterStep

-----------------------------------------------------------------------------
\* What cannot happen any more never will.
LEMMA BudgetSpent ==
    ASSUME TypeInv, [Next]_vars, NEW k \in EventKinds, budget[k] = 0
    PROVE  budget'[k] = 0
<1>1. budget' = budget \/ \E i \in EventKinds : Spend(i)
  <2>1. CASE Requeue \/ InformerStep \/ HandlerStep \/ UNCHANGED vars
    BY <2>1 DEF Requeue, InformerStep, JobCatchUp, JobRelist, ObjCatchUp, HandlerStep,
                JobHandler, AddHandler, UpdateHandler, vars, EventKinds
  <2>2. CASE ControllerStep
    BY <2>2 DEF ControllerStep, Get, CheckExpectations, Lookup, Claim, Manage, BeginEvent,
                CreateOk, CreateFails, UpdateStatus, DoneFailed, EventKinds
  <2>3. CASE ClusterStep
    BY <2>3 DEF ClusterStep, PodSucceeds, PodFails, PodDeleted, PodRemoved,
                GarbageCollect, UserUpdate, UserDelete, JobFinalized, Recreate,
                ExpectationExpires, Crash, EventKinds
  <2> QED
    BY <2>1, <2>2, <2>3 DEF Next
<1> QED
  BY <1>1 DEF Spend, TypeInv, TypeOK

LEMMA NoCrashNow == NoCrash => ~Crash
BY DEF NoCrash, Crash, Spend

LEMMA NoCrashKept == TypeInv /\ NoCrash /\ [Next]_vars => NoCrash'
BY BudgetSpent DEF NoCrash, EventKinds

\* Removals are final.
LEMMA RemovalsKept ==
    ASSUME TypeInv, ~Crash, [Next]_vars, NEW o \in Objs, Created(o)
    PROVE  /\ store[o].deleting => store'[o].deleting
           /\ store[o].st = "gone" => store'[o].st = "gone"
<1>1. store[o] \in Object /\ store \in [Objs -> Object]
  BY DEF TypeInv, TypeOK
<1>2. CASE store' = store
  BY <1>2
<1>3. ASSUME NEW s \in Slots, Claim(s)
      PROVE  store'[o].deleting = store[o].deleting /\ store'[o].st = store[o].st
  <2>1. PICK F : store' = Patched(s, F)
    BY <1>3 DEF Claim
  <2>2. store'[o] = store[o] \/ \E u : store'[o] = [store[o] EXCEPT !.owner = u]
    BY <2>1 DEF Patched
  <2> QED
    BY <1>1, <2>2 DEF Object
<1>4. ASSUME NEW n \in Objs, Create(n)
      PROVE  store'[o] = store[o]
  BY <1>1, <1>4 DEF Create, Created
<1>5. CASE PodChanges
  BY <1>5 DEF PodChanges
<1> QED
  BY <1>2, <1>3, <1>4, <1>5, Steps
  DEF Bystands, JobDelivered, JobWritten, SyncStarts, SyncEnds, ObjCatchUp, Lookup, Manage,
      BeginEvent, CreateOk, CreateFails, UpdateStatus, serverVars

LEMMA CacheSteps ==
    ASSUME TypeInv, ~Crash, [Next]_vars
    PROVE  \/ cache' = cache
           \/ \E o \in Objs : /\ cache' = [cache EXCEPT ![o] = store[o]]
                              /\ UNCHANGED <<serverVars, jobCache, jobStale, sync>>
BY Steps
DEF Bystands, PodChanges, JobDelivered, JobWritten, SyncStarts, SyncEnds, ObjCatchUp, Lookup,
    Claim, Manage, BeginEvent, CreateOk, CreateFails, UpdateStatus, cacheVars

LEMMA RemovalsFaithfulKept ==
    ASSUME TypeInv, ~Crash, CacheFaithful, RemovalsFaithful, [Next]_vars
    PROVE  RemovalsFaithful'
<1>1. CASE cache' = cache
  BY <1>1, RemovalsKept DEF RemovalsFaithful, CacheFaithful
<1>2. ASSUME NEW o \in Objs, cache' = [cache EXCEPT ![o] = store[o]], UNCHANGED serverVars
      PROVE  RemovalsFaithful'
  BY <1>2 DEF RemovalsFaithful, serverVars, TypeInv, TypeOK
<1> QED
  BY <1>1, <1>2, CacheSteps

\* A living cache forgets nothing.
LEMMA CacheGrows ==
    ASSUME TypeInv, ~Crash, CacheFaithful, [Next]_vars, NEW o \in Objs, cache[o].st # "none"
    PROVE  /\ cache'[o].st # "none"
           /\ cache'[o].slot = cache[o].slot /\ cache'[o].rid = cache[o].rid
           /\ cache[o].phase = "Succeeded" => cache'[o].phase = "Succeeded"
<1>1. CASE cache' = cache
  BY <1>1
<1>2. ASSUME NEW p \in Objs, cache' = [cache EXCEPT ![p] = store[p]]
      PROVE  cache'[o] \in {cache[o], store[o]}
  BY <1>2 DEF TypeInv, TypeOK
<1> QED
  BY <1>1, <1>2, CacheSteps DEF CacheFaithful, Created

LEMMA ClaimedSteps ==
    ASSUME TypeInv, ~Crash, [Next]_vars
    PROVE  \/ sync'.claimed["workerPods"] = {}
           \/ sync'.claimed = sync.claimed
           \/ \E s \in Slots : Claim(s)
<1>1. sync \in Sync
  BY DEF TypeInv, TypeOK
<1>2. sync' = Idle => sync'.claimed["workerPods"] = {}
  BY DEF Idle, AllSlots
<1>3. CASE Bystands \/ PodChanges \/ JobDelivered \/ JobWritten \/ SyncStarts \/ SyncEnds
           \/ (\E o \in Objs : ObjCatchUp(o))
  BY <1>1, <1>2, <1>3
  DEF Bystands, PodChanges, JobDelivered, Detached, JobWritten, WriteJob, SyncStarts, SyncEnds,
      DoneFailed, ObjCatchUp, Sync
<1>4. CASE Lookup \/ Manage \/ (\E s \in Slots : BeginEvent(s))
  BY <1>1, <1>2, <1>4 DEF Lookup, Manage, BeginEvent, Sync
<1>5. CASE CreateOk \/ CreateFails \/ UpdateStatus
  BY <1>1, <1>2, <1>5 DEF CreateOk, CreateFails, NextIndex, UpdateStatus, Sync
<1> QED
  BY <1>3, <1>4, <1>5, Steps

\* What a pass does with the claims.
LEMMA PassClaims ==
    ASSUME TypeInv, NEW s \in Slots, Claim(s)
    PROVE  LET new == {[obj |-> o, phase |-> cache[o].phase, deleting |-> cache[o].deleting]
                         : o \in {o \in ListedFor(s) : \/ Verdict(o, s) = "claim"
                                                       \/ Verdict(o, s) = "adopt" /\ Live(o)}}
           IN  \/ sync' = [sync EXCEPT !.pc = "failed"]
               \/ sync' = [sync EXCEPT !.todo = @ \ {s}, !.claimed[s] = new,
                                       !.pc = IF sync.todo = {s} THEN "manage" ELSE "claim"]
<1> DEFINE adopting == {o \in ListedFor(s) : Verdict(o, s) = "adopt"}
           mine == {o \in ListedFor(s) : Verdict(o, s) = "claim"}
                      \cup {o \in adopting : Live(o)}
           mine2 == {o \in ListedFor(s) : \/ Verdict(o, s) = "claim"
                                          \/ Verdict(o, s) = "adopt" /\ Live(o)}
           N(m) == {[obj |-> o, phase |-> cache[o].phase, deleting |-> cache[o].deleting]
                       : o \in m}
<1>1. mine = mine2
  OBVIOUS
<1>2. \/ sync' = [sync EXCEPT !.pc = "failed"]
      \/ sync' = [sync EXCEPT !.todo = @ \ {s}, !.claimed[s] = N(mine),
                              !.pc = IF sync.todo = {s} THEN "manage" ELSE "claim"]
  BY DEF Claim
<1> HIDE DEF mine, mine2
<1>3. \/ sync' = [sync EXCEPT !.pc = "failed"]
      \/ sync' = [sync EXCEPT !.todo = @ \ {s}, !.claimed[s] = N(mine2),
                              !.pc = IF sync.todo = {s} THEN "manage" ELSE "claim"]
  BY <1>1, <1>2
<1> QED
  BY <1>3 DEF mine2

LEMMA ClaimsCachedKept ==
    ASSUME TypeInv, ~Crash, CacheFaithful, ClaimsFaithful, ClaimsCached, [Next]_vars
    PROVE  ClaimsCached'
<1>1. sync \in Sync
  BY DEF TypeInv, TypeOK
<1>2. CASE sync'.claimed["workerPods"] = {}
  BY <1>2 DEF ClaimsCached
<1>3. CASE sync'.claimed["workerPods"] = sync.claimed["workerPods"]
  <2>1. \A c \in sync.claimed["workerPods"] : c.obj \in Objs
    BY <1>1 DEF Sync, AllSlots, ClaimedObj
  <2> QED
    BY <1>3, <2>1, CacheGrows DEF ClaimsCached
<1>4. ASSUME NEW s \in Slots, Claim(s)
      PROVE  ClaimsCached'
  <2> DEFINE mine == {o \in ListedFor(s) : \/ Verdict(o, s) = "claim"
                                           \/ Verdict(o, s) = "adopt" /\ Live(o)}
             new == {[obj |-> o, phase |-> cache[o].phase, deleting |-> cache[o].deleting]
                        : o \in mine}
  <2>1. \/ sync' = [sync EXCEPT !.pc = "failed"]
        \/ sync' = [sync EXCEPT !.todo = @ \ {s}, !.claimed[s] = new,
                                !.pc = IF sync.todo = {s} THEN "manage" ELSE "claim"]
    BY <1>4, PassClaims
  <2>2. cache' = cache
    BY <1>4 DEF Claim, cacheVars
  <2>3. \A c \in new : cache[c.obj].st # "none" /\ c.phase = cache[c.obj].phase
    BY DEF ListedFor
  <2> HIDE DEF new
  <2>4. sync'.claimed \in {sync.claimed, [sync.claimed EXCEPT ![s] = new]}
    BY <1>1, <2>1 DEF Sync
  <2>5. "workerPods" \in DOMAIN sync.claimed
    BY <1>1 DEF Sync, AllSlots
  <2> QED
    BY <1>3, <2>2, <2>3, <2>4, <2>5 DEF ClaimsCached
<1> QED
  BY <1>2, <1>3, <1>4, ClaimedSteps

-----------------------------------------------------------------------------
(***************************************************************************)
(* A RuntimeID belongs to one incarnation of the TFJob.                    *)
(***************************************************************************)
Lived(j) == j.rid = 0 \/ \E k \in Copies : j.rid = k.rid /\ j.uid = k.uid
OwnerFitsNext(r) == \A j \in Copies' : r.rid = j.rid => r.owner \in {0, j.uid}

\* Copies that are made of copies change nothing.
LEMMA LivesGoOn ==
    ASSUME OneLife, \A j \in Copies' : Lived(j)
    PROVE  OneLife' /\ \A r : r.rid # 0 /\ OwnerFits(r) => OwnerFitsNext(r)
BY DEF OneLife, Lived, OwnerFits, OwnerFitsNext

\* The calls of a sync leave the TFJob it works on alone.
LEMMA CallsKeepJob ==
    ASSUME TypeInv,
           (\E s \in Slots : Claim(s)) \/ (\E s \in Slots : BeginEvent(s)) \/ CreateOk \/ CreateFails
    PROVE  sync'.job = sync.job /\ sync'.oldRV = sync.oldRV /\ sync'.attached = sync.attached
<1> sync \in Sync
  BY DEF TypeInv, TypeOK
<1>1. ASSUME NEW s \in Slots, Claim(s)
      PROVE  sync'.job = sync.job /\ sync'.oldRV = sync.oldRV /\ sync'.attached = sync.attached
  <2> DEFINE mine == {o \in ListedFor(s) : \/ Verdict(o, s) = "claim"
                                           \/ Verdict(o, s) = "adopt" /\ Live(o)}
             new == {[obj |-> o, phase |-> cache[o].phase, deleting |-> cache[o].deleting]
                        : o \in mine}
  <2>1. \/ sync' = [sync EXCEPT !.pc = "failed"]
        \/ sync' = [sync EXCEPT !.todo = @ \ {s}, !.claimed[s] = new,
                                !.pc = IF sync.todo = {s} THEN "manage" ELSE "claim"]
    BY <1>1, PassClaims
  <2> HIDE DEF new
  <2> QED
    BY <2>1 DEF Sync
<1>2. ASSUME NEW s \in Slots, BeginEvent(s)
      PROVE  sync'.job = sync.job /\ sync'.oldRV = sync.oldRV /\ sync'.attached = sync.attached
  BY <1>2 DEF BeginEvent, Sync
<1>3. CASE CreateOk
  BY <1>3 DEF CreateOk, NextIndex, Sync
<1>4. CASE CreateFails
  <2>1. sync' \in {[sync EXCEPT !.pc = "failed"], NextIndex}
    BY <1>4 DEF CreateFails
  <2> QED
    BY <2>1 DEF NextIndex, Sync
<1> QED
  BY <1>1, <1>2, <1>3, <1>4

\* compose is the only step that makes a RuntimeID.
LEMMA CopiesSteps ==
    ASSUME TypeInv, ~Crash, [Next]_vars, ~Manage
    PROVE  \A j \in Copies' : Lived(j)
<1>1. sync \in Sync /\ job \in Job /\ sync.job \in Job
  BY DEF TypeInv, TypeOK, Sync
<1>2. NoJob.rid = 0 /\ Idle.job = NoJob
  BY DEF NoJob, NewJob, Idle
<1>3. UpdatedJob.rid = sync.job.rid /\ UpdatedJob.uid = sync.job.uid
  BY <1>1 DEF UpdatedJob, Job
<1>4. CASE Bystands \/ PodChanges \/ JobDelivered \/ SyncStarts \/ (\E o \in Objs : ObjCatchUp(o))
  <2>1. {job', jobCache', sync'.job} \subseteq {job, jobCache, sync.job}
    BY <1>1, <1>4 DEF Bystands, PodChanges, JobDelivered, Detached, SyncStarts, ObjCatchUp,
                      serverVars, Sync
  <2> QED
    BY <2>1 DEF Copies, Lived
<1>5. CASE JobWritten
  <2>1. jobCache' = jobCache /\ sync'.job = sync.job
    BY <1>1, <1>5 DEF JobWritten, WriteJob, Sync
  <2>2. job'.rid = 0 \/ (job'.rid = job.rid /\ job'.uid = job.uid)
    BY <1>1, <1>5 DEF JobWritten, WriteJob, Job
  <2> QED
    BY <2>1, <2>2 DEF Copies, Lived
<1>6. CASE SyncEnds \/ Lookup
  <2>1. job' = job /\ jobCache' = jobCache /\ sync'.job \in {NoJob, jobCache}
    BY <1>1, <1>2, <1>6 DEF SyncEnds, DoneFailed, Lookup, serverVars, cacheVars, Sync
  <2> QED
    BY <1>2, <2>1 DEF Copies, Lived
<1>7. CASE (\E s \in Slots : Claim(s)) \/ (\E s \in Slots : BeginEvent(s)) \/ CreateOk \/ CreateFails
  <2>1. job' = job /\ jobCache' = jobCache
    BY <1>7 DEF Claim, BeginEvent, CreateOk, CreateFails, serverVars, cacheVars
  <2> QED
    BY <1>1, <1>7, <2>1, CallsKeepJob DEF Copies, Lived
<1>8. CASE UpdateStatus
  <2>1. /\ job' \in {job, UpdatedJob} /\ jobCache' \in {jobCache, UpdatedJob}
        /\ sync'.job \in {NoJob, sync.job}
    BY <1>1, <1>2, <1>8 DEF UpdateStatus, CacheWrite, Sync
  <2> QED
    BY <1>2, <1>3, <2>1 DEF Copies, Lived
<1> QED
  BY <1>4, <1>5, <1>6, <1>7, <1>8, Steps

LEMMA OwnersKept ==
    ASSUME CacheFaithful, WorkersOwned, cache' = cache,
           \A o \in Objs : Kept(o) /\ store'[o].owner = store[o].owner,
           \A r : r.rid # 0 /\ OwnerFits(r) => OwnerFitsNext(r)
    PROVE  WorkersOwned'
<1> SUFFICES ASSUME NEW o \in Objs, WorkerPod(o)'
             PROVE  /\ store'[o].rid # 0
                    /\ OwnerFitsNext(store'[o])
                    /\ cache'[o].st # "none" => OwnerFitsNext(cache'[o])
  BY DEF WorkersOwned, OwnerFits, OwnerFitsNext
<1>1. WorkerPod(o) /\ store'[o].rid = store[o].rid /\ store'[o].owner = store[o].owner
  BY DEF WorkerPod, Created, Kept
<1>2. OwnerFitsNext(store[o])
  BY <1>1 DEF WorkersOwned
<1>3. cache[o].st # "none" => OwnerFitsNext(cache[o])
  BY <1>1 DEF WorkersOwned, CacheFaithful
<1> QED
  BY <1>1, <1>2, <1>3 DEF WorkersOwned, OwnerFitsNext

\* An adoption is made for the incarnation that drew the RuntimeID.
LEMMA ClaimOwners ==
    ASSUME TypeInv, CacheFaithful, OneLife, WorkersOwned, NEW s \in Slots, Claim(s)
    PROVE  WorkersOwned'
<1>1. store \in [Objs -> Object] /\ sync \in Sync
  BY DEF TypeInv, TypeOK
<1>2. PICK F : store' = Patched(s, F)
  BY DEF Claim
<1>3. job' = job /\ jobCache' = jobCache /\ sync'.job = sync.job /\ cache' = cache
  BY <1>1 DEF Claim, cacheVars, Sync
<1>4. Copies' = Copies
  BY <1>3 DEF Copies
<1>5. SUFFICES ASSUME NEW o \in Objs, WorkerPod(o)'
               PROVE  store'[o].rid # 0 /\ OwnerFits(store'[o])
                      /\ (cache[o].st # "none" => OwnerFits(cache[o]))
  BY <1>3, <1>4 DEF WorkersOwned, OwnerFits
<1>6. Kept(o)
  BY ClaimKeeps
<1>7. WorkerPod(o) /\ store'[o].rid = store[o].rid /\ store[o].rid # 0
  <2>1. WorkerPod(o) /\ store'[o].rid = store[o].rid
    BY <1>5, <1>6 DEF WorkerPod, Created, Kept
  <2> QED
    BY <2>1 DEF WorkersOwned
<1>8. OwnerFits(store[o]) /\ (cache[o].st # "none" => OwnerFits(cache[o]))
  BY <1>7 DEF WorkersOwned
<1>9. \/ store'[o] = store[o]
      \/ store'[o] = [store[o] EXCEPT !.owner = 0]
      \/ /\ store'[o] = [store[o] EXCEPT !.owner = sync.job.uid]
         /\ o \in ListedFor(s) /\ Verdict(o, s) = "adopt"
  BY <1>2 DEF Patched
<1>10. \/ store'[o].owner = store[o].owner
       \/ store'[o].owner = 0
       \/ /\ store'[o].owner = sync.job.uid
          /\ o \in ListedFor(s) /\ Verdict(o, s) = "adopt"
  BY <1>1, <1>9 DEF Object
<1>11. CASE store'[o].owner = sync.job.uid /\ o \in ListedFor(s) /\ Verdict(o, s) = "adopt"
  <2>1. store[o].rid = sync.job.rid
    BY <1>11 DEF Verdict, ClaimObject, Matches, ListedFor, CacheFaithful
  <2>2. \A j \in Copies : store[o].rid = j.rid => j.uid = sync.job.uid
    BY <1>7, <2>1 DEF OneLife, Copies
  <2> QED
    BY <1>7, <1>8, <1>11, <2>2 DEF OwnerFits
<1> QED
  BY <1>7, <1>8, <1>10, <1>11 DEF OwnerFits

LEMMA CreateOwners ==
    ASSUME TypeInv, CacheFaithful, LivesInv, CreateOk \/ CreateFails
    PROVE  WorkersOwned'
<1>1. store \in [Objs -> Object] /\ sync \in Sync
  BY DEF TypeInv, TypeOK
<1>2. job' = job /\ jobCache' = jobCache /\ sync'.job = sync.job /\ cache' = cache
  BY <1>1 DEF CreateOk, CreateFails, NextIndex, cacheVars, Sync
<1>3. Copies' = Copies
  BY <1>2 DEF Copies
<1>4. CASE store' = store
  BY <1>2, <1>3, <1>4 DEF LivesInv, WorkersOwned, OwnerFits, WorkerPod, Created
<1>5. ASSUME NEW n \in Objs, Create(n), sync.pc = "create"
      PROVE  WorkersOwned'
  <2>1. /\ \A o \in Objs : o # n => store'[o] = store[o]
        /\ store[n].st = "none" /\ store'[n].slot = sync.slot
        /\ store'[n].rid = sync.job.rid /\ store'[n].owner = sync.job.uid
    BY <1>1, <1>5 DEF Create, NewObj, NoObj
  <2>2. cache[n].st = "none"
    BY <2>1 DEF CacheFaithful, Created
  <2>3. SUFFICES ASSUME sync.slot = "workerPods"
                 PROVE  store'[n].rid # 0 /\ OwnerFits(store'[n])
    BY <1>2, <1>3, <2>1, <2>2 DEF LivesInv, WorkersOwned, OwnerFits, WorkerPod, Created
  <2>4. sync.job.rid # 0
    BY <1>5, <2>3 DEF LivesInv, ComposedFirst
  <2>5. \A j \in Copies : sync.job.rid = j.rid => j.uid = sync.job.uid
    BY <2>4 DEF LivesInv, OneLife, Copies
  <2> QED
    BY <2>1, <2>4, <2>5 DEF OwnerFits
<1> QED
  BY <1>4, <1>5 DEF CreateOk, CreateFails

\* A new RuntimeID has no pods yet.
LEMMA ManageLives ==
    ASSUME TypeInv, RidsDrawn, CacheFaithful, LivesInv, Manage
    PROVE  OneLife' /\ WorkersOwned'
<1> DEFINE due == IF sync.needsSync /\ ~sync.job.deleting THEN Due(Counts, Succeeded) ELSE {}
           r == RuntimeID(sync.job, due)
           j == [sync.job EXCEPT !.rid = r]
           num == [s \in AllSlots |-> IF s \in due THEN Number(s, Counts, Succeeded) ELSE 0]
<1>1. /\ CacheWrite(j) /\ job' = job /\ store' = store /\ cache' = cache
      /\ sync' = [sync EXCEPT !.pc = AfterEvent(due), !.due = due, !.job = j, !.num = num]
  BY DEF Manage
<1>2. r = IF "workerPods" \in due THEN lastRid + 1 ELSE sync.job.rid
  BY DEF RuntimeID, Composes
<1> HIDE DEF due, r, num
<1>3. j.rid = r /\ j.uid = sync.job.uid
  BY DEF TypeInv, TypeOK, Sync, Job
<1> HIDE DEF j
<1>4. sync'.job = j /\ jobCache' \in {jobCache, j}
  BY <1>1 DEF CacheWrite, TypeInv, TypeOK, Sync
<1>5. CASE r = sync.job.rid
  <2>1. \A k \in Copies' : Lived(k)
    BY <1>1, <1>3, <1>4, <1>5 DEF Copies, Lived
  <2>2. \A o \in Objs : Kept(o)
    BY <1>1 DEF Kept
  <2> QED
    BY <1>1, <2>1, <2>2, LivesGoOn, OwnersKept DEF LivesInv
<1>6. CASE r = lastRid + 1
  <2>1. job.rid < r /\ jobCache.rid < r /\ \A o \in Objs : store[o].rid < r
    BY <1>6, RidsTyped DEF RidsDrawn
  <2>2. r \in Nat /\ job.rid \in Nat /\ jobCache.rid \in Nat /\ \A o \in Objs : store[o].rid \in Nat
    BY <1>6, RidsTyped
  <2>3. OneLife'
    BY <1>1, <1>3, <1>4, <2>1, <2>2 DEF LivesInv, OneLife, Copies
  <2>4. \A q : q.rid # r /\ OwnerFits(q) => OwnerFitsNext(q)
    BY <1>1, <1>3, <1>4 DEF OwnerFits, OwnerFitsNext, Copies
  <2>5. \A o \in Objs : store[o].rid # r /\ (cache[o].st # "none" => cache[o].rid # r)
    BY <2>1, <2>2 DEF CacheFaithful
  <2>6. WorkersOwned'
    <3> SUFFICES ASSUME NEW o \in Objs, WorkerPod(o)
                 PROVE  /\ store[o].rid # 0 /\ OwnerFitsNext(store[o])
                        /\ cache[o].st # "none" => OwnerFitsNext(cache[o])
      BY <1>1 DEF WorkersOwned, OwnerFits, OwnerFitsNext, WorkerPod, Created
    <3> QED
      BY <2>4, <2>5 DEF LivesInv, WorkersOwned
  <2> QED
    BY <2>3, <2>6
<1> QED
  BY <1>2, <1>5, <1>6

LEMMA CatchUpOwners ==
    ASSUME TypeInv, WorkersOwned, NEW n \in Objs, ObjCatchUp(n)
    PROVE  WorkersOwned'
<1>1. /\ UNCHANGED <<job, jobCache, sync, store>>
      /\ cache' = [cache EXCEPT ![n] = store[n]] /\ cache \in [Objs -> Object]
  BY DEF ObjCatchUp, serverVars, TypeInv, TypeOK
<1>2. Copies' = Copies
  BY <1>1 DEF Copies
<1>3. \A o \in Objs : cache'[o] \in {cache[o], store[o]} /\ (o # n => cache'[o] = cache[o])
  BY <1>1
<1> QED
  BY <1>1, <1>2, <1>3 DEF WorkersOwned, OwnerFits, WorkerPod, Created

\* The worker pods are due, or created, only after compose.
LEMMA ComposedFirstKept ==
    ASSUME TypeInv, ~Crash, IndexInv, ComposedFirst, [Next]_vars
    PROVE  ComposedFirst'
<1>1. sync \in Sync
  BY DEF TypeInv, TypeOK
<1>2. CASE sync'.due = {} /\ sync'.pc # "create"
  BY <1>2 DEF ComposedFirst
<1>3. CASE /\ sync'.job = sync.job /\ sync'.due \subseteq sync.due
           /\ sync'.pc = "create" => \/ sync.pc = "create" /\ sync'.slot = sync.slot
                                     \/ sync'.slot \in sync.due
  BY <1>3 DEF ComposedFirst
<1>4. CASE Bystands \/ PodChanges \/ JobDelivered \/ JobWritten \/ SyncStarts
           \/ (\E o \in Objs : ObjCatchUp(o))
  <2>1. sync'.job = sync.job /\ sync'.due = sync.due
    BY <1>1, <1>4 DEF Bystands, PodChanges, JobDelivered, Detached, JobWritten, WriteJob,
                      SyncStarts, ObjCatchUp, Sync
  <2>2. sync'.pc = "create" => sync.pc = "create" /\ sync'.slot = sync.slot
    BY <1>1, <1>4 DEF Bystands, PodChanges, JobDelivered, Detached, JobWritten, WriteJob,
                      SyncStarts, ObjCatchUp, Sync
  <2> QED
    BY <1>3, <2>1, <2>2
<1>9. ASSUME NEW s \in Slots, Claim(s)
      PROVE  ComposedFirst'
  <2> DEFINE mine == {o \in ListedFor(s) : \/ Verdict(o, s) = "claim"
                                           \/ Verdict(o, s) = "adopt" /\ Live(o)}
             new == {[obj |-> o, phase |-> cache[o].phase, deleting |-> cache[o].deleting]
                        : o \in mine}
  <2>1. \/ sync' = [sync EXCEPT !.pc = "failed"]
        \/ sync' = [sync EXCEPT !.todo = @ \ {s}, !.claimed[s] = new,
                                !.pc = IF sync.todo = {s} THEN "manage" ELSE "claim"]
    BY <1>9, PassClaims
  <2> HIDE DEF new
  <2>2. sync'.due = sync.due /\ sync'.pc # "create"
    BY <1>1, <2>1 DEF Sync
  <2>3. sync'.job = sync.job
    BY <1>9, CallsKeepJob
  <2> QED
    BY <1>3, <2>2, <2>3
<1>5. CASE SyncEnds \/ Lookup \/ UpdateStatus
  <2>1. Idle.due = {} /\ Idle.pc = "idle"
    BY DEF Idle
  <2>2. \/ sync' = Idle
        \/ sync.due = {} /\ sync'.due = sync.due /\ sync'.pc \in {"claim", "failed"}
    BY <1>1, <1>5 DEF SyncEnds, DoneFailed, Lookup, UpdateStatus, IndexInv, DuePhase, Sync
  <2> QED
    BY <1>2, <2>1, <2>2
<1>6. CASE Manage
  <2> DEFINE due == IF sync.needsSync /\ ~sync.job.deleting THEN Due(Counts, Succeeded) ELSE {}
             r == RuntimeID(sync.job, due)
             j == [sync.job EXCEPT !.rid = r]
             num == [s \in AllSlots |-> IF s \in due THEN Number(s, Counts, Succeeded) ELSE 0]
  <2>1. sync' = [sync EXCEPT !.pc = AfterEvent(due), !.due = due, !.job = j, !.num = num]
    BY <1>6 DEF Manage
  <2>2. "workerPods" \in due => r # 0
    BY RidsTyped DEF RuntimeID, Composes
  <2> HIDE DEF due, r, num
  <2>3. j.rid = r
    BY <1>1 DEF Sync, Job
  <2> HIDE DEF j
  <2>4. sync'.job = j /\ sync'.due = due /\ sync'.pc # "create"
    BY <1>1, <2>1 DEF AfterEvent, Sync
  <2> QED
    BY <2>2, <2>3, <2>4 DEF ComposedFirst
<1>7. ASSUME NEW s \in Slots, BeginEvent(s)
      PROVE  ComposedFirst'
  <2>1. sync'.job = sync.job /\ sync'.due = sync.due \ {s} /\ sync'.slot = s /\ s \in sync.due
    BY <1>1, <1>7 DEF BeginEvent, Sync
  <2> QED
    BY <1>3, <2>1
<1>8. CASE CreateOk \/ CreateFails
  <2>1. /\ sync'.job = sync.job /\ sync'.due = sync.due /\ sync'.slot = sync.slot
        /\ sync.pc = "create"
    BY <1>1, <1>8 DEF CreateOk, CreateFails, NextIndex, Sync
  <2> QED
    BY <1>3, <2>1
<1> QED
  BY <1>4, <1>5, <1>6, <1>7, <1>8, <1>9, Steps

LEMMA LivesKept ==
    ASSUME TypeInv, ~Crash, IndexInv, CacheFaithful, LivesInv, [Next]_vars
    PROVE  LivesInv'
<1>1. ComposedFirst'
  BY ComposedFirstKept DEF LivesInv
<1>2. CASE Manage
  BY <1>1, <1>2, ManageLives DEF LivesInv, IndexInv
<1>3. CASE ~Manage
  <2>1. /\ OneLife'
        /\ \A r : r.rid # 0 /\ OwnerFits(r) => OwnerFitsNext(r)
    BY <1>3, CopiesSteps, LivesGoOn DEF LivesInv
  <2>2. WorkersOwned'
    <3>1. ASSUME cache' = cache, \A o \in Objs : Kept(o) /\ store'[o].owner = store[o].owner
          PROVE  WorkersOwned'
      BY <2>1, <3>1, OwnersKept DEF LivesInv
    <3>2. CASE \E s \in Slots : Claim(s)
      BY <3>2, ClaimOwners DEF LivesInv
    <3>3. CASE CreateOk \/ CreateFails
      BY <3>3, CreateOwners
    <3>4. CASE \E n \in Objs : ObjCatchUp(n)
      BY <3>4, CatchUpOwners DEF LivesInv
    <3>5. CASE PodChanges
      BY <3>1, <3>5 DEF PodChanges
    <3>6. CASE Bystands \/ JobDelivered \/ JobWritten \/ SyncStarts \/ SyncEnds \/ Lookup
               \/ (\E s \in Slots : BeginEvent(s)) \/ UpdateStatus
      <4>1. store' = store /\ cache' = cache
        BY <3>6 DEF Bystands, JobDelivered, JobWritten, SyncStarts, SyncEnds, Lookup,
                    BeginEvent, UpdateStatus, serverVars, cacheVars
      <4> QED
        BY <3>1, <4>1 DEF Kept
    <3> QED
      BY <1>3, <3>2, <3>3, <3>4, <3>5, <3>6, Steps
  <2> QED
    BY <1>1, <2>1, <2>2 DEF LivesInv
<1> QED
  BY <1>2, <1>3

-----------------------------------------------------------------------------
(***************************************************************************)
(* A sync that the server would let write has read what the server has.    *)
(***************************************************************************)
LEMMA UpdatedFields ==
    ASSUME TypeInv
    PROVE  /\ UpdatedJob.uid = sync.job.uid /\ UpdatedJob.rid = sync.job.rid
           /\ UpdatedJob.deleting = sync.job.deleting /\ UpdatedJob.phase = UpdatedPhase
BY DEF UpdatedJob, TypeInv, TypeOK, Sync, Job

\* What Manage does to the copies of the TFJob.
LEMMA ManageFields ==
    ASSUME TypeInv, Manage
    PROVE  /\ sync.pc = "manage" /\ sync'.pc \in {"update", "events"}
           /\ sync'.claimed = sync.claimed /\ sync'.todo = sync.todo
           /\ sync'.attached = sync.attached /\ sync'.oldRV = sync.oldRV
           /\ sync'.job.uid = sync.job.uid /\ sync'.job.deleting = sync.job.deleting
           /\ jobCache' = IF sync.attached THEN sync'.job ELSE jobCache
           /\ UNCHANGED <<job, store, jobStale, cache>>
           /\ Succeeded >= WorkerReplicas =>
                 sync'.job.rid = sync.job.rid /\ "workerPods" \notin sync'.due
<1> DEFINE due == IF sync.needsSync /\ ~sync.job.deleting THEN Due(Counts, Succeeded) ELSE {}
           r == RuntimeID(sync.job, due)
           j == [sync.job EXCEPT !.rid = r]
           num == [s \in AllSlots |-> IF s \in due THEN Number(s, Counts, Succeeded) ELSE 0]
<1>1. /\ CacheWrite(j) /\ UNCHANGED <<job, store, jobStale, cache>> /\ sync.pc = "manage"
      /\ sync' = [sync EXCEPT !.pc = AfterEvent(due), !.due = due, !.job = j, !.num = num]
  BY DEF Manage
<1>2. "workerPods" \in due => Succeeded < WorkerReplicas
  BY DueTooFew
<1>3. "workerPods" \notin due => r = sync.job.rid
  BY DEF RuntimeID, Composes
<1> HIDE DEF due, r, num
<1>4. sync \in Sync /\ j.rid = r /\ j.uid = sync.job.uid /\ j.deleting = sync.job.deleting
  BY DEF TypeInv, TypeOK, Sync, Job
<1> HIDE DEF j
<1>5. /\ sync'.job = j /\ sync'.due = due /\ sync'.pc \in {"update", "events"}
      /\ sync'.claimed = sync.claimed /\ sync'.todo = sync.todo
      /\ sync'.attached = sync.attached /\ sync'.oldRV = sync.oldRV
  BY <1>1, <1>4 DEF AfterEvent, Sync
<1>6. Succeeded \in Nat /\ WorkerReplicas \in Nat
  BY CountsTyped
<1> QED
  BY <1>1, <1>2, <1>3, <1>4, <1>5, <1>6 DEF CacheWrite

LEMMA VersionKept ==
    ASSUME TypeInv, ~Crash, VersionInv, [Next]_vars
    PROVE  VersionInv'
<1>1. sync \in Sync
  BY DEF TypeInv, TypeOK
<1>2. CASE Bystands \/ PodChanges \/ (\E o \in Objs : ObjCatchUp(o))
  <2>1. UNCHANGED <<job, jobCache, jobStale, sync>>
    BY <1>2 DEF Bystands, PodChanges, ObjCatchUp, serverVars
  <2> QED
    BY <2>1 DEF VersionInv, Active, SameJob
<1>3. CASE JobDelivered
  <2>1. /\ sync'.pc = sync.pc /\ sync'.job = sync.job /\ sync'.oldRV = sync.oldRV
        /\ sync'.attached = FALSE
    BY <1>1, <1>3 DEF JobDelivered, Detached, Sync
  <2> QED
    BY <1>3, <2>1 DEF JobDelivered, VersionInv, Active, SameJob
<1>4. CASE JobWritten
  <2>1. /\ sync'.pc = sync.pc /\ sync'.job = sync.job /\ sync'.oldRV = (sync.job.uid # 0)
        /\ jobStale' = TRUE
    BY <1>1, <1>4 DEF JobWritten, WriteJob, Sync
  <2> QED
    BY <2>1 DEF VersionInv, Active
<1>5. CASE SyncStarts \/ SyncEnds
  <2>1. UNCHANGED <<job, jobCache, jobStale>> /\ sync'.pc \in {"idle", "check", "lookup"}
    BY <1>5 DEF SyncStarts, SyncEnds, DoneFailed, Idle
  <2> QED
    BY <2>1 DEF VersionInv, Active, SameJob
<1>6. CASE Lookup
  <2>1. UNCHANGED <<job, jobCache, jobStale>>
    BY <1>6 DEF Lookup, serverVars, cacheVars
  <2>2. CASE sync' = Idle
    <3>1. ~Active'
      BY <2>2 DEF Active, Idle
    <3> QED
      BY <2>1, <3>1 DEF VersionInv, SameJob
  <2>3. CASE /\ jobCache.uid # 0
             /\ sync' = [sync EXCEPT !.pc = "claim", !.job = jobCache, !.attached = TRUE,
                                     !.oldRV = jobStale, !.todo = Slots]
    <3>1. sync'.job = jobCache /\ sync'.oldRV = jobStale
      BY <1>1, <2>3 DEF Sync
    <3> QED
      BY <2>1, <2>3, <3>1 DEF VersionInv, SameJob
  <2> QED
    BY <1>6, <2>2, <2>3 DEF Lookup
<1>7. CASE (\E s \in Slots : Claim(s)) \/ (\E s \in Slots : BeginEvent(s)) \/ CreateOk \/ CreateFails
  <2>1. UNCHANGED <<job, jobCache, jobStale>> /\ Active
    BY <1>7 DEF Claim, BeginEvent, CreateOk, CreateFails, Active, serverVars, cacheVars
  <2>2. sync'.job = sync.job /\ sync'.oldRV = sync.oldRV /\ sync'.attached = sync.attached
    BY <1>7, CallsKeepJob
  <2> QED
    BY <2>1, <2>2 DEF VersionInv, SameJob
<1>8. CASE Manage
  BY <1>8, ManageFields DEF VersionInv, SameJob, Active
<1>9. CASE UpdateStatus
  <2>1. sync.pc = "update" /\ sync'.pc \in {"idle", "failed"}
    BY <1>1, <1>9 DEF UpdateStatus, Idle, Sync
  <2>2. \/ job' = job /\ jobStale' = jobStale
        \/ job' = UpdatedJob /\ ~sync.oldRV /\ jobStale' = (jobStale \/ job # UpdatedJob)
    BY <1>9 DEF UpdateStatus
  <2>3. jobCache' = jobCache \/ (jobCache' = UpdatedJob /\ sync.attached)
    BY <1>9 DEF UpdateStatus, CacheWrite
  <2> QED
    BY <2>1, <2>2, <2>3, UpdatedFields DEF VersionInv, SameJob, Active
<1> QED
  BY <1>2, <1>3, <1>4, <1>5, <1>6, <1>7, <1>8, <1>9, Steps

-----------------------------------------------------------------------------
(***************************************************************************)
(* The pods that make a success stay in the cache.                         *)
(***************************************************************************)
CachedDoneNext(r) == {o \in Objs : /\ cache'[o].st # "none"
                                   /\ cache'[o].slot = "workerPods" /\ cache'[o].rid = r
                                   /\ cache'[o].phase = "Succeeded"}

LEMMA CachedDoneGrows ==
    ASSUME TypeInv, ~Crash, CacheFaithful, [Next]_vars, NEW r
    PROVE  /\ Cardinality(CachedDone(r)) <= Cardinality(CachedDoneNext(r))
           /\ Cardinality(CachedDone(r)) \in Nat /\ Cardinality(CachedDoneNext(r)) \in Nat
<1>1. CachedDone(r) \subseteq CachedDoneNext(r)
  BY CacheGrows DEF CachedDone, CachedDoneNext
<1>2. CachedDone(r) \subseteq Objs /\ CachedDoneNext(r) \subseteq Objs
  BY DEF CachedDone, CachedDoneNext
<1> QED
  BY <1>1, <1>2, FiniteObjs, FS_Subset

\* The claims the updater counts are as many objects in the cache.
LEMMA CountIsCached ==
    ASSUME TypeInv, CacheFaithful, ClaimsInv, ClaimsCached, Succeeded = WorkerReplicas
    PROVE  Cardinality(CachedDone(sync.job.rid)) >= WorkerReplicas
<1> DEFINE C == {c \in sync.claimed["workerPods"] : c.phase = "Succeeded"}
           S == CachedDone(sync.job.rid)
           f == [c \in C |-> c.obj]
<1>1. WorkerReplicas \in Nat /\ Cardinality(C) = WorkerReplicas
  BY ReplicasAssumption DEF Succeeded
<1>2. \A c \in C : c.obj \in S
  <2>1. \A c \in C : c.obj \in Objs
    BY DEF TypeInv, TypeOK, Sync, AllSlots, ClaimedObj
  <2>2. \A c \in C : store[c.obj].rid = sync.job.rid
    BY <1>1 DEF ClaimsInv, ClaimsCurrent
  <2>3. \A c \in C : store[c.obj].slot = "workerPods"
    BY DEF ClaimsInv, ClaimsFaithful
  <2> QED
    BY <2>1, <2>2, <2>3 DEF ClaimsCached, CacheFaithful, CachedDone
<1>3. f \in Injection(C, S)
  <2>1. f \in [C -> S]
    BY <1>2
  <2>2. \A c, d \in C : c.obj = d.obj => c = d
    BY DEF TypeInv, ClaimsDistinct, AllSlots
  <2> QED
    BY <2>1, <2>2 DEF Injection, IsInjective
<1>4. IsFiniteSet(S)
  BY FiniteObjs DEF CachedDone
<1>5. Cardinality(C) <= Cardinality(S)
  BY <1>3, <1>4, FS_Injection
<1> QED
  BY <1>1, <1>5

\* How the server's TFJob changes.
LEMMA JobSteps ==
    ASSUME TypeInv, ~Crash, [Next]_vars
    PROVE  \/ job' = job
           \/ JobWritten
           \/ UpdateStatus /\ ~sync.oldRV /\ job' = UpdatedJob
<1>1. UpdateStatus => job' = job \/ (~sync.oldRV /\ job' = UpdatedJob)
  BY DEF UpdateStatus
<1> QED
  BY <1>1, Steps
  DEF Bystands, PodChanges, JobDelivered, SyncStarts, SyncEnds, ObjCatchUp, Lookup, Claim,
      Manage, BeginEvent, CreateOk, CreateFails, serverVars

LEMMA WrittenFields ==
    ASSUME TypeInv, JobWritten
    PROVE  \/ job' = job
           \/ /\ job'.deleting = TRUE /\ job'.rid = job.rid
              /\ job'.phase = job.phase /\ job'.uid = job.uid
           \/ job'.phase = "None" /\ (job'.uid # job.uid \/ job.deleting)
BY DEF JobWritten, WriteJob, TypeInv, TypeOK, Job

LEMMA SuccessCachedKept ==
    ASSUME TypeInv, ~Crash, EarnedInv, ClaimsCached, SuccessCached, [Next]_vars
    PROVE  SuccessCached'
<1>1. SUFFICES ASSUME job'.phase = "Succeeded"
               PROVE  Cardinality(CachedDoneNext(job'.rid)) >= WorkerReplicas
  BY DEF SuccessCached, CachedDone, CachedDoneNext
<1>2. WorkerReplicas \in Nat /\ CacheFaithful /\ ClaimsInv
  BY ReplicasAssumption DEF EarnedInv
<1>3. CASE job.phase = "Succeeded" /\ job'.rid = job.rid
  BY <1>2, <1>3, CachedDoneGrows DEF SuccessCached
<1>4. CASE UpdateStatus /\ job' = UpdatedJob
  <2>1. Succeeded = WorkerReplicas
    BY <1>1, <1>4, UpdatedFields DEF UpdatedPhase
  <2>2. Cardinality(CachedDone(sync.job.rid)) >= WorkerReplicas
    BY <1>2, <2>1, CountIsCached
  <2> QED
    BY <1>2, <1>4, <2>2, UpdatedFields, CachedDoneGrows
<1> QED
  BY <1>1, <1>3, <1>4, JobSteps, WrittenFields

-----------------------------------------------------------------------------
(***************************************************************************)
(* As long as nobody touches the pods, a reported success is read again.   *)
(***************************************************************************)
\* What was lost stays lost.
LEMMA LossesStay ==
    ASSUME TypeInv, NoneSucceeded, ~Crash, [Next]_vars, LosesWorker, job'.rid = job.rid
    PROVE  LosesWorker'
<1>1. PICK o \in Objs : /\ Created(o) /\ store[o].slot = "workerPods" /\ store[o].rid = job.rid
                        /\ ~Live(o) \/ store[o].deleting
  BY DEF LosesWorker
<1>2. /\ store'[o].st # "none"
      /\ store'[o].slot = store[o].slot /\ store'[o].rid = store[o].rid
  BY <1>1, StoreGrows DEF Grows
<1>3. store[o].st \in {"none", "live", "gone"}
  BY DEF TypeInv, TypeOK, Object
<1>4. store'[o].deleting \/ store'[o].st # "live"
  BY <1>1, <1>3, RemovalsKept DEF Created, Live
<1> QED
  BY <1>1, <1>2, <1>4 DEF LosesWorker, Created, Live

\* A success is settled because it was, or because it has just been reported.
LEMMA SettledBefore ==
    ASSUME TypeInv, NoneSucceeded, ~Crash, [Next]_vars, Settled'
    PROVE  \/ Settled /\ job'.rid = job.rid
           \/ UpdateStatus /\ ~sync.oldRV /\ job' = UpdatedJob
<1>1. job'.phase = "Succeeded" /\ job'.deleting = FALSE /\ ~LosesWorker'
  BY NextType DEF Settled, TypeInv, TypeOK, Job
<1>2. CASE job' = job
  BY <1>1, <1>2, LossesStay DEF Settled
<1>3. CASE JobWritten
  BY <1>1, <1>2, <1>3, WrittenFields
<1> QED
  BY <1>2, <1>3, JobSteps

LEMMA CacheSettledKept ==
    ASSUME TypeInv, NoneSucceeded, ~Crash, VersionInv, CacheSettled, SyncSettled, [Next]_vars
    PROVE  CacheSettled'
<1>1. SUFFICES ASSUME Settled', ~jobStale'
               PROVE  jobCache'.rid = job'.rid
  BY DEF CacheSettled
<1>2. sync \in Sync /\ jobStale \in BOOLEAN
  BY DEF TypeInv, TypeOK
<1>3. CASE UpdateStatus
  <2>1. jobCache' = UpdatedJob \/ jobCache' = jobCache
    BY <1>3 DEF UpdateStatus, CacheWrite
  <2>2. sync.pc = "update" /\ Active
    BY <1>3 DEF UpdateStatus, Active
  <2>3. CASE /\ job' = UpdatedJob /\ CacheWrite(UpdatedJob)
             /\ jobStale' = (jobStale \/ job # UpdatedJob)
    <3>1. CASE sync.attached
      BY <2>3, <3>1 DEF CacheWrite
    <3>2. CASE ~sync.attached
      <4>1. ~jobStale /\ job = UpdatedJob /\ jobCache' = jobCache
        BY <1>1, <2>3, <3>2 DEF CacheWrite
      <4>2. job' = job /\ store' = store
        BY <1>3, <2>3, <4>1 DEF UpdateStatus
      <4>3. Settled
        BY <1>1, <4>2 DEF Settled, LosesWorker, Created, Live
      <4> QED
        BY <4>1, <4>2, <4>3 DEF CacheSettled
    <3> QED
      BY <3>1, <3>2
  <2>4. CASE job' = job /\ jobStale' = jobStale
    <3>1. Settled /\ ~jobStale
      BY <1>1, <1>3, <2>4 DEF UpdateStatus, Settled, LosesWorker, Created, Live
    <3>2. CASE jobCache' = jobCache
      BY <2>4, <3>1, <3>2 DEF CacheSettled
    <3>3. CASE jobCache' = UpdatedJob /\ sync.attached
      <4>1. ~sync.oldRV
        BY <2>2, <3>1, <3>3 DEF VersionInv
      <4> QED
        BY <2>2, <2>4, <3>1, <3>3, <4>1, UpdatedFields DEF SyncSettled
    <3> QED
      BY <1>3, <3>2, <3>3 DEF UpdateStatus, CacheWrite
  <2> QED
    BY <1>3, <2>3, <2>4 DEF UpdateStatus
<1>4. CASE JobDelivered
  BY <1>4 DEF JobDelivered
<1>5. CASE JobWritten
  BY <1>1, <1>5 DEF JobWritten, WriteJob
<1>6. CASE Manage
  <2>1. Settled /\ job'.rid = job.rid /\ ~jobStale
    BY <1>1, <1>6, ManageFields DEF Settled, LosesWorker, Created, Live
  <2>2. Active /\ sync.pc = "manage"
    BY <1>6, ManageFields DEF Active
  <2>3. CASE sync.attached
    <3>1. ~sync.oldRV
      BY <2>1, <2>2, <2>3 DEF VersionInv
    <3>2. sync.job.rid = job.rid /\ Succeeded >= WorkerReplicas
      BY <2>1, <2>2, <3>1 DEF SyncSettled
    <3> QED
      BY <1>6, <2>1, <2>3, <3>2, ManageFields
  <2>4. CASE ~sync.attached
    BY <1>6, <2>1, <2>4, ManageFields DEF CacheSettled
  <2> QED
    BY <2>3, <2>4
<1>7. CASE \/ Bystands \/ PodChanges \/ SyncStarts \/ SyncEnds \/ (\E o \in Objs : ObjCatchUp(o))
           \/ Lookup \/ (\E s \in Slots : Claim(s)) \/ (\E s \in Slots : BeginEvent(s))
           \/ CreateOk \/ CreateFails
  <2>1. jobCache' = jobCache /\ jobStale' = jobStale /\ job' = job
    BY <1>7 DEF Bystands, PodChanges, SyncStarts, SyncEnds, ObjCatchUp, Lookup, Claim, BeginEvent,
                CreateOk, CreateFails, serverVars, cacheVars
  <2>2. CASE UpdateStatus
    BY <1>3, <2>2
  <2>3. CASE Settled
    BY <1>1, <2>1, <2>3 DEF CacheSettled
  <2> QED
    BY <1>1, <2>2, <2>3, SettledBefore
<1> QED
  BY <1>3, <1>4, <1>5, <1>6, <1>7, Steps

\* A pass over the worker pods finds those that made the success.
LEMMA PassFindsSuccess ==
    ASSUME AllInv, RemovalsFaithful, LivesInv, VersionInv, SuccessCached, Settled,
           Active, ~sync.oldRV, sync.job.rid = job.rid, Claim("workerPods"),
           sync'.pc # "failed"
    PROVE  Succeeded' >= WorkerReplicas
<1> DEFINE mine == {o \in ListedFor("workerPods") :
                       \/ Verdict(o, "workerPods") = "claim"
                       \/ Verdict(o, "workerPods") = "adopt" /\ Live(o)}
           F(o) == [obj |-> o, phase |-> cache[o].phase, deleting |-> cache[o].deleting]
           new == {F(o) : o \in mine}
           pc == IF sync.todo = {"workerPods"} THEN "manage" ELSE "claim"
           D == CachedDone(job.rid)
           C == {c \in new : c.phase = "Succeeded"}
<1>1. TypeInv /\ CacheFaithful /\ sync \in Sync /\ "workerPods" \in Slots
  BY DEF AllInv, EarnedInv, TypeInv, TypeOK, Slots, PodSlots
<1>2. D \subseteq mine
  <2>1. SUFFICES ASSUME NEW o \in D
                 PROVE  o \in mine
    OBVIOUS
  <2>2. /\ o \in Objs /\ cache[o].st # "none" /\ cache[o].slot = "workerPods"
        /\ cache[o].rid = job.rid
    BY DEF CachedDone
  <2>3. Created(o) /\ store[o].slot = "workerPods" /\ store[o].rid = job.rid
    BY <1>1, <2>2 DEF CacheFaithful
  <2>4. Live(o) /\ ~store[o].deleting
    BY <2>2, <2>3 DEF Settled, LosesWorker
  <2>5. cache[o].st = "live" /\ ~cache[o].deleting
    BY <1>1, <2>2, <2>4 DEF RemovalsFaithful, Live, TypeInv, TypeOK, Object
  <2>6. cache[o].owner \in {0, sync.job.uid}
    <3>1. sync.job \in Copies
      BY DEF Copies
    <3> QED
      BY <2>2, <2>3, <3>1 DEF LivesInv, WorkersOwned, WorkerPod, OwnerFits
  <2>7. sync.job.uid # 0 /\ ~sync.job.deleting
    BY DEF VersionInv, SameJob, Settled
  <2>8. o \in ListedFor("workerPods") /\ Matches(o, "workerPods")
    BY <2>2, <2>5 DEF ListedFor, Matches, AllPodSlots
  <2>9. Verdict(o, "workerPods") \in {"claim", "adopt"}
    BY <2>5, <2>6, <2>7, <2>8 DEF Verdict, ClaimObject
  <2> QED
    BY <2>4, <2>8, <2>9
<1>3. sync' = [sync EXCEPT !.todo = @ \ {"workerPods"}, !.claimed["workerPods"] = new, !.pc = pc]
  <2>1. \/ sync' = [sync EXCEPT !.pc = "failed"]
        \/ sync' = [sync EXCEPT !.todo = @ \ {"workerPods"}, !.claimed["workerPods"] = new,
                                !.pc = pc]
    BY <1>1, PassClaims
  <2> HIDE DEF new, pc
  <2> QED
    BY <1>1, <2>1 DEF Sync
<1>4. sync'.claimed["workerPods"] = new
  <2>1. "workerPods" \in DOMAIN sync.claimed
    BY <1>1 DEF Sync, AllSlots
  <2> HIDE DEF new, pc
  <2> QED
    BY <1>1, <1>3, <2>1 DEF Sync
<1>5. Succeeded' = Cardinality(C)
  BY <1>4 DEF Succeeded
<1>6. IsFiniteSet(C) /\ Cardinality(C) \in Nat
  <2>1. \A o \in mine : F(o) \in ClaimedObj
    BY <1>1 DEF ListedFor, ClaimedObj, TypeInv, TypeOK, Object
  <2>2. \A c, d \in C : c.obj = d.obj => c = d
    OBVIOUS
  <2> QED
    BY <2>1, <2>2, FiniteClaims, FS_CardinalityType
<1>7. Cardinality(D) <= Cardinality(C)
  <2> DEFINE f == [o \in D |-> F(o)]
  <2>1. \A o \in D : F(o) \in C
    BY <1>2 DEF CachedDone
  <2>2. \A o, p \in D : F(o) = F(p) => o = p
    OBVIOUS
  <2> HIDE DEF D, C, F
  <2>3. f \in Injection(D, C)
    BY <2>1, <2>2 DEF Injection, IsInjective
  <2> QED
    BY <1>6, <2>3, FS_Injection
<1>8. Cardinality(D) >= WorkerReplicas /\ Cardinality(D) \in Nat /\ WorkerReplicas \in Nat
  BY FiniteObjs, ReplicasAssumption DEF SuccessCached, Settled, CachedDone
<1> QED
  BY <1>5, <1>6, <1>7, <1>8

LEMMA SyncSettledKept ==
    ASSUME FinalInv, [Next]_vars
    PROVE  SyncSettled'
<1>1. /\ TypeInv /\ IndexInv /\ NoneSucceeded /\ ~Crash /\ VersionInv /\ SyncSettled
      /\ CacheSettled /\ sync \in Sync
  BY NoCrashNow DEF FinalInv, AllInv, EarnedInv, TypeInv, TypeOK
<1>2. CASE UpdateStatus
  <2>1. sync'.pc \in {"idle", "failed"}
    BY <1>1, <1>2 DEF UpdateStatus, Idle, Sync
  <2> QED
    BY <2>1 DEF SyncSettled, Active
<1>3. SUFFICES ASSUME Settled, job'.rid = job.rid, Active', ~sync'.oldRV, ~UpdateStatus
               PROVE  /\ sync'.job.rid = job.rid
                      /\ sync'.pc # "claim" \/ "workerPods" \notin sync'.todo
                            => Succeeded' >= WorkerReplicas
                      /\ "workerPods" \notin sync'.due
  BY <1>1, <1>2, SettledBefore DEF SyncSettled
<1>4. ASSUME Active, ~sync.oldRV, sync'.job.rid = sync.job.rid, sync'.due \subseteq sync.due,
             sync'.claimed["workerPods"] = sync.claimed["workerPods"],
             sync'.pc # "claim" \/ "workerPods" \notin sync'.todo
                => sync.pc # "claim" \/ "workerPods" \notin sync.todo
      PROVE  /\ sync'.job.rid = job.rid
             /\ sync'.pc # "claim" \/ "workerPods" \notin sync'.todo
                   => Succeeded' >= WorkerReplicas
             /\ "workerPods" \notin sync'.due
  <2>1. Succeeded' = Succeeded
    BY <1>4 DEF Succeeded
  <2> QED
    BY <1>1, <1>3, <1>4, <2>1 DEF SyncSettled
<1>5. CASE Bystands \/ PodChanges \/ JobDelivered \/ (\E o \in Objs : ObjCatchUp(o))
  <2>1. /\ sync'.pc = sync.pc /\ sync'.job = sync.job /\ sync'.due = sync.due
        /\ sync'.claimed = sync.claimed /\ sync'.todo = sync.todo /\ sync'.oldRV = sync.oldRV
    BY <1>1, <1>5 DEF Bystands, PodChanges, JobDelivered, Detached, ObjCatchUp, Sync
  <2> QED
    BY <1>3, <1>4, <2>1 DEF Active
<1>6. CASE JobWritten
  <2>1. sync'.pc = sync.pc /\ sync'.oldRV = (sync.job.uid # 0)
    BY <1>1, <1>6 DEF JobWritten, WriteJob, Sync
  <2> QED
    BY <1>1, <1>3, <2>1 DEF VersionInv, Active
<1>7. CASE SyncStarts \/ SyncEnds
  <2>1. sync'.pc \in {"idle", "check", "lookup"}
    BY <1>7 DEF SyncStarts, SyncEnds, DoneFailed, Idle
  <2> QED
    BY <1>3, <2>1 DEF Active
<1>8. CASE Lookup
  <2>1. sync' # Idle
    BY <1>3 DEF Active, Idle
  <2>2. sync' = [sync EXCEPT !.pc = "claim", !.job = jobCache, !.attached = TRUE,
                             !.oldRV = jobStale, !.todo = Slots]
    BY <1>8, <2>1 DEF Lookup
  <2>3. /\ sync'.pc = "claim" /\ sync'.job = jobCache /\ sync'.oldRV = jobStale
        /\ sync'.todo = Slots /\ sync'.due = sync.due
    BY <1>1, <2>2 DEF Sync
  <2>4. sync.due = {}
    BY <1>1, <1>8 DEF IndexInv, DuePhase, Lookup
  <2>5. "workerPods" \in Slots
    BY DEF Slots, PodSlots
  <2> QED
    BY <1>1, <1>3, <2>3, <2>4, <2>5 DEF CacheSettled
<1>9. ASSUME NEW s \in Slots, Claim(s)
      PROVE  /\ sync'.job.rid = job.rid
             /\ sync'.pc # "claim" \/ "workerPods" \notin sync'.todo
                   => Succeeded' >= WorkerReplicas
             /\ "workerPods" \notin sync'.due
  <2>1. sync.pc = "claim" /\ sync'.pc # "failed"
    BY <1>3, <1>9 DEF Claim, Active
  <2> DEFINE new == {[obj |-> o, phase |-> cache[o].phase, deleting |-> cache[o].deleting]
                       : o \in {o \in ListedFor(s) : \/ Verdict(o, s) = "claim"
                                                     \/ Verdict(o, s) = "adopt" /\ Live(o)}}
             pc == IF sync.todo = {s} THEN "manage" ELSE "claim"
  <2>2. sync' = [sync EXCEPT !.todo = @ \ {s}, !.claimed[s] = new, !.pc = pc]
    <3>1. \/ sync' = [sync EXCEPT !.pc = "failed"]
          \/ sync' = [sync EXCEPT !.todo = @ \ {s}, !.claimed[s] = new, !.pc = pc]
      BY <1>1, <1>9, PassClaims
    <3> HIDE DEF new, pc
    <3> QED
      BY <1>1, <2>1, <3>1 DEF Sync
  <2> HIDE DEF new
  <2>3. /\ sync'.job = sync.job /\ sync'.due = sync.due /\ sync'.oldRV = sync.oldRV
        /\ sync'.todo = sync.todo \ {s} /\ sync'.pc = pc
        /\ sync'.claimed = [sync.claimed EXCEPT ![s] = new]
    BY <1>1, <2>2 DEF Sync
  <2>4. Active /\ ~sync.oldRV
    BY <1>3, <2>1, <2>3 DEF Active
  <2>5. sync.job.rid = job.rid /\ "workerPods" \notin sync.due
    BY <1>1, <1>3, <2>4 DEF SyncSettled
  <2>6. CASE s = "workerPods"
    <3>1. Succeeded' >= WorkerReplicas
      BY <1>3, <1>9, <2>1, <2>4, <2>5, <2>6, PassFindsSuccess DEF FinalInv
    <3> QED
      BY <2>3, <2>5, <3>1
  <2>7. CASE s # "workerPods"
    <3>1. "workerPods" \in DOMAIN sync.claimed
      BY <1>1 DEF Sync, AllSlots
    <3>2. sync'.claimed["workerPods"] = sync.claimed["workerPods"]
      BY <2>3, <2>7, <3>1
    <3>3. sync'.pc # "claim" => "workerPods" \notin sync.todo
      BY <2>3, <2>7
    <3> QED
      BY <1>4, <2>3, <2>4, <2>7, <3>2, <3>3
  <2> QED
    BY <2>6, <2>7
<1>10. CASE Manage
  <2>1. sync.pc = "manage" /\ Active /\ ~sync.oldRV
    BY <1>1, <1>3, <1>10, ManageFields DEF Active
  <2>2. sync.job.rid = job.rid /\ Succeeded >= WorkerReplicas
    BY <1>1, <1>3, <2>1 DEF SyncSettled
  <2>3. Succeeded' = Succeeded
    BY <1>1, <1>10, ManageFields DEF Succeeded
  <2> QED
    BY <1>1, <1>10, <2>2, <2>3, ManageFields
<1>11. CASE (\E s \in Slots : BeginEvent(s)) \/ CreateOk \/ CreateFails
  <2>1. /\ sync.pc \in {"events", "create"} /\ sync'.pc \in {"events", "create", "update", "failed"}
        /\ sync'.job = sync.job /\ sync'.due \subseteq sync.due
        /\ sync'.claimed = sync.claimed /\ sync'.oldRV = sync.oldRV
    <3>1. CASE CreateOk \/ CreateFails
      BY <1>1, <3>1 DEF CreateOk, CreateFails, NextIndex, AfterEvent, Sync
    <3>2. CASE \E s \in Slots : BeginEvent(s)
      BY <1>1, <3>2 DEF BeginEvent, AfterEvent, Sync
    <3> QED
      BY <1>11, <3>1, <3>2
  <2> QED
    BY <1>3, <1>4, <2>1 DEF Active
<1> QED
  BY <1>1, <1>3, <1>5, <1>6, <1>7, <1>8, <1>9, <1>10, <1>11, Steps

-----------------------------------------------------------------------------
LEMMA InitFinal ==
    ASSUME \A b \in Budgets : b["crash"] = 0, Init
    PROVE  FinalInv
<1>1. AllInv
  BY InitAll
<1>2. NoCrash
  BY DEF Init, NoCrash
<1>3. /\ job = NewJob(1) /\ jobCache = NoJob /\ sync = Idle /\ jobStale = TRUE
      /\ \A o \in Objs : cache[o].st = "none" /\ store[o].st = "none"
  BY DEF Init, NoObj
<1>4. /\ job.phase = "None" /\ \A j \in Copies : j.rid = 0
      /\ sync.pc = "idle" /\ sync.due = {} /\ sync.claimed["workerPods"] = {}
  BY <1>3 DEF NewJob, NoJob, Idle, Copies, AllSlots
<1>5. RemovalsFaithful /\ ClaimsCached
  BY <1>3, <1>4 DEF RemovalsFaithful, ClaimsCached
<1>6. LivesInv
  BY <1>3, <1>4 DEF LivesInv, OneLife, WorkersOwned, WorkerPod, Created, ComposedFirst
<1>7. VersionInv /\ SuccessCached /\ CacheSettled /\ SyncSettled
  BY <1>3, <1>4 DEF VersionInv, SuccessCached, CacheSettled, SyncSettled, Settled, Active
<1> QED
  BY <1>1, <1>2, <1>5, <1>6, <1>7 DEF FinalInv

LEMMA NextFinal == FinalInv /\ [Next]_vars => FinalInv'
<1> SUFFICES ASSUME FinalInv, [Next]_vars
             PROVE  FinalInv'
  OBVIOUS
<1>1. /\ TypeInv /\ IndexInv /\ EarnedInv /\ AllInv /\ NoneSucceeded /\ CacheFaithful
      /\ ClaimsInv /\ ClaimsFaithful /\ ~Crash
  BY NoCrashNow DEF FinalInv, AllInv, EarnedInv, ClaimsInv
<1>2. AllInv'
  BY <1>1, NextAll
<1>3. NoCrash' /\ RemovalsFaithful' /\ ClaimsCached'
  BY <1>1, NoCrashKept, RemovalsFaithfulKept, ClaimsCachedKept DEF FinalInv
<1>4. LivesInv' /\ VersionInv'
  BY <1>1, LivesKept, VersionKept DEF FinalInv
<1>5. SuccessCached' /\ CacheSettled' /\ SyncSettled'
  BY <1>1, SuccessCachedKept, CacheSettledKept, SyncSettledKept DEF FinalInv
<1> QED
  BY <1>2, <1>3, <1>4, <1>5 DEF FinalInv

\* A step that could write another phase has found the workers that succeeded again.
LEMMA SuccessStays ==
    ASSUME FinalInv, [Next]_vars, Settled, job'.uid = job.uid
    PROVE  job'.phase = "Succeeded"
<1>1. TypeInv /\ ~Crash /\ AllInv
  BY NoCrashNow DEF FinalInv, AllInv
<1>2. CASE job' = job
  BY <1>2 DEF Settled
<1>3. CASE JobWritten
  BY <1>1, <1>3, WrittenFields DEF Settled
<1>4. CASE UpdateStatus /\ ~sync.oldRV /\ job' = UpdatedJob
  <2>1. Succeeded >= WorkerReplicas
    BY <1>4 DEF FinalInv, SyncSettled, Active, UpdateStatus
  <2>2. Succeeded <= WorkerReplicas
    <3> DEFINE C == sync.claimed["workerPods"]
               S == {c \in C : c.phase = "Succeeded"}
    <3>1. IsFiniteSet(C)
      BY <1>1, FiniteClaims DEF TypeInv, TypeOK, Sync, ClaimsDistinct, AllSlots
    <3>2. Cardinality(S) <= Cardinality(C) /\ Cardinality(S) \in Nat /\ Cardinality(C) \in Nat
      BY <3>1, FS_Subset, FS_CardinalityType
    <3>3. Cardinality(C) <= WorkerReplicas /\ WorkerReplicas \in Nat
      BY <1>1, ClaimsIndexed, ReplicasAssumption DEF ClaimedWithinReplicas
    <3> QED
      BY <3>2, <3>3 DEF Succeeded
  <2>3. Succeeded = WorkerReplicas
    BY <1>1, <2>1, <2>2, CountsTyped
  <2> QED
    BY <1>1, <1>4, <2>3, UpdatedFields DEF UpdatedPhase
<1> QED
  BY <1>1, <1>2, <1>3, <1>4, JobSteps

\* Failing and timed-out calls, conflicts, relists, expired expectations, writes, deletions
\* and new incarnations of the TFJob never take a reported success back, for every kind of
\* job, any number of replicas and any bound on how often these happen, until one of the
\* current workers is removed or the TFJob is being deleted.  Crashes are excluded: after a
\* restart, a sync may run before the pods are listed (the run unsynced_cache shows that
\* step), find none, create the workers again and report Running.
THEOREM SuccessFinal ==
    ASSUME \A b \in Budgets : b["crash"] = 0
    PROVE  Spec => SuccessIsFinal
<1>1. Init => FinalInv
  BY InitFinal
<1>2. FinalInv /\ [Next]_vars => FinalInv'
  BY NextFinal
<1>3. FinalInv /\ [Next]_vars =>
        [/\ job.phase = "Succeeded" /\ job'.uid = job.uid
         /\ ~job.deleting
         /\ ~LosesWorker
         => job'.phase = "Succeeded"]_vars
  BY SuccessStays DEF Settled
<1> QED
  BY <1>1, <1>2, <1>3, PTL DEF Spec, SuccessIsFinal
====
