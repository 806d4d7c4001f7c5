# A verification of the TFJob controller

The repository holds a Kubernetes controller. It watches `TFJob` objects and
creates the pods and services a TensorFlow job is made of. This directory holds
TLA+ modules that model the controller and the parts of client-go it depends on,
TLC configurations that check them on small instances, and proofs that TLAPS
checks. Paths below are relative to `src/`.

    tlc -workers 2 -config local_faults.cfg MCTFJobController    # one run
    tlapm ControllerRunProofs.tla                                # one set of proofs

## 1. The system

    handlers --AddRateLimited--> delaying queue --Add--> work queue --Get--> worker
       ^                                                                       |
    informers (TFJob, pod, service caches) <--list, watch--  API server  <-----+
                                                             create, patch, update

| component | state | operations | what it talks to |
|---|---|---|---|
| sync (`pkg/controller/controller.go`, `helper.go`) | the sync in progress | `processNextWorkItem`, `syncHandler`, `manageTFJob`, `updateTFJob`, `GetPodsForTFJob`, `GetServicesForTFJob`, `CreatePod`, `CreateService` | reads the caches, writes the API server, raises expectations |
| event handlers (`controller.go`) | none of its own | `enqueueTFJob`, `addPod`, `updatePod`, `addService`, `updateService`; the two delete handlers are empty | lowers expectations, enqueues keys |
| work queue (`vendor/k8s.io/client-go/util/workqueue`) | `queue`, `dirty`, `processing`, waiting heap | `AddRateLimited`, `Add`, `Get`, `Done`, `ShutDown` | between handlers and workers |
| expectations (`vendor/k8s.io/kubernetes/pkg/controller/controller_utils.go`) | a counter and a time per key | `ExpectCreations`, `CreationObserved`, `SatisfiedExpectations`, `DeleteExpectations` | sync and handlers |
| reference managers (`pkg/controller/ref`, vendored `controller_ref_manager.go`) | the result of `CanAdopt`, once | `ClaimPods`, `ClaimServices` | patches owner references |
| composition (`pkg/tensorflow`, `pkg/checker`) | the object the lister returned | `NewLocalJob`, `NewDistributedJob`, `Action`, `compose`, `GetSpec` | writes the RuntimeID and templates into the cached TFJob |
| status updaters (`pkg/controller/updater`) | the same object | `NewLocal`, `NewDistributed`, `ShouldUpdate`, `updateTFReplicaStatuses` | writes phase and replica statuses into the cached TFJob |
| informers (`vendor/k8s.io/client-go/tools/cache`) | caches, event queues | list, watch, relist, resync | from the API server to handlers and listers |
| lifecycle (`cmd/controller`, `Run`, `pkg/util/signals`) | goroutines, stop channel | start, wait for caches, stop | starts informers and workers |

### What is hard in it

* **The sync works on shared memory.** `syncHandler` does not copy the TFJob the
  lister returns. `compose` and the updaters write through that pointer into the
  cache. Whether the write survives depends on what happens to the cached
  object: a watch event or a relist replaces it, a crash forgets it.
* **Four passes over two lists.** A job has four collections (worker pods, PS
  pods, worker services, PS services). Each pass lists every pod, or every
  service, of the namespace and adopts, keeps or releases each one according to
  labels and owner in a cache that may be old.
* **One counter for four collections.** Each event of `Action` overwrites the
  key's expectations. Add events of services and pods lower the same counter.
* **The RuntimeID.** It is part of the selector. `compose` draws a new one
  whenever a worker is missing. It reaches the server only at the end of the sync.
* **Errors.** Calls fail without effect, or take effect and report a timeout. A
  failed sync is not queued again.
* **Restarts.** Workers start when the TFJob cache is synced. Pod and service
  caches may still be filling.
* **What is written is read again.** Labels, RuntimeID, replica statuses and services
  written by one sync decide what the next one creates, and part of it may be lost.
  Nobody validates the list of parts a user writes.
* **The end of the process.** `Run` returns at the stop signal while workers are in
  the middle of a sync.
* **Names are reused.** Keys and expectations go by name, references by UID. A
  TFJob may be deleted and created again while its pods still exist.

`PROJECT.json` lists these as hazards, each at its line.

### What makes it correct

* Queue: one sync of a key at a time, no request lost.
* Process: no work before the TFJob cache is complete; a signal ends it.
* Claims: nobody takes an object from its controller; a pass deals with all it listed.
* Sync: no more pods than replicas, unique indices, no pods created from a cache
  that is known to be incomplete.
* Status: Succeeded only when it was earned, and final; one status per type.
* Composition: labels, hosts and services of one RuntimeID go together, and a TFJob the
  code foresees does not bring the controller down.
* Progress: the job succeeds, ownership settles, expectations are not left over.

## 2. Modules

| module | models |
|---|---|
| `KeyService` | the abstract specification of the queue: keys are requested, started, finished |
| `WorkQueue` | `workqueue.Type`, the delaying queue and the worker loop, for several keys and workers |
| `ControllerRun` | the process around the queue: `main`, `Run`, the signal handler, the TFJob informer and its handlers, death and restart |
| `Expectations` | the expectations of one key, as operators |
| `RefManager` | `ClaimObject`, the verdict on one listed object |
| `Ownership` | the abstract specification of claiming: who may take and give up objects, and when |
| `ClaimPass` | the passes of several TFJobs over one namespace, one call at a time, with `CanAdopt` memoised |
| `Tensorflow` | `Action`: which collections are due and how many objects each lacks |
| `TFJobController` | everything that happens around one TFJob key |
| `Composition` | what syncs write: parts, labels, services, hosts, replica statuses |
| `MCControllerRun`, `MCTFJobController`, `MCClaimPass`, `MCComposition` | instances for TLC: model values, budgets of events, lists of parts |
| `ControllerRunProofs` | proofs about the queue and the process |
| `TFJobControllerTypes` | type correctness of `TFJobController`; one key implements `KeyService` |
| `TFJobControllerProofs` | indices of worker pods; claims stay within the replicas |
| `SucceededProofs` | success is earned |
| `FinalProofs` | success is final |
| `ExpectationsProofs` | what the expectations of a local job are worth |
| `ClaimPassProofs` | the passes implement `Ownership` |
| `CompositionProofs` | what syncs write belongs together |

`ControllerRun` extends `WorkQueue`: each of its steps is a step of the queue, leaves the
queue alone, or starts the process anew. `ClaimPass` extends `RefManager`.
`TFJobController` extends `Expectations`, `RefManager` and `Tensorflow` and
follows **one key**, with **one sync at a time**. `WorkQueue` is the reason this is
enough: `NoConcurrentSync` says that no key is ever in two workers, and the keys
share nothing but the caches; both modules implement `KeyService`, the queue for a set of
keys and the controller for one. A pass over the list is one of its steps; `ClaimPass` takes the same
pass apart. `Composition` goes the other way: a whole sync is one step, so that
the lists it writes can be followed through many of them. The worker loop of `TFJobController` (`waiting`,
`queued`, `sync.pc = "idle"`) is the queue seen from one key.

### State and code

| variable | in the code |
|---|---|
| `job`, `store` | the API server's TFJob; its pods and services. A deleted object stays as history (`"gone"`) |
| `jobCache`, `cache` | what `tfJobLister`, `podLister` and `serviceLister` return |
| `jobStale` | a newer version than the cached one exists, so a write of the cached one gets a conflict |
| `jobNotif`, `added`, `touched` | events between an informer and its handler goroutine |
| `listed` | objects that arrive with the initial list, in any order; later ones arrive in creation order |
| `exp` | the counter of `ControllerExpectations` |
| `waiting`, `queued` | the delaying queue and the work queue |
| `sync` | the local variables of `syncHandler` and its callees, and the place it has reached |
| `sync.attached` | the `*TFJob` in hand still is the object in the cache |

| actions | in the code |
|---|---|
| `Get`, `CheckExpectations`, `Lookup` | `processNextWorkItem` and the start of `syncHandler` |
| `Claim(s)` | one of the four `Get...ForTFJob` passes |
| `Manage` | `manageTFJob`: build the job, `Action`, `compose` |
| `BeginEvent(s)`, `CreateOk`, `CreateFails` | one event and its creation loop |
| `UpdateStatus`, `DoneFailed` | the updater, `updateTFJob`, and the end of the sync |
| `JobCatchUp`, `JobRelist`, `ObjCatchUp` | informers bring the caches up to date |
| `JobHandler`, `AddHandler`, `UpdateHandler`, `Requeue` | the event handlers and the end of a back-off |
| `PodSucceeds` ... `Crash` | kubelet, garbage collector, users, clock, process |

That is `TFJobController`. In the others:

| module | variable | in the code |
|---|---|---|
| `ControllerRun` | `main`, `goroutine` | how far `main` and `Run` are; `wait.Until` around each `runWorker` |
| | `signals`, `stopped` | the buffered channel of `signal.Notify`; `stopCh` is closed |
| | `unseen`, `events` | the initial list that is still on its way; events before their handler |
| `ClaimPass` | `pass[u]` | the manager of one pass (`canAdopt` is its `sync.Once`), the rest of the list, the results |
| | `listed[u]` | the copies the lister returned when the pass began |
| | `owned` | history: who ever controlled an object |
| `Composition` | `server`, `cached`, `stale` | the TFJob on the server; the lister's object, written in place; a write of it would conflict |
| | `services`, `pods` | on the API server, with the labels and names they were created with |
| | `listedServices`, `listedPods` | what `serviceLister` and `podLister` show, each fed by an informer of its own, in creation order; `Restart` empties both |
| | `draws` | one number for the random names `GetService` draws in one sync |
| | `relisted` | history: somebody wrote the list of parts anew |

### Abstractions

* Pod phases are Running, Succeeded and Failed; Pending counts as Running (the code
  treats both as active).
* `exp` is a natural number. Where the code's counter is negative, absent or
  expired, `SatisfiedExpectations` says yes; all of these are 0.
* One claiming pass is one step, with at most one transient failure in it. The
  code works through the whole list before it returns the errors, and so does the
  action.
* Every object is delivered to the informer, with its add event, sooner or later. One that is
  created and removed while the watch is broken would never be delivered, and would be waited for until its
  expectation expires; this is not modelled.
* RuntimeIDs and UIDs are drawn in order: random strings that never collide.
* Intermediate versions that a watch would deliver may be skipped. Objects may be
  seen late, but a cache never goes back to an older version, except that a
  restart empties it.
* Names, templates, cluster specification strings, event records and log lines
  are left out.
* The syncs of `Composition` are not interrupted: interleavings within one are
  `TFJobController`'s subject. Its listers of pods and services are late, each on its own, and
  what a sync creates may fail at any pod or service; the write of the status may be refused.
  Whether expectations are fulfilled is left open, which covers every way in which the counter can
  be wrong.
* Capitalised names beginning with `Max` bound what may be created or how often something
  happens, and appear as guards. A budget of `TFJobController` says how often each
  kind of event happens (-1: without bound); `Budgets` is a set of them, one of which is
  chosen at the start, so that a run covers several scenarios. The theorems hold for
  every value of the bounds.

## 3. Runs

Seven runs pass. In those of `TFJobController` workers sync and pods succeed as often as
they like unless the table says otherwise, each fault happens at most once, at any
moment, and the only faults are those named.

| run | instance | properties | what it shows |
|---|---|---|---|
| `work_queue` | 2 keys, 2 workers, 2 processes; signals and deaths at any moment; fair | `TypeOK`, `RunTypeOK`, `NoConcurrentSync`, `QueueShape`, `NoLostKey`, `CompleteBeforeWork`, `NothingLeftBehind`, `EveryKeyTaken`, `StopEndsProcess`, `ImplementsService` | the queue does what the controller relies on, from the start of the process to its end |
| `local_faults` | local job, 3 objects, four scenarios: a failed call and a failed pod; a failed pod, a deleted pod and a relist in 3 syncs; a pod that succeeds, a deletion and a relist in 3 syncs; the TFJob deleted and created again, and a relist, in 4 syncs | `ExpectationsCoverPods`, `ExpectationsExact`, `ClaimedWithinReplicas`, `SuccessIsFinal`, `NoBlindCreation` | expectations count what is on its way, fulfilled ones mean a complete cache, and no pod is created from an incomplete one, whatever late pods a namesake has left; a pod and its successor are not claimed together; success is not taken back |
| `local_new_life` | local, 3 objects, 2 UIDs, three scenarios: a crash, a timeout, an expiry and a deletion, in the background or in the foreground, in 2 syncs; a timeout and a write of a user in 3 syncs | `SucceededEarned`, `ClaimedWithinReplicas`, `ImplementsService` | half-filled caches and a namesake's pods do not invent success; a creation that timed out and its repetition are not claimed together; one key is served as the queue promises, crashes included |
| `local_progress` | local, 3 objects, two scenarios: somebody writes to the TFJob; somebody deletes it, and the controller sees the deletion or finds it in a relist; fair | `EventuallySucceeded`, `ExpectationsDrain` | a conflict at any point is survived; expectations are observed while the TFJob is in the lister, and deleted after it if a request is left |
| `distributed` | 2 workers, no PS, 4 objects, 2 syncs; a call that fails, or one that times out | `TypeOK`, `IndexUnique`, `NothingInVain` | loops of two, broken off at any point and in every interleaving with the informers; a creation that timed out and its repetition have different RuntimeIDs; what is expected in vain is the rest of a broken loop |
| `claim_pass` | 2 TFJobs, 2 objects, 2 labels, 2 passes; a failed call and one change by others or a crash | `TypeOK`, `ClaimedWereOwned`, `PassReconciles`, `ImplementsOwnership` | claiming is safe although every decision is made from old copies |
| `composition` | six lists of parts, up to 2 replicas, 4 pods, 2 RuntimeIDs, syncs with up to 2 pods and services the listers lack; two of: a failed call or restart, an ended pod, an edit of the TFJob | `TypeOK`, `ForeseenNeverPanics`, `HostsOfOneLife`, `ListedServicesOnce`, `StatusTypesDistinct` | what syncs write fits together, whichever part of it is lost or late |

Five runs are expected to end in a violation. Each refutes something the
repository says of itself:

| run | the repository says | what happens |
|---|---|---|
| `retry_after_error` | a failed item is put back on the queue (`pkg/controller/controller.go:206`) | it is not; nothing calls `AddRateLimited` after an error |
| `ownership_flips` | a sync attempts to converge actual and desired state (`controller.go:245`) | the PS passes release the workers' objects, the worker passes adopt them again, for ever |
| `blind_creation` | expectations are checked so that the pods counted are not out of date (`controller.go:259`) | services lower the expectation of pods |
| `unsynced_cache` | wait for the caches before starting workers (`controller.go:165`) | only the TFJob cache is waited for |
| `replacement` | `compose` must not be called twice for a TFJob (`pkg/tensorflow/distributed.go:209`); a sync converges (`controller.go:245`) | `Action` calls it for every shortage, and its new RuntimeID hides the workers that are left: one lost worker of two is replaced again in every sync |

No property says that never more pods *run* than there are replicas: that is not
so. When the write of the status is refused or fails, the next watch event
replaces the cached TFJob, and with it goes the only copy of the new RuntimeID. The
pods created for it match no selector any more, and the next sync creates others
beside them. `EventuallySucceeded` and `ClaimedWithinReplicas` say what remains true
in spite of this: the strays are not counted, and the job still succeeds.

`SuccessIsFinal` makes two exceptions: the updater computes the phase from the pods it
finds, so a current worker pod that is deleted, or marked for it, takes the success with it
(`LosesWorker`), and so does the deletion of the TFJob in the foreground, while it waits
for its pods.
`ExpectationsExact` is about local jobs. A distributed one overwrites the expectations of one
collection with those of the next, so its number is not exact, and `blind_creation` shows
what comes of it. It is about the first TFJob of the key, since a second one inherits what was
expected. `NothingInVain` is what remains true of every kind of job. What is expected should
still be to be created by the loop, on its way to the lister, or waiting for `addPod` or
`addService`; `InVain` is the excess, for which the key would wait until the timeout. It is
not always 0: when the creation of a pod fails, `manageTFJob` leaves the loop
(`controller.go:402-407`) and has expected the rest already. The property says that nothing else
adds to the excess, and that a failure adds no more than that rest. The loops of the instance
have two workers, so that both can be broken off with one pod made or none.

`ExpectationsDrain` says when expectations do not have to wait for their timeout. While the
first TFJob is in the lister they are observed; when it is not, the next sync of
the key deletes them (`controller.go:269`). This takes a request. A deletion that the watch delivers
makes one. A deletion found by a relist does not: its handler is given a `DeletedFinalStateUnknown`,
for which `enqueueTFJob` finds no key (`controller.go:622`), and `addPod` no longer resolves the
owner. Then the expectations stay until the timeout, and a TFJob of the same name, if one is
created before that, inherits them, as does one that is created before the worker looks. The scenario with
a deletion has both ways of learning of it.

No property says that there is one service for each type, index and RuntimeID: that is not
so. `distributed.go:69` looks for services in the service lister, which has an informer of its own. Add
events of pods lower the expectation as well as those of services; when they
bring it to 0 before the services reach their lister, the next sync finds all pods, does not
compose, finds no service, and creates the services again under the same RuntimeID. With
`MaxLag = 2`, `Composition` has such behaviours. `ListedServicesOnce` says what remains true: a
service that the lister shows is not created again, whatever creation failed beside it.

`ForeseenNeverPanics` says what the code may rely on. *Foreseen* is a local first part, or
one part for workers (at least one replica) and one for parameter servers, as the
first two, each with its number of replicas; `checker.IsLocalJob` and `GetSpec`
dereference what is missing otherwise. The property makes an exception for a TFJob whose
list of parts was written anew: its templates have lost the labels, its RuntimeID
remains, and the next missing parameter server is a write to a nil map
(`distributed.go:121`). A number of replicas that is merely changed keeps the labels.

The comment on `Run` promises to wait for the workers to finish their current items
(`controller.go:154-157`). It waits for the signal only; `main` then returns and the process
ends wherever the workers are. `Exits` has no guard on the workers, and what a sync leaves
behind when it is cut off is the subject of `Crash` in `TFJobController`.

### Bounds

The local runs allow two more pods than the job needs, and as many RuntimeIDs: the
blunders looked for (a second pod, a pod of an old RuntimeID) need one extra object
each. `ownership_flips` and `blind_creation` have one worker and one PS, the smallest job with
four collections, where two pod passes meet; `distributed` has two workers, the smallest job with a
loop that can be broken off, and no PS, which would make it too large: two services, and two pods
or the first of a loop and its repetition. Where the number of syncs is limited, the first creates, the second meets what
the first left, the third revises it. `work_queue` has two processes, because a third starts
from the same state as the second; with two keys and two workers a key can be added
while either worker has it and the other has the other key.
`claim_pass` has the smallest instance with a rival for each object and a second
object after a failed call; two passes may be of one TFJob or of both at once.
`composition` has TFJobs with the parts in either order, a PS that does not say how many
replicas it has, a missing PS, no worker, no part, and a local one; two RuntimeIDs are
the first and the one that replaces it or was drawn because it was lost. Two replicas (after
scaling) let a list of hosts have a hole. `MaxLag = 2` lets a sync begin when the
listers of pods and services lack two objects: both services, both pods, or one of each; with
`MaxTroubles = 2` two of a failed sync or restart, an ended pod and an edit happen together, after which the
listers may lack one object.

When a bound is reached the controller stops at its guard. For the liveness runs this must
not pass for an answer: with one foreign write `local_progress` has more objects and
RuntimeIDs than the fault can use up; with a deletion, RuntimeIDs and objects run out
together, so that a controller that stops there expects nothing. `retry_after_error` and `ownership_flips` have
counterexamples that stay within the bounds, the second with syncs that go on for
ever. `EveryKeyTaken` and `StopEndsProcess` meet no bound but the number of processes,
which only `Restart` looks at. The theorems of section 4 hold for every bound.

`CHECK_DEADLOCK FALSE` is set everywhere: a finished job with nothing left to deliver,
and a queue that was shut down, do stop.

### Fairness

`RunFairness` of `ControllerRun`: `main` goes on, the signal handler receives, the informer
delivers its initial list and its handlers run, timers fire (`waitingLoop`), syncs return
(`processNextWorkItem` has no unbounded wait), worker goroutines start and see the
shutdown (it broadcasts), and some free worker takes the next key (the condition
variable wakes one). Nobody has to send a signal, cause an event or start the
process again.

`FairSpec` of `TFJobController`: the worker, each informer and each handler
goroutine runs, back-offs end, pods that run finish, and the cluster removes what is
to be removed. Failures, users, crashes, relists and expiry are never obliged to
happen.

## 4. Proofs

TLAPS checks every theorem for all values of the constants. The assumptions are those
stated with the constants: `NoKeyAssumption`, `RunsAssumption` (there is a worker),
`ReplicasAssumption` (a local job has one worker and no PS, as `checker.IsLocalJob` and
its callers have it; there is at least one worker), `JobsAssumption` (UIDs are positive numbers),
`PartsAssumption` (users do not write labels into templates themselves) and the
modules' `BoundsAssumption`.

| module | theorem | property |
|---|---|---|
| `ControllerRunProofs` | `TypeCorrect` | `TypeOK` |
| | `MutualExclusion` | `NoConcurrentSync` |
| | `Shape` | `QueueShape` |
| | `NothingLost` | `NoLostKey` |
| | `Refinement` | `ImplementsService` |
| | `RunTypeCorrect` | `RunTypeOK` |
| | `CacheComplete` | `CompleteBeforeWork` |
| | `QueueEmptied` | `NothingLeftBehind` |
| | `RunMutualExclusion` | `NoConcurrentSync` |
| | `RunRefinement` | `ImplementsService` |
| `TFJobControllerTypes` | `TypeCorrect` | `TypeOK` |
| | `KeyServed` | `ImplementsService` |
| `TFJobControllerProofs` | `UniqueIndices` | `IndexUnique` |
| | `ClaimsBounded` | `ClaimedWithinReplicas` |
| `SucceededProofs` | `SuccessIsEarned` | `SucceededEarned` |
| `FinalProofs` | `SuccessFinal`, without crashes | `SuccessIsFinal` |
| `ExpectationsProofs` | `ExpectationsAreExact`, undisturbed | `ExpectationsExact` |
| | `ExpectationsCover`, undisturbed | `ExpectationsCoverPods` |
| | `NothingCreatedBlind`, undisturbed | `NoBlindCreation` |
| | `VainOnlyByFailure` | `NothingInVain` |
| `ClaimPassProofs` | `TypeCorrect` | `TypeOK` |
| | `ClaimsOwned` | `ClaimedWereOwned` |
| | `PassesReconcile` | `PassReconciles` |
| | `OwnershipKept` | `ImplementsOwnership` |
| `CompositionProofs` | `TypeCorrect` | `TypeOK` |
| | `ForeseenSurvives` | `ForeseenNeverPanics` |
| | `HostsBelong` | `HostsOfOneLife` |
| | `ListedOnce` | `ListedServicesOnce` |
| | `OneStatus` | `StatusTypesDistinct` |

**The queue.** `NoConcurrentSync` is not inductive: a second worker could take a key
that is in the queue and being processed at once. `QueueInv` adds that `processing`
is exactly what the workers hold, that the queue's elements are dirty, unprocessed
and distinct, and that dirty keys are queued or held. `Get` moves a key from the
one side to the other, `Done` back. The refinement maps `Add` to a stutter, since
the key is pending on both sides of it, and needs `QueueInv` for `Get`.

**The process.** `QueueSteps` says that a step of the process is a step of the queue, a
stutter of it, or `Restart`; so `QueueInv` and the refinement are taken over, and `KeyService`
has a `Restart` that forgets every request. `RunInv` adds that only running
goroutines hold keys (`OnlyRunningHold`), that goroutines are launched after the cache is
complete (`LaunchedAfterSync`), and that workers that ended hold nothing, after the queue
was shut down (`ExitedIdle`): `NothingLeftBehind` follows because the last one leaves
only when the queue is empty, and `Done` has appended what it held.

**Claims, patch by patch.** An adoption made from a copy that shows no owner must
not hit an object that has one by now; the server's refusal sees to that. It must also not be
made for a TFJob that was gone when the pass began: `PermissionEarned` says that a manager
whose `CanAdopt` said yes began its pass while the TFJob existed. `ShownOwned` says that
an owner seen in a cache or a list has been the owner once. `Reconciling` is `PassReconciles`
for the part of the list the loop has dealt with. The mapping to `Ownership` forgets
lists, caches and calls.

**What syncs write.** `ForeseenNeverPanics` needs the fact that labels are where `GetSpec` looks
for them. A label is the RuntimeID of the TFJob that has it and only parts that
compose may label have one (`LabelsCurrent`); a TFJob with a RuntimeID has all its labels, unless
its parts were written anew (`LabelsThere`). Both hold of the server's and of the lister's
TFJob, so it does not matter which of them survives. A foreseen TFJob that lacks parameter
servers and no workers has claimed workers, which carry a RuntimeID other than 0, hence it has labels.
Services and pods have RuntimeIDs and names that have been drawn already (`PodsInv`,
`ServicesInv`), so those of a new sync collide with none of them. `ListersInv` says that the service
lister shows services that exist. Hence `ListedServicesOnce`: new services carry
a RuntimeID no service has, or the one for which the lister shows none of the type.

**Types.** `TypeInv` adds to `TypeOK` that a claimed collection does not hold one
object twice. The claims are a set of records; without this its cardinality
would not be the number of objects.

**Indices.** Each creation loop numbers from 0. `IndexInv` says that RuntimeIDs in
use have been drawn (`RidsDrawn`), that events are left over only while `manageTFJob`
works on them (`DuePhase`), that as long as the worker pods are due the job's
RuntimeID belongs to no worker pod (`FreshRuntimeID`), and that during the loop the
pods of this RuntimeID have indices below the loop's (`LoopIndex`).

**Success.** The updater counts claims, which come from a cache, which follows the
server. `EarnedInv` says that a pod that succeeded in the cache did so on the
server (`CacheFaithful`), and the same of the claims (`ClaimsFaithful`), that the
claims of workers carry the RuntimeID of the TFJob in hand, unless `compose` changed
it and their successes are too few to matter (`ClaimsCurrent`), and
that nothing is claimed before the passes (`NoClaimsYet`). It needs the guard of
`Action`: when `compose` changes the RuntimeID, fewer pods have succeeded than there
are replicas, so the count of the old RuntimeID does not pass for the new
one.

**Claims.** `BoundInv` says that indices and loops stay below the number of replicas
(`IndexBound`, `LoopBound`) and that the claimed pods are of one RuntimeID, if not
always the job's latest (`ClaimsAlike`). With `IndexUnique`, indices map the claims one to one into
`0..WorkerReplicas - 1`.

**Final success.** Success that was reported must be found again by every later sync that
may write. `FinalInv` follows the pods that were counted. They are in the cache as
succeeded pods of the job's RuntimeID (`SuccessCached`, `ClaimsCached`), which shows no
removal that has not happened (`RemovalsFaithful`). A sync whose write the server would
accept works on the TFJob as the server has it (`VersionInv`), hence with the same
RuntimeID (`CacheSettled` and its like), and `Action` draws a new one only when
too few workers succeeded. And it may claim these pods: a RuntimeID belongs to one incarnation of
the TFJob (`OneLife`), and no pod that carries it ever had another owner (`WorkersOwned`).
So the count reaches the replicas; `ClaimsBounded` says that it does not exceed them.
The theorem excludes crashes and nothing else. TLC finds `SuccessIsFinal` violated as soon as one
crash is allowed: after a restart a sync may run before the pods are listed, finds
none, creates the workers again and reports Running.

**Expectations.** `LocalInv` says of a local job that is not disturbed that a sync
creates one pod at most (`LocalLoop`), that the add event of a late pod will be the
TFJob's (`LateOwned`), that nothing is expected when a sync decides to create
(`Cleared`), and that there is one incarnation, of which nothing is expected before the
lister shows it (`OneJob`). The number of expectations then moves from term to term of
`ExpectationsExact`: from the creation to the late pods, from there to the events, and `addPod`
takes it off; a failed creation takes it off at once. *Undisturbed* means that five kinds of
events do not happen: timeouts of calls, expiry of expectations, crashes, and deletions of the TFJob in
the background and in the foreground. Each of them alone breaks
`ExpectationsCoverPods` in a run of TLC. Failures of calls, pods that fail, end or are
deleted, relists and writes of others are allowed in any number.

`VainOnlyByFailure` needs no hypothesis: crashes, expiry and
the loss of the TFJob set the number to 0 or leave it. `VainInv` says that a loop under way has something left
to create (`Looping`), and that nothing is expected of a first incarnation before the lister
shows it (`FirstLife`). Each creation then moves
one from the loop to the late objects, whether it reports success or a timeout, and each delivery
moves one to the events. An object whose add event will be somebody else's
does not count, so a release would add to the excess; that none can touch a
late object is the lister's doing: a pass works on what it lists. A creation that fails takes off what it
expected itself, and for a pod gives up the rest of the loop (`GivenUp`); loops of services go on.

**One key.** `KeyServed` maps a key that waits or is queued to one that is pending and a sync
to one that is handled. A request that comes in the middle of a sync is pending beside it, and a
crash is the service's restart. `CompositionProofs` and `ClaimPassProofs` need no such mapping, since
their syncs and passes begin whenever they like.

**Model-checked only.** `EveryKeyTaken`, `StopEndsProcess`, `EventuallySucceeded` and
`ExpectationsDrain` are liveness properties, which need fairness and `ENABLED` and
are out of the prover's reach. Every invariant and action property of a passing run is
proved, `SuccessIsFinal` and the expectations under the hypotheses above. No module uses
a RECURSIVE operator, and nothing is proved by induction over data.

## 5. Plan

Done: the queue and the process, one key with its faults, claiming call by call,
composition, and the proofs above. Next, in this order:

1. **Claiming in the sync**: the atomic `Claim` of `TFJobController` as an abstraction of a
   `ClaimPass` without rivals.
2. **Expectations in detail**: the record with its negative counters and its
   timestamp, several keys, concurrent handlers; the counter here as its
   refinement.

## 6. Not modelled

* `ReplicaSet` control (`pkg/controller/control/replicaset.go`): nothing calls it.
* The generated clientset, listers and informer factories; the version package;
  documentation, examples and build files: no state of their own.
* Event recording, metrics, logging; flags and kubeconfig, whose failure only ends the
  process before `Run`.
* Several TFJobs in one sync's view other than in `ClaimPass`. The RuntimeID in the
  selector keeps them apart.
* Parts without a template or a type (`GetSpec` and `IsLocalJob` dereference them), and labels that
  users put on templates themselves, which would be merged with those of `compose`.
* Ports, paths and the wording of the arguments. A TFJob with 0 parameter servers gets a
  `--ps_hosts` flag without hosts (`distributed.go:148`), which is for TensorFlow to judge.
