# A verification of the blue-green deployment controller

TLA+ models of the controller in this repository (`main.go`, `controller.go`,
`helpers.go`, `util/`, `pkg/apis`), TLC configurations that check them on small
instances, and TLAPS proofs of what holds for instances of any size.

## The system

A `BlueGreenDeployment` asks for some replicas of a pod spec.  The controller
keeps two ReplicaSets, `blue-rs` and `green-rs`, and one Service, `bgd-svc`,
whose selector carries the colour that gets the traffic.  A new pod spec is
rolled out by giving the idle colour the new spec, moving the Service to it,
and scaling the other one down.

| Component | State | Operations | Talks to |
|---|---|---|---|
| API types (`types.go`, CRD) | spec (replicas, pod spec), status (active colour) | – | everyone |
| API server | stored objects, watch events on their way | create, get, update, delete | people, controller, Kubernetes |
| Kubernetes | pods, ReplicaSet status | run pods, publish status, collect garbage | API server |
| Informer and handlers (`controller.go:107-172, 309-364`, `main.go:67-77`) | cache | Add, Update, resync, `handleObject` | watch → cache → queue |
| Work queue (client-go) | dirty, processing, delayed keys | Add, Get, Done, AddRateLimited, Forget | handlers, workers |
| Worker loop (`controller.go:206-252`) | key in hand | `processNextWorkItem` | queue, `syncHandler` |
| `syncHandler`, `reconcileActiveReplicaSet` (`controller.go:254-307, 366-450`) | local variables between calls | the sync itself | cache, API server |
| Helpers (`helpers.go`) | – | build objects, get/create/update/delete, wait for pods | API server |
| Hashing (`util/hashing.go`) | – | `ComputeHash` | – |
| Start and shutdown (`main.go`, `Run`, `pkg/signals`) | context, signals | start informers and 2 workers, cancel on a signal, shut the queue down | all of the process |
| Informer factory (`pkg/generated/informers`) | informers registered, started, their goroutines | `InformerFor`, `Start`, `Shutdown`, `WaitForCacheSync` | `main`, API server |
| Other processes of the controller (`main.go:79`: no leader election) | a cache, a queue, workers each | all of the above | API server only |
| Other generated code, scheme registration, event recorder, scripts | – | – | – |

### What is hard about it

* **Interleaving.**  A sync makes up to 14 calls to the API server, with waits
  of up to 30 s in between.  Edits, deletions, pods, garbage collection and the other worker's
  sync (of another key, but on the *same* ReplicaSets and Service: their names
  are fixed) happen in between.
* **Stale state.**  The sync starts from an object in the informer's cache.
  Its writes go to what is stored, which may be newer.
* **Partial failure.**  The status is flipped to the new colour first, the
  Service is moved last.  A crash or a failed call in between is followed by a
  sync that starts from the flipped status.
* **Conflicts.**  A Get and an Update have room between them for edits, for
  Kubernetes (which writes a ReplicaSet's status) and for another process.
* **Lost replies.**  A write whose reply is lost counts as failed but was done.
* **Timeouts.**  A wait for pods that gives up is logged, and the sync goes on.
* **Start-up and shutdown.**  Informers must be registered before the factories
  start them and be complete before the workers run; signals arrive at any point of it.
* **Queue protocol.**  Every key taken must be given back with Done, once, and
  with AddRateLimited if its sync failed.

The full list, each at its line and with the properties aimed at it, is
`hazards` in `PROJECT.json`.

### What makes each part correct

* queue and worker loop: a key is with one worker at most (`ExclusiveSync`); no
  failure or crash strands a key (`EveryChangeIsSynced`);
* informer: no change is missed (`QuietMeansConverged`), no version that is older
  than it looks (`ColorsStay`), and what has no events of its own is seen to all
  the same (`ReplicaSetsComeBack`);
* `syncHandler`: the Service always has a ReplicaSet behind it
  (`ServiceBacked`, `ServingIsNotDeleted`), is moved only to one that is up
  (`SwitchIsBacked`), the old one goes only when the new one is there
  (`ScaleDownAfterReady`, `ActiveIsNotScaledDown`), however old the version it
  starts from it leaves no outage behind (`OutageOnlyInRollover`), and the cluster
  comes to what is asked for (`EventuallyConverged`);
* the process: no sync before the caches are complete (`NoSyncBeforeCaches`), it
  comes up (`StartsUp`), it exits when told to (`StopsWhenTold`);
* its writes: a Get and an Update amount to one atomic write
  (`ImplementsAtomicWrites`);
* all of it together, to those who send traffic: the abstract `Switchover`
  (`ImplementsSwitchover`);
* the informer factory: each informer is run once, none after a shutdown
  (`RunOnce`, `QuietAfterShutdown`, `WaitedForAll`), and `main` uses it so
  (`ImplementsFactory`);
* garbage: nothing is left of a deleted `BlueGreenDeployment`
  (`NothingLeftBehind`).

## Modules

```
Cluster  WorkQueue          each line EXTENDS the one above it
   SyncHandler
   BlueGreenController      refines Switchover (INSTANCE)
      RolloutInvariant      BlueGreenProofs > RolloutProofs > ServiceProofs > ConvergenceProofs
      Claims
         MCBlueGreen
      ReadModifyWrite       refines BlueGreenController; RefinementProofs (over RolloutProofs)
         MCReadModifyWrite
      TwoControllers        a second SyncHandler (INSTANCE); TwoControllersProofs (over RolloutProofs)
         MCTwoControllers
WorkQueue
   Lifecycle                refines InformerFactory (INSTANCE); LifecycleProofs
InformerFactory             InformerFactoryProofs
```

**Cluster** – one namespace.  `bgd[k]` is the stored object named `k` (its uid,
pod spec, replicas, status colour), `rs[c]` the ReplicaSet `c-rs` (owner, pod
spec, wanted replicas, available pods, whether its generation has been
observed), `svc` the colour in the Service's selector, `watch[k]` the versions
the informer has yet to see.  Actions for people (`CreateBgd`, `EditSpec`,
`EditReplicas`, `DeleteBgd`, `DropService`, `DropReplicaSet`) and for
Kubernetes (`RunReplicaSet`, `PodFailure`, `CollectGarbage`) are external: they
are modelled from what the controller relies on.  `NewReplicaSet`, `NewService`,
`Scaled` and `SameHash` are the builders and comparisons of `helpers.go` and
`util/hashing.go`.

Pod specs are abstract values.  The API server fills defaults in when a
ReplicaSet is made: the constant `Defaulted`.  The hash is the constant `Hash`.

**WorkQueue** – client-go's rate-limited queue as the controller uses it.  The
queue proper is `dirty \ processing`.  Back-off delays are "some time later".

**SyncHandler** – the controller process.  `Deliver`, `Resync`, `HandleObject`
and `Retry` are what puts keys on the queue, `ProcessNextWorkItem` takes them.
A worker's step is one call to the API server with the local code up to the
next call; `pc[w]` names the call it makes next:

| `pc` | Call | Code |
|---|---|---|
| `lister` | read the cache | `controller.go:261` |
| `initStatus` | UpdateStatus to blue | `controller.go:274-288` |
| `getBlue`, `createBlue`, `waitBlue`, and green | get, create, wait | `helpers.go:101-120` |
| `getService`, `createService` | get, create | `helpers.go:157-172` |
| `compare` | none: compare hashes | `controller.go:383-400` |
| `flip` | UpdateStatus to the other colour | `controller.go:403-414` |
| `scaleUp`, `waitUp` | raise the idle ReplicaSet | `controller.go:418` |
| `delete`, `getNew`, `createNew`, `waitNew` | replace the idle ReplicaSet | `helpers.go:216-235` |
| `scaleDown`, `waitDown` | lower the old ReplicaSet | `controller.go:430` |
| `updateService` | move the Service | `controller.go:436-446` |

`b[w]` is `syncHandler`'s `bgd` (from the cache, then from each status update),
`seen[w]` the pod specs of the ReplicaSets it got: the comparison is made with
those, not with what is stored by then.  A call may be refused (`Refused`:
AlreadyExists, NotFound), fail with nothing done (`ApiError`), or be done and
fail (`Reply`, the lost reply).  Errors lead to `ReturnError`, except that an
error of `updateService` is a nil dereference on `controller.go:445`: the
process dies (`Restart`), since client-go's crash handler panics again.

`Restart` is a start in one step: the listed objects are on the queue and the new
workers idle.  `Lifecycle` has the steps.  That the process is started again is
assumed (the repository has no manifest for it).

**Lifecycle** – one process from start to exit.  `main` is where `main.go` and
`Run` are, or how the process ended: by itself, with status 1, killed by a
signal that came before there was a handler, or by the panic of a sync.  `handler`, `pending` and
`cancelled` are the goroutine, the channel of two and the context of
`signal.go`; `informer`, `synced` and `unnotified` an informer's way from
`InformerFor` over `Start` to its first list and the AddFunc calls that follow
it; `worker` and `hand` the two goroutines of `Run`, which here only hold a key
for a while.  The queue is that of `WorkQueue`, with its shutdown: what is in it is
still handed out, nothing more is taken in.

**BlueGreenController** – `Init`, `Next`, fairness, and what must hold.

**Switchover** – what the controller promises to those who send traffic: which
colour the status names, which ReplicaSets are meant to have pods, what the
Service selects, and how these may change, one at a time: an idle colour is
raised or replaced, the other one lowered only once the named one is up, the
Service moved only to a named colour that is up.  `Traffic` in
`BlueGreenController` is the refinement mapping.

**ReadModifyWrite** – the controller with each read-modify-write as a Get and an
Update.  `read[w]` is the object a worker got, `current[w]` whether its
resourceVersion is still the stored one; an Update is refused otherwise, and not
tried again.  UpdateStatus takes the status of what it is sent and the rest from
what is stored.  All other steps are those of `BlueGreenController`, whose `Spec`
it implements.

**TwoControllers** – two processes on one namespace, each with a cache, a queue
and workers of its own: `SyncHandler` twice, the second as an instance.  Each informer
is shown every write (`Shown`).

**InformerFactory** – the generated factory with any number of goroutines that
call it: its maps, which the lock guards, the wait group, and the two waits that do
not hold the lock.  `Factory` in `Lifecycle` maps `main`'s use of the factory of
the BlueGreenDeployments to it (that of the Deployments is client-go's).

**Claims** – what comments say and the code does not do.

**RolloutInvariant** – the inductive invariants of the proofs: `RolloutInv`,
`ServiceInv`, `OutageInv`, `SettledInv`, `ColorsStay`, and the assumptions that they need.

**MCBlueGreen**, **MCReadModifyWrite**, **MCTwoControllers** – instances for TLC
(`Lifecycle` needs none).

**BlueGreenProofs** (types, queue), **RolloutProofs** (the cache, a rollover),
**ServiceProofs** (the Service), **ConvergenceProofs** (the status, outages, convergence),
**RefinementProofs** (`Switchover`, `ReadModifyWrite`), **TwoControllersProofs**,
**LifecycleProofs**, **InformerFactoryProofs** – the theorems.

### Abstractions to know of

* In `SyncHandler` a read-modify-write (`updateBlueGreenDeployment`,
  `updateReplicaSet`, `updateService`) that succeeds is atomic, and a conflict is an
  `ApiError`.  `ReadModifyWrite` has the calls apart and is shown to come to the
  same.  A conflict is *not* tried again although the code runs in
  `RetryOnConflict`, because it is re-wrapped with `%v` (`helpers.go:136, 207, 248`)
  and no longer recognised.
* A poll fails on the first error and either way the sync goes on
  (`helpers.go:110-112, 188-191`): one event, `timeout`, stands for both.  A
  ReplicaSet that is gone ends the poll at once.
* `observed` is a Boolean, not a generation.  It differs from the comparison of
  generations only where two workers write the same ReplicaSet, and is the
  stricter there.
* Deletion takes effect at once.  Background deletion with a finalizer, under
  which a create of the same name meets AlreadyExists, is not modelled.
* Events of Deployments (`HandleObject`) are external: the controller makes none.

## Runs

Instances are of `MCBlueGreen`; those of `Lifecycle` say so.  `Budget` bounds how many of each event
(edits, deletions, faults, time-outs...) a behaviour has; an event it does not
name never happens.  It is the only bound on behaviours besides `MaxLag`, the
number of versions the cache may be behind when a worker reads it.

| Run | Instance | Checks |
|---|---|---|
| `Rollouts` | 1 key, 2 workers, 2 edits, 1 scaling, 1 timeout, 1 pod failure, lag 0; pod specs that lack defaults and ones that do not | `ServiceBacked`, `ServiceInv`, `ServingIsNotDeleted` |
| `Convergence` | 1 key, 2 workers, 2 edits, 2 replicas, 1 timeout, 1 pod failure, lag ≤ 2, fair | `EventuallyConverged`, `QuietMeansConverged`, `SettledInv`, `ColorsStay`, `OutageOnlyInRollover` |
| `Faults` | `MCReadModifyWrite`: 1 key, 2 workers, 2 edits, 1 crash, 1 failed call or conflict, 1 lost reply, a dropped Service, lag ≤ 1 | `TypeOK`, `ExclusiveSync`, `RolloutInv`, `ImplementsAtomicWrites`, `ImplementsSwitchover`, `SwitchIsBacked`, `ActiveIsNotScaledDown`, `ScaleDownAfterReady` |
| `Deletion` | 1 key, 1 worker, 2 creations, 2 deletions, dropped ReplicaSet, 1 failed call, 1 crash, lag ≤ 1, fair | `EveryChangeIsSynced`, `NothingLeftBehind`, `ReplicaSetsComeBack` |
| `Lifecycle` | `Lifecycle`: 2 keys, 2 workers, 3 signals, fair | `LifecycleTypeOK`, `NoSyncBeforeCaches`, `StartsUp`, `StopsWhenTold`, `ImplementsFactory` |

**Why these bounds are enough.**  Two colours and a sync that knows an old and a
new pod spec: three specs and two edits reach every branch (create, match,
scale up, replace, and back).  One fault of a kind is what separates a retry
from a first try; the second fault would strike the same retry.  Two workers
are enough for one to ask for the key the other has.  Three signals fill the
channel of two while its goroutine is slow.  The runs that refute a claim have what
their counterexample needs: two keys in `SharedNames`, three edits in `StaleSpec`, two
processes with one worker each in `TwoControllers`.  The theorems do away with the
bounds for what they cover.

**What is assumed, and where it matters.**  `ServiceBacked` and
`ServingIsNotDeleted` need a cache that is current when a sync starts (lag 0)
and no failed call: with either, they are violated (`StaleSpec`, and below).
`QuietMeansConverged`, `SettledInv` and `EventuallyConverged` hold up to a lag of
two in `Convergence` and are violated from three on, where a sync may set a status back;
with the shipped CRD (`FillIn`), where every sync flips, `SettledInv` is violated at two already.
`ColorsStay` (without deletions) and `OutageOnlyInRollover` (without failed calls) hold at any lag:
that is proved.  `Convergence` has no `scale`: a change of the replicas alone
is never acted upon (below).  Its `Converged` asks for the active
ReplicaSet only, with one replica where none is written: what is documented beyond that is
refuted by `Replicas`.
`Convergence`, `Faults` and `Deletion` (where it does not matter)
take `Defaulted` to be the identity: pod specs are stored as written and
complete.  The shipped CRD keeps a few fields only
(`crd-status-subresource.yaml:23-57`), so that under it no ReplicaSet ever matches
and there is nothing to converge to (`Defaults`); `Rollouts` has pod specs of
both kinds.

**Fairness** (`FairSpec`).  A worker that has a key goes on with it: no call
blocks for ever, the poll of a wait ends (weak).  The queue is first in, first out, so a key in it
is handed out in the end even if others come back again and again (strong, per
key).  Watch events, resyncs (30 s) and back-off timers keep coming; Kubernetes
runs pods and collects garbage (weak).  Nothing is assumed of people and faults.
In `Lifecycle` (weak but for the queue): `main`, the signal goroutine and the
workers go on, lists are answered, AddFunc calls come.  Nobody needs to send a
signal, and `StartsUp` holds only while nobody does.

**Deadlock** is checked, except in `Deletion` – with everything deleted and no
event left the system really stops – and for `Lifecycle`, where a process
ends.

### Runs that refute a claim

| Run | What the repository says | What the code does |
|---|---|---|
| `ScaleDownFirst` | the Service is moved, then the old ReplicaSet scaled down (`controller.go:369-377`) | the reverse (`430`, `436`): in between the Service selects a ReplicaSet without pods |
| `Defaults` | nothing is done if the active ReplicaSet matches (`controller.go:368`) | with the shipped CRD it never does; every sync, one each 30 s, flips |
| `SharedNames` | a resource not managed by the BlueGreenDeployment makes the sync fail (`controller.go:56-62`) | it is taken over: two BlueGreenDeployments replace each other's ReplicaSets |
| `Stuck` | the sync attempts to converge (`controller.go:254-255`) | after one failed call behind the flip it never does: the retry takes the new colour for the active one and returns at line 400 |
| `StaleSpec` | the *inactive* ReplicaSet is deleted (`controller.go:374`) | with a cache one version behind it may be the one the Service selects |
| `Replicas` | the replicas are the number of pods of *both* ReplicaSets, 1 if left out (`types.go:26-27`, `example-foo.yaml:6`, `README.md:51, 64-65`) | left out means 0 (`helpers.go:23`), and the inactive ReplicaSet has none (`24-26`; scaled down at `controller.go:430`) |
| `TwoControllers` | the status is initialised "if it is not set yet" (`controller.go:273`) | with two processes, which nothing prevents (`main.go:79`), one that has read the version before sets it back to blue after the other has flipped it |

### Divergences without a run of their own

Each follows from the same model, with the instance named:

* a crash behind the flip is like a failed call there: the next process takes
  the half-done rollout for complete (`README.md:90`: "picked up again");
* a failed call behind the flip and an edit: the retry deletes the serving
  ReplicaSet (instance of `Stuck`, property of `StaleSpec`);
* an error of `updateService` is not requeued, against "since we failed, we should
  requeue the item to work on later" (`controller.go:245-250`): the error path reads the name of
  the nil Service it was given (445), and the process dies (the action `ApiError`, which in
  that state is `Restart`);
* a single process, too, resets a status that is set, against "if it is
  not set yet" (`controller.go:273`): at a lag of three versions (of two with the shipped CRD, of
  one if objects are deleted and made again).  It does not when syncs start from at most the
  version before the stored one (`NotYetFlippedHolds`);
* an edit of `.spec.replicas` alone is never acted upon (`controller.go:399`,
  against `types.go:26`);
* a deleted Service comes back selecting blue, whichever colour is active
  (`helpers.go:75`, against `types.go:41-42`);
* "wait for workers to finish processing their current work items"
  (`controller.go:176-177`): `Run` returns at once, `main` with it, and the workers die
  in the middle of their syncs (instance of `Lifecycle`, the state
  `main = "returned"` with a worker at `"sync"`);
* two processes and an edit (instance of `TwoControllers`):
  either may take the other's half-done rollover for its own, and
  `ServiceBacked`, `SwitchIsBacked`, `ActiveIsNotScaledDown`, `ServingIsNotDeleted` and
  `QuietMeansConverged` are all violated; nothing in the
  repository says that only one may run;
* Kubernetes writes the status of a ReplicaSet while its pods start and stop, so a
  scaling of it may meet a conflict at any time, and the sync fails in the middle of
  the rollover (`helpers.go:205-207`, then as in `Stuck`); `RetryOnConflict` on line
  199 is there to avoid it;
* the Service has no owner and survives its BlueGreenDeployment (`README.md:106`);
  one created anew starts at blue (`controller.go:274`), and while the old Service selects
  green nothing moves it until the next rollout;
* pod specs with equal 32-bit hashes count as equal (`hashing.go:12`).

## Proofs

TLAPS checks, for any constants that satisfy `ClusterAssumption` and
`SyncAssumption` (types only) – any number of keys, workers, pod specs, events,
faults and any lag:

| Theorem | Says | Further assumptions |
|---|---|---|
| `TypeInvHolds`, `TypeCorrect` | `[]TypeInv`, `[]TypeOK` | none |
| `SyncsAreExclusive` | `[]ExclusiveSync` | none |
| `ColorsStayHolds` | `[]ColorsStay` | no deletions (`Budget["delete"] = 0`) |
| `RolloutInvHolds` | `[]RolloutInv` | `OneDeployment` |
| `SwitchIsBackedHolds` | `SwitchIsBacked` | `OneDeployment`, `SomeReplicas` |
| `ActiveIsNotScaledDownHolds` | `ActiveIsNotScaledDown` | `OneDeployment`, `SomeReplicas` |
| `ScaleDownAfterReadyHolds` | `ScaleDownAfterReady` | `OneDeployment`, `SomeReplicas`, `Patient` |
| `SwitchoverIsImplemented` | `ImplementsSwitchover` | `OneDeployment`, `SomeReplicas` |
| `AtomicWritesAreImplemented` | `DetailedSpec => ImplementsAtomicWrites` | none |
| `DetailedRolloutIsSafe` | types, exclusive syncs, `RolloutInv` and what follows from it, of `DetailedSpec` | `OneDeployment`, `SomeReplicas` |
| `OutageOnlyInRolloverHolds` | `[]OutageOnlyInRollover`, at any lag | `Undisturbed` |
| `ServiceInvHolds`, `ServiceBackedHolds` | `[]ServiceInv`, `[]ServiceBacked` | `Undisturbed`; of behaviours with `AlwaysStartsCurrent` |
| `ServingIsNotDeletedHolds` | `ServingIsNotDeleted` | the same |
| `SettledInvHolds` | `[]SettledInv` | `Faultless`, `FaithfulHash`; of behaviours with `[]NotYetFlipped` |
| `QuietMeansConvergedUnlessReset` | `[]QuietMeansConverged` | the same, `SomeReplicas` and no scaling |
| `QuietMeansConvergedHolds` | `[]QuietMeansConverged` | `Faultless`, `SomeReplicas`, `FaithfulHash`, `FreshEnough`, no scaling |
| `TwoTypesCorrect` | `[]TwoTypeOK` of `TwoSpec` | none |
| `LifecycleTypeCorrect`, `NoSyncBeforeCachesHolds` | `[]LifecycleTypeOK`, `[]NoSyncBeforeCaches` | none |
| `FactoryIsImplemented` | `ImplementsFactory` of `Lifecycle` | none |
| `RunOnceHolds`, `QuietAfterShutdownHolds`, `WaitedForAllHolds` | what callers of `InformerFactory` are promised | none |

What the assumptions (in `RolloutInvariant`) say, and why they are there:

* `OneDeployment`: one key, and nobody deletes the BlueGreenDeployment or a
  ReplicaSet by hand.  Any number of edits, scalings, crashes, failed calls, lost
  replies, dropped Services, and any lag are allowed.  With a second key
  `SwitchIsBacked` and `ActiveIsNotScaledDown` are false (`SharedNames` shows the mechanism).
* `SomeReplicas`: users write a positive number of replicas.  With none the
  Service is moved to a ReplicaSet without pods (`Replicas`).
* `Patient`: no poll gives up and no pod fails; otherwise the sync goes on to scale
  the old ReplicaSet down, by design of `helpers.go:188-191`.
* `Faultless`: `OneDeployment`, no failed call, lost reply or crash, and nobody
  deletes the Service.  Edits, scalings, polls that give up and pod failures are
  allowed, in any number.  A failed call behind the flip leaves the cluster unconverged
  (`Stuck`), and a Service made anew selects blue.
* `Undisturbed`: `Faultless` and `SomeReplicas`.
* `AlwaysStartsCurrent`, of a behaviour: no sync starts from a version with another
  colour than the stored one.  *The code does not see to that*, and `StaleSpec` shows
  what comes of it.  The theorems say that nothing else makes the Service lose its pods:
  versions with an old pod spec or number of replicas, any edits, polls that give up and pods that
  fail do not.  A cache that is current when a sync starts is one way to have it
  (`StartsCurrentWithoutLag`), as in `Rollouts`.
* `FreshEnough`: a sync starts from the version before the stored one at the
  oldest, or from the stored one if objects are deleted.  The code does not bound the
  age of a version either; beyond, a status may be
  reset (see the divergences).  `[]NotYetFlipped` says of a behaviour that none
  is about to be, and then the lag does not matter.
* `FaithfulHash`: no two pod specs that differ once stored have the same hash.
  Otherwise an edit from the one to the other is never rolled out.
* No scaling (`Budget["scale"] = 0`): a change of the replicas alone is never acted
  upon (`controller.go:399`).

**The arguments.**  `TypeOK` is not inductive: that `NewReplicaSet` builds a
ReplicaSet needs a worker at `createBlue` to hold an object, and that a Done
gives back the right key needs the queue's `processing` to be the keys the
workers hold.  `TypeInv` adds `WorkerState` and `ExclusiveSync`.
That the last version on its way to a cache is the stored one (`CacheCatchesUp`, a lemma)
is built into the model of the watch: every step writes one version to both `bgd` and
the end of `watch`, or moves the head of `watch` to the cache, or lists (`VersionStep`).

A worker moves the Service on the word of its own `pc` and `b`, so
`SwitchIsBacked` needs to know what those say of the cluster: `Rollover`.  From
the flip on, the stored status has the worker's colour; from `getNew` until the create
the ReplicaSet is gone; after the create or scaling it is there with the
wanted replicas.  To keep it through everyone else's steps one needs that no
other worker is busy (`ExclusiveSync`, one key), that edits keep the status, that
the budget of deletions stays spent (`Spending`), and that the garbage collector finds
the ReplicaSet's owner alive (`Owned`), which in turn needs that all versions of
the object, stored, cached, on their way or in hand, have one uid (`OneUid`).
Together they are `RolloutInv`, which TLC checks in `Faults`.

`Switchover` needs no more than `RolloutInv`: a ReplicaSet that is created,
deleted or scaled up has the colour in the status, and the other one is scaled
down when that one is there.  The Gets and Updates of `ReadModifyWrite` map to
steps of `Spec` since an object that is `current` is the stored one (`ReadInv`): an Update that is
accepted is then the atomic step, a Get changes nothing that `Spec` sees.

`ServiceBacked` relates the Service to the status across syncs, which the steps of
a rollover break and mend: `ServiceInv` says for each `pc` which of the two it is.  At
rest the Service is at the colour of the status and its ReplicaSet is raised
(`AtRest`); from the flip to the last call it is at the other one, which keeps its
pods until it is scaled down (`StillServing`); and what a worker has got or made is
there until it deletes it itself (`Found`), so that no call of it fails.  That a sync
starts from the stored colour is `AlwaysStartsCurrent`.

Without that the Service may be at either colour when a rollover starts, and the ReplicaSet
that is replaced may be the one that serves.  `OutageOnlyInRollover` says that
it ends well: `OutageInv` lets the Service be at either colour (`RollsFromAny`) and asks
only that it is raised but where the rollover itself makes room or is about to move it.  At
rest it is at some raised ReplicaSet (`RestsSomewhere`).  Three things keep it so: a worker that
rolls over has found both ReplicaSets and the Service, so that none of its calls is refused;
it raises its own colour before it lowers the other; and it moves
the Service to its own at the end wherever it was.

`ColorsStay` is about the order of versions: in what
the informer has seen and has yet to see, a version without a colour is followed by
none with another colour than blue (`Follows`), since colours are initialised before they are
flipped; and none has a colour before the stored one has (`NotAhead`).  That holds at any lag, without
deletions.  With it a worker that holds the version before the stored one, and finds
no colour in it, knows that the stored one is not green; and it stays
so while the worker is there, since only that worker flips (`NotYetFlippedHolds`, a lemma that
needs `FreshEnough`).

`QuietMeansConverged` is about changes that come while a sync is under way, and
`SettledInv` says that none is missed: either a version is on its way or the key waits
in the queue (`Pending`), or a worker is at it, or it is settled; and a worker that
does not hold the stored version has `Pending` to make up for it (`UpToDate`).  A sync of an
old version does the wrong thing, but leaves the cluster in a state that the next one
can start from: the Service at the colour of the status, the other ReplicaSet scaled down
(`Resting`), whatever the pod specs.  For that no call of it may fail: the rollover to a colour finds
both ReplicaSets since a version is green only once both have been made (`VersionsAgree`), and a
version that is blue, or has no colour, makes them.  A poll that gives up
does not disturb this; replicas left out do not disturb `SettledInv`, but what is settled
then is a ReplicaSet without pods.

The types of `TwoControllers` are proved apart: to either process, a step of the other is one of
the cluster, that writes some objects.  All of `BlueGreenProofs` and `RolloutProofs` is
applied a second time, to the second process (`P2`, an INSTANCE).

In `InformerFactory` a started informer has one goroutine at most, one not started
none; a call of Shutdown that waits has set the flag under the lock, after which Start adds
none; so when the count has come to 0 it stays there.

`NoSyncBeforeCaches` needs where `main` is: the caches are complete once it is
past `WaitForCacheSync`, and there are no workers before (`CachesFirst`).  No
cache becomes incomplete again.  The types are inductive only with `Holding`: a worker
in a sync has a key to give back.

**Model-checked only.**  Liveness (`EventuallyConverged`, `EveryChangeIsSynced`,
`NothingLeftBehind`, `ReplicaSetsComeBack`, `StartsUp`, `StopsWhenTold`) is beyond the provers.  That
`SettledInv` and `QuietMeansConverged` hold at a lag of two, with pod specs that are stored as
written, is shown by `Convergence` only: it depends on which syncs find their ReplicaSet
matching.  The proof without `NotYetFlipped` stops at one, where it does not.

## Not modelled

* `defaultFields` (`helpers.go:257-285`): nothing calls it.  Nor would it help: it
  fills in the first container only and a grace period of 0 where admission has 30
  (273), and writes through UpdateStatus, which does not take the spec.
* FNV-1a and the JSON it is fed (`util/hashing.go`): the hash is any function of the
  pod spec.
* What a sync does during a shutdown: `Run` returns without waiting for its
  workers (see above), so to the cluster it is a crash, which is `Crash`.
* The meaning of flags and kube configs: clients are built or the process exits.
* Options, transforms and custom resync periods of the informer factory: configuration
  that `main` does not use.
* Other generated code, scheme registration: no behaviour of their own.  Events and
  logs: write-only.
* Names and namespaces: one namespace; the fixed names make namespaces
  independent of each other.

## Plan

Done: `Cluster`, `WorkQueue`, `SyncHandler`, `BlueGreenController`, `Lifecycle`;
the abstract `Switchover`, the `ReadModifyWrite` that implements the atomic writes, two
processes, the informer factory; the proofs of the inductive invariants, of the
three refinements and of what follows from them.  What could come next:

1. `Lifecycle` as an implementation of `Restart`: the start in one step that
   `SyncHandler` has is what its steps amount to.
2. `NotYetFlipped` at a lag of two for pod specs that are stored as written.
3. `FifoQueue`: client-go's queue with its list, shown to implement `WorkQueue`,
   and the strong fairness of `ProcessNextWorkItem` derived from weak.  It is code
   outside this repository.
