# Formal models of the projection operator

TLA+ models of the Kubernetes operator in this repository, TLC configurations
that check them on small instances, and TLAPS proofs of the most important
properties for all instances. Paths such as `cleanup.go` are relative to
`internal/controller/`.

## 1. The system

The operator mirrors one *source* object into *destinations*. A namespaced
`Projection` writes one copy into its own namespace, a cluster-scoped
`ClusterProjection` writes a copy into many. The state that matters is spread
over the apiserver, which everybody writes to, and one manager process that
caches parts of it.

| Part | State it keeps | Operations | Talks to |
|---|---|---|---|
| Namespaced reconciler (`projection_controller.go`, `finalizer.go`, `cleanup.go`, `conditions.go`, `source.go`) | none across reconciles, except the maps of registered watches; a copy of the Projection during one | Reconcile: finalizer, resolve, watch, fetch source, policy, write, watch, status; deletion; clean-up | apiserver through a cached client (Projections), an uncached one (destinations) and the dynamic client (sources, deletes) |
| Destination algebra (`destination.go`) | none | build, stamp, ownership test, diff, preserve allocated fields | called by both reconcilers |
| Source policy and resolution (`source.go`) | the RESTMapper's cache | resolveGVR, checkProjectable, the 404 path | discovery |
| Dynamic watches (`watches.go`) | per process: kinds with a source watch, kinds with a destination watch | register once per kind, map an event to reconcile requests | informers, workqueue |
| Cluster reconciler (`cluster_projection_controller.go`) | as above, and the namespace informer | the same reconcile, target resolution, fan-out over a worker pool, stale clean-up, counts | as above |
| Manager (`cmd/main.go`, controller-runtime) | informer caches, workqueues, backoff timers | start, requeue, leader election | all of the above |
| API types (`api/v1`) | the custom resources | admission validation | apiserver |

The parts share no memory but through the apiserver and the workqueue. What is
hard about them:

* **Every reconcile is a sequence of requests on copies read earlier**, and
  users, informers and crashes interleave with it: ownership is checked in one
  request and acted on in the next, the Projection comes from a cache that lags.
* **A request may fail before or after it took effect**, and the process may die
  between any two.
* **Nothing is polled.** After a success no reconcile is scheduled, so
  convergence rests on events: watches that are registered lazily, start late,
  are filtered by a label and mapped through the lagging cache.
* **Own writes are events too**, so a diff that never settles would loop.
* **Fan-out is concurrent**: feeder, workers, closer and collector.
* **Namespaces come and go**, and reach the cluster reconciler through two
  informers with no order between them: one says when to look, the other what
  is there.
* **The two tiers share objects** and know each other only by annotations, which
  also travel with a source that is a copy itself.

What makes each part correct: the reconciler leaves no stamped object behind
without somebody responsible for it, never overwrites or deletes what is not
its own, never undoes what a user did to a Projection, and ends up with
destination and status as the spec and the source say; the algebra stamps
whatever it builds and asks for no update that the apiserver refuses; the
watches lose no change that matters; the fan-out attempts each namespace once
and reports exactly what happened. `PROJECT.json` lists the individual hazards
with the line where each one bites and the properties aimed at it.

## 2. Modules

| Module | Models | Used by |
|---|---|---|
| `Destination` | `destination.go` and `checkProjectable`: objects as records of annotations, labels, body and allocated field; building, stamping, ownership, diff | both reconcilers |
| `ProjectionController` | the namespaced reconciler, the apiserver, the manager around it, users and faults | `MCProjection`, `TwoTiers` |
| `ClusterProjectionController` | the cluster reconciler, the namespaces and the namespace controller, in the same surroundings | `MCCluster`, `TwoTiers` |
| `FanOut` | `fanOut` and `writeClusterDestination`: the worker pool of one fan-out, with its inductive invariant | `MCFanOut` |
| `TwoTiers` | both reconcilers in one manager on the same objects | `MCTwoTiers` |
| `Mirror` | the abstract specification: who may hold a destination, and when | refined by both reconcilers and by `TwoTiers` |
| `NamespaceWrites` | the abstract specification of a fan-out: one independent attempt per target, then a report | refined by `FanOut` |
| `ProjectionInvariant`, `ClusterInvariant` | the inductive invariants of the two reconcilers and their refinement mappings | `MCProjection`, `MCCluster` |
| `ProjectionProofs`, `ClusterProofs`, `FanOutProofs` | the TLAPS proofs of types, inductive invariants and what follows from them | `tlapm` |
| `ProjectionRefinement`, `ClusterRefinement`, `FanOutRefinement` | the TLAPS proofs of the refinements | `tlapm` |
| `MCProjection`, `MCCluster`, `MCFanOut`, `MCTwoTiers` | constants of the small instances | TLC |

Definitions named `X_y` beside a definition `X` are `X` with a plausible mistake.
No behaviour uses them; `PROJECT.json` pairs each with a property that it breaks.

### Mirror

A *place* is free, in foreign hands or held by an owner. An owner claims a place
only when it is free and while its finalizer is stored, and gives the finalizer
up only when it holds nothing; outsiders may clear or take any place at any time.
Two things follow that users rely on: nobody's object is ever overwritten, and
nothing is left behind. Requests, caches, retries, crashes and users' edits
are steps or stutters of it. The mapping is the same in all three modules that
refine it: `guarded` are the custom resources with a stored finalizer, `holder` is
read off the ownership annotation. Places of a kind that the apiserver may not
serve are left out: the finalizer does let go of those.

### ProjectionController

*Apiserver*: `objects`, `crs` (the Projections), `served`. *Manager*: `cache` and
`cacheFresh` (the Projection informer), `queue`, `delayed` (RequeueAfter and
backoff), `mapped` (RESTMapper), `watched`, `watchedDests`. *The reconcile in
progress*: `pc`, `key`, `proj`, `projFresh`, `dst`, `exFresh`, `sweep`, `reason`.

There is one action per apiserver request, named after the function that makes
it; `pc` names the request that comes next. Whatever the code does between two
requests belongs to the action of the first one.

| `pc` | Code | Leads to |
|---|---|---|
| `idle` -> `Reconcile(p)` | `Reconcile` up to the first request | deletion, finalizer, or resolve |
| `ensureFinalizer` | `finalizer.go:64` | `resolveGVR`, or return with the error |
| `resolveGVR` | `source.go:76` | `ensureSourceWatch`, or status |
| `ensureSourceWatch` | `watches.go:61`; an error is only logged | `getSource` |
| `getSource` | Get, `handleSourceFetchError`, `checkProjectable`, `buildDestination` | `listOwned`, `deleteDestination`, `getDest` or status |
| `listOwned`, `deleteListed` | `deleteAllOwnedDestinations` | status |
| `deleteDestination`, `deleteOwned` | `deleteDestination`, from `handleDeletion` and from the opt-out path | `removeFinalizer`, status, or return with the error |
| `removeFinalizer` | `finalizer.go:52` | return |
| `getDest`, `create`, `update` | `writeDestination` | `watchDest` or status |
| `watchDest` | `ensureNamespacedDestWatch` | status |
| `flush` | the `Status().Update` of `failSource`, `failDestination`, `markAllReady` | return |

Every request is answered, lost, or applied with its answer lost (`Replies`).
Besides: the informer catches up (`CacheSync`), timers fire (`Requeue`),
watches start (`WatchStarts`, `DestWatchStarts`), the periodic resync
(`ResyncTick`), a crash with restart (`Restart`), and users who create, edit and
delete Projections, sources and destinations, change the opt-in, strip the
annotation or the label; a kind may stop being served.

Abstractions, chosen so that no property depends on what they hide:

* resourceVersions are "this copy is still the stored one" flags, cleared by
  every other write;
* the Projection informer may skip intermediate states, and sources and
  destinations are read from the apiserver, so for them only the request that
  an event enqueues matters: it is computed when the write happens, from the
  cache as it is then;
* a kind stands for a resolved group/version/kind, owner keys are the members of
  `Projections`, and a kind the operator refuses as cluster-scoped is one that
  does not resolve;
* a condition is its reason; messages, events, metrics and logs are left out.
  Finalizers of other controllers, and requests of a dead process that arrive
  after the restart, are left out as well.

`PromptWatches` and `Resync` select what is assumed of the watches: with
`PromptWatches` a watch delivers from its registration on, without it it starts
some time later; `Resync` adds controller-runtime's periodic resync.

### ClusterProjectionController

The same apiserver and manager with `cps`, `cpCache`, `cpQueue` and so on for the
ClusterProjections, and the namespaces: `nss` (active, terminating or gone, with or
without the selected label), `nsCache` (the cached List of
`resolveTargetNamespaces`, whose informer starts with the first List) and
`nsEvents` (the metadata events that `mapNamespace` receives). The namespace
controller (`Terminate`) empties a deleted namespace one object at a time.

A reconcile is the record `run`; `run.step` names its next request.

| `run.step` | Code | Leads to |
|---|---|---|
| `idle` -> `Reconcile(p)` | `Reconcile` up to the first request | finalizer or resolve |
| `ensureClusterFinalizer` | `finalizer.go:100` | `resolveGVR`, or return with the error |
| `resolveGVR` | for the source, and for `deleteClusterDestination` | watch, sweep, `removeFinalizer` or status |
| `ensureSourceWatch`, `getSource` | as in the namespaced tier, then `resolveTargetNamespaces` and `buildClusterDestination` | `fanOut`, `listOwned` or status |
| `fanOut` | `getDest(n)`, `writeDest(n)`: `writeClusterDestination` in each target | `listOwned` after the last one |
| `listOwned`, `deleteListed` | `deleteClusterOwnedDestinations`, keeping the targets after a fan-out and nothing otherwise | `ensureClusterDestWatch`, status, `removeFinalizer`, or return with the error |
| `removeFinalizer` | `finalizer.go:87` | return |
| `ensureClusterDestWatch` | and the rollup of the results | status |
| `flush` | `failClusterSource`, `failClusterDestination`, `rollup` | return |

The pool of `fanOut` is abstracted to its effect: the requests of different
namespaces interleave freely and the fan-out ends when all are done
(`NamespaceWrites`). `FanOut` implements just that, checked by TLC with fewer workers
than targets and with one for each, and proved for every pool. A selector is
the matching one (`"mirror"`) or one that `LabelSelectorAsSelector` or the
emptiness check refuses (`"refused"`). Watches deliver from their registration on,
and there is no periodic resync. A List from the namespace cache does not fail.

`OrderedInformers` says that the namespace events are not delivered before the
informer behind the List has seen the same change. Nothing in the code
guarantees it: the two are separate watches. `cluster_converge` assumes it, and
`namespace_gap` shows what happens without.

### FanOut

One fan-out: the calling goroutine feeds and collects (`Feed`, `CloseJobs`,
`Collect`, `Return`), workers take a namespace, read, write and report
(`Receive`, `Get`, `Write`, `Send`), one goroutine closes the results
(`CloseResults`), users touch the same objects (`UserTouches`). A destination is
one of four cases the code tells apart. `Starts` gives the target sets, the
settings of `SelectorWriteConcurrency` (0 for "not set") and what is found in the
namespaces.

`NamespaceWrites` is the fan-out as its caller sees it: every target is read, then
created, updated or left alone, once and independently of the others, and the
report comes after the last attempt. Its five attempt states are the values of
`run.at` in `ClusterProjectionController`. A target maps to the attempt of the
worker that has it in hand, to "get" while it waits to be fed or received, and to
the outcome on its way from the worker to the rollup.

### TwoTiers

`N` and `C` are the two reconcilers. They share `objects`, `served`, `mapped` (one
RESTMapper) and the counters of the environment. A step of either is joined with
what the other one sees of it: the events of the changed objects, and a fetched
destination that is no longer current (`C!Observes`, `NamespacedObserves`). A crash
hits both. Annotations of one tier travel to the other through a source that is
itself a copy.

## 3. Model checking

| Run | Instance | Result |
|---|---|---|
| `safety` | one Projection, two incarnations, 3 user steps, 1 failed request or crash | `TypeOK`, `IInv`, `NoOrphan`, `WritesOnlyOwned`, `KeepsUserIntent` and the refinement `Mirrors` hold |
| `contention` | two Projections on one destination, two overlays each, 1 user step, fair | `Mirrors` and `Converges` hold: the destination does not change hands directly, and the loser takes over when the winner lets go |
| `converge_watch` | one Projection, two overlays, two bodies, 1 user step, 1 fault, prompt watches, no resync, fair | `Converges` and `Quiesces` hold |
| `converge_resync` | late watches, one failed watch or discovery request, a kind that comes and goes, stripped labels, 2 user steps, resync, fair | `Converges` holds |
| `fan_out` | up to 3 targets, pool sizes unset, 1, 2, 1 fault, 1 user step, fair | `TypeOK`, `IInv`, `OnePlace`, `Accounted`, `NoSendAfterClose`, `Capped`, `NeverClobbers`, `Terminates` and the refinement `Independent` of `NamespaceWrites` hold |
| `cluster` | a ClusterProjection over two namespaces by selector or list, or of a kind that is not served; two incarnations, 2 user steps, 1 failed request, sweep, watch or crash | `TypeOK`, `IInv`, `WritesOnlyOwned` and the refinement `Mirrors` hold |
| `cluster_converge` | the same with a refused selector, namespaces that are created, deleted and relabelled, strangers and an opt-out; 1 user step, 1 fault, fair | `KeepsUserIntent` and `Converges` hold: every target and no other namespace has its copy, the counts are right, and the reason is that of the code or of the documents |
| `two_tier` | a Projection and a ClusterProjection on one destination, one of them deleted, one crash, fair | `Mirrors` and `Converges` hold: neither takes the object from the other, and either takes over when the other lets go |
| `escape_hatch` | 2 user steps | violates `DeletesOnlyOwned` |
| `rename_orphan` | two destination names | violates `NoOrphan` |
| `tier_fight` | a Projection whose source is a copy made by a ClusterProjection; no user, no fault | violates `TiersApart` |
| `namespace_gap` | a selector, one label edit, informers in any order, fair | violates `Converges` |

The last four state what a document or a comment of the repository says, and
what the code does instead:

* *escape hatch* (`cleanup.go:61`, `docs/concepts.md:187,219`): the ownership check
  and the Delete are two requests and the Delete has no precondition, so an
  annotation stripped in between does not save the object;
* *rename* (`cleanup.go:43`, `docs/index.md:96`): clean-up looks at the coordinates
  of the current spec, so the object of an earlier name survives its Projection;
* *tier fight* (`destination.go:208` against the comment at `destination.go:38`):
  `buildDestinationCore` keeps the other tier's stamps of its source. A
  Projection that mirrors a ClusterProjection's copy produces an object with both,
  the stale sweep of the cluster tier finds its own UID and annotation on it in a
  namespace that is no target, deletes it, and the Projection writes it again;
* *namespace gap* (`cluster_projection_controller.go:219`, `docs/crd-reference.md:271`):
  a label event answered from a List that has not seen the label leaves the
  old target set in place, and no further event comes.

Other differences and limits, met on the way, that have no run of their own:

* the documents and the code differ about the reason in the status of a
  ClusterProjection, in three cases that `cluster_converge` and `two_tier` reach:
  - *a failed fan-out*: the code reports `DestinationWriteFailed` for every one
    (`cluster_projection_controller.go:178`). The documents reserve it for mixed
    failures and have a reason that all failing namespaces share, such as
    `DestinationConflict`, reported as it is (`docs/troubleshooting.md:305`,
    `docs/crd-reference.md:287`, `docs/observability.md:81,103`,
    `docs/concepts.md:201`);
  - *a selector that cannot be resolved, or a failed List*: `TargetResolutionFailed`
    in the code and its test (`cluster_projection_controller.go:153`,
    `cluster_projection_controller_test.go:665`), `NamespaceResolutionFailed` in the
    documents (`docs/crd-reference.md:289`, `docs/troubleshooting.md:216-223`,
    `docs/getting-started.md:438`, `docs/observability.md:81,104`);
  - *a listed namespace that does not exist*: for the code a failed target like any
    other, a refused Create (`destination.go:403`), so the rest is written and the
    reason is `DestinationWriteFailed`; `NamespaceResolutionFailed` in
    `docs/troubleshooting.md:224` and `docs/observability.md:104`, and by the rule on
    shared reasons it would be `DestinationCreateFailed`.

  The model does what the code does (`rollup`, `failClusterDestination`). `Converges`
  is not to decide which of the two is right: `Settled` accepts the code's reason
  and the documents' (`RollupReasons`, `ResolutionReasons`), and demands copies,
  counts and destination name exactly, and the reason wherever the two agree. In
  the model the code's reason is the only one that occurs, so an instance with a
  taken-over copy or a refused selector does show the difference;
* every resolution error counts as "the kind is gone" during a deletion, a failed
  discovery request of a freshly started process included, and releases the
  finalizer (`cleanup.go:38`); this is why `Tidy`, and the runs of `Mirrors`, keep
  discovery faults out;
* the destination watch's predicate sees the new object of an update, so the edit
  that removes the label is not noticed (`watches.go:161`), and a watch is
  registered before it delivers (`projection_controller.go:193`); convergence then
  takes the periodic resync, as in `converge_resync`;
* a failed stale sweep is only logged and not retried
  (`cluster_projection_controller.go:161`, compare `docs/concepts.md:143`); `cluster`
  has this fault, as the finalizer still finds the leftover, and
  `cluster_converge` has not;
* the sweeps look for the kind of the current spec, so copies of an earlier
  `source.kind` are not found again by any of them; an edit of the destination name
  of a ClusterProjection leaves the copies of the old name until its deletion.
  The runs keep kind and name of a spec that has been reconciled;
* `status.destinationName` is set after a fan-out that failed everywhere and
  survives a change of the source, so a source that never was mirrored may be
  reported as `SourceDeleted`; `Converges` accepts both reasons;
* the help text of `--requeue-interval` and the comment on `RequeueInterval` speak of a
  retry after a *successful* reconcile, and `Reconcile` schedules none
  (`projection_controller.go:202`).

**Bounds.** `MaxUserSteps`, `MaxFaults` and `MaxIncarnations` bound how much the
environment does, never what the operator does in response: each run explores
all reactions to the end. One Projection with two incarnations is enough for a
stale copy to meet its successor; two Projections are enough for a collision, and
the third party is a user's object at the destination (`UserCoords`). Three user
steps allow delete, re-create and one interference; one fault may hit any
request. One kind, with an allocated field, suffices because kinds do not
interact; the cluster instance adds one that is not served. Two namespaces
make a fan-out with one success and one failure, a sweep with one Delete done
and one to go, and a namespace that joins or leaves the targets while the
other stays. Three targets with one or two workers have a busy, a waiting and
a queued job at once; `MCStarts` takes one representative of the starts that
differ only in the names of namespaces or in what lies outside the targets,
which `fanOut` never looks at, and leaves out the default pool with three
targets, where every job has a worker of its own as it has with two. Where both tiers meet, one
object, one Projection and one ClusterProjection are all that can collide.

`CHECK_DEADLOCK FALSE` everywhere: the operator is meant to come to rest, and
the environment is bounded.

**Fairness** (`FairSpec`). The reconcile in progress continues (requests have
deadlines), informers catch up, timers fire, watches start and the namespace
controller does its work: weak fairness of each. `Reconcile(p)` gets strong
fairness, because the workqueue serves its keys in turn and `Reconcile(p)` is
disabled while another key is worked on. Faults, crashes and users are never
forced. In `FanOut` every goroutine is scheduled. `TwoTiers` assumes
less: the worker of each controller goes on, with whichever key it takes, and the
informers and timers of both do their work.

## 4. Proofs

All theorems are about `Spec` of their module (no fairness), for all constants that
satisfy the named assumptions in it. Three of those say what a reader should
know: objects that users create do not carry the operator's stamp
(`ClusterPlainAssumption` and its namespaced counterpart), there are finitely many
namespaces, and `None` and `Absent` are no name, no reason and no object. The
others are about shapes: coordinates are closed under "the same name in another
namespace", specs are well formed, bounds are natural numbers. The bounds are
arbitrary, so the proofs cover any number of user steps, faults and incarnations.

| Module | Theorem | States |
|---|---|---|
| `ProjectionProofs` | `TypeCorrect` | `Spec => []TypeOK`, with the operands of every pending request |
| | `Invariance` | `Spec => []IInv` |
| | `NoOrphans` | `Tidy => (Spec => []NoOrphan)` |
| | `OverwritesOnlyOwned` | `Spec => WritesOnlyOwned` |
| | `KeepsIntent` | `Spec => KeepsUserIntent` |
| `ProjectionRefinement` | `Refinement` | `Tidy => (Spec => Mirrors)` |
| `ClusterProofs` | `TypeCorrect` | `Spec => []TypeOK`, with the operands of every pending request |
| | `Invariance` | `Spec => []IInv` |
| | `OverwritesOnlyOwned` | `Spec => WritesOnlyOwned` |
| | `KeepsIntent` | `Spec => KeepsUserIntent` |
| `ClusterRefinement` | `Refinement` | `Tidy => (Spec => Mirrors)` |
| `FanOutProofs` | `TypeCorrect`, `Invariance` | `Spec => []TypeOK`, `Spec => []IInv` |
| | `EachOnce` | `Spec => []OnePlace` |
| | `RollupExact` | `Spec => []Accounted` |
| | `NeverSendsAfterClose` | `Spec => []NoSendAfterClose` |
| | `PoolCapped` | `Spec => []Capped` |
| | `ClobbersNothing` | `Spec => NeverClobbers` |
| `FanOutRefinement` | `PoolIndependent` | `Spec => Independent` |

### The namespaced reconciler

`NoOrphan` is far from inductive. `IInv` adds what each phase knows about the
copies it works from:

* `CopiesInv`: a copy flagged as current *is* the stored object;
* `FinalizerInv`: a cached live copy with the finalizer means that the stored
  Projection still has it; a cached copy marked as deleting means that the stored one
  will never be written for again; a reconcile past `ensureFinalizer` works for a
  guarded Projection, even if its copy is stale, as only the reconciler removes
  finalizers and it does one thing at a time;
* `WriteInv`: what is about to be written is stamped, and what was read for an
  update was ours as long as it is unchanged;
* `HomeInv`: a stamp is only found where one of the Projection's specs points;
* `CleanInv`: when the finalizer is about to go, nothing carries the stamp.

`CleanInv` and `NoOrphan` need `Tidy`: specs of one Projection agree on the
destination, and the RESTMapper fails only for kinds that are not served. The
run `rename_orphan` shows that the first cannot be dropped, `cleanup.go:38` why the
second cannot. `safety` checks `IInv` with TLC. The proof that steps preserve it
has one lemma per group of actions; `WritesOnlyOwned` and `KeepsUserIntent` follow
from `WriteInv` and `CopiesInv` with the acceptance rules of the apiserver.

`Refinement` builds on it. A step changes Projections or objects, never both. If
it changes a Projection (`ProjectionStep`), it is a `Guard`, a `Release` or a
stutter, and a `Release` is allowed because `NoOrphan` holds in the *next* state,
where the holders are still the same. If it changes the object at one place
(`ObjectStep`), what is new there is absent, foreign, or stamped by the Projection
being reconciled; in the last case the place was free or its own
(`WritesOnlyOwned`) and the Projection is guarded (`FinalizerInv`), so the step is
a `Claim` or a stutter.

### The cluster reconciler

The finalizer of the cluster tier does not look at coordinates: it lists one kind
by UID label, in all namespaces, and deletes what it found. So `IInv`
(`ClusterInvariant`, checked by `cluster`) says of every copy, instead of where it
is, that the sweep of its owner would find it:

* `CopiesInv`, `FinalizerInv`, `WriteInv` as above. `WriteInv` is about many
  destinations at once: each one that is still as some `Get` of the fan-out saw it
  (`run.current`) carries the stamp, and stays so while others are being
  written, edited or deleted;
* `ClaimInv`: whatever carries the annotation of a ClusterProjection has an owner
  whose finalizer is stored, carries the UID *of its present incarnation*, and is of
  the kind of its spec. Here `FinalizerInv` has to know that a reconcile in
  progress works for the stored incarnation and kind (`SameCP`), although its copy
  of the ClusterProjection may be old;
* `SweepInv`: during a deletion, every copy that is left is still in the list of the
  sweep or the sweep has failed, and none is left when the finalizer is about to
  go. A copy cannot appear behind the back of the sweep, because nothing else
  writes for a ClusterProjection that is found deleting.

`ClaimInv` and `SweepInv` need `Tidy`: no edit changes the kind of a spec
(`cleanup.go:144`), nobody strips the UID label that the sweeps select by, and
discovery does not fail (`cleanup.go:196`). Names and targets may change as they
like: copies under an old name or outside the targets are found by the sweep of
the deletion. Places of kinds that may not be served are exempt, as before.
`WritesOnlyOwned` and `KeepsUserIntent` need none of these conditions.

The refinement is the same case analysis as above; the steps on objects are those
of the fan-out, the sweeps, users and the namespace controller.

### The fan-out

`IInv` of `FanOut` relates the goroutines to each other:

* `OnePlace`: a target is unfed, queued, with one worker, reported or counted, and
  in one place only;
* `PoolInv`, `LoopInv`, `CallerInv`: what each goroutine has seen closed. A worker
  that has left its loop saw the jobs closed *and* empty; results are closed when
  all workers have;
* `FailureInv`: `failed` counts the namespaces named in the rollup;
* `FreshInv`: an Update that will be accepted meets the stale copy that was read;
* `MirrorInv`: a target no user touched is current, or still on its way, or its
  failure is on its way to the rollup.

`Accounted` follows when nothing is on its way any more. For `Independent` the one
fact needed is that a target in the hand of a worker is nowhere else (`Solo`):
then a request of that worker moves one attempt, everything the goroutines do
among themselves is a stutter, and `Return` finds every attempt ended.

### Model-checked only

* Liveness (`Converges`, `Quiesces`, `Terminates`): the proof system does not reason
  about fairness and ENABLED.
* `TwoTiers`: `Mirrors` of both tiers together is not true of all constants, as a chain
  of mirrors carries stamps from one tier to the other (`tier_fight`). What is left to
  prove is that it holds when both tiers are `Tidy` and no source of either is a
  destination of the other: `IInv` of each tier under the steps of the other, and
  two more facts, that no object has the stamps of both and that a copy made by a
  ClusterProjection lies where one of its specs points.

## 5. Not modelled

* *Events and metrics* are output only; nothing reads them back.
* *Manager start-up* (`cmd/main.go`) is flag parsing and wiring. What it sets up is
  assumed: one worker per controller, one active process at a time. It refuses a
  `--selector-write-concurrency` below 1; `FanOut` includes 0, for which `fanOut`
  has a default of its own.
* *Admission*: patterns and lengths in `api/v1` are checks on strings; the two rules
  on the targets of a ClusterProjection are in `Admitted`.
* *Generated code, packaging* (Helm, kustomize, RBAC), *benchmark and e2e harness*
  are not part of the operator's logic.
