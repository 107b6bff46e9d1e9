# A TLA+ verification project for oc-mirror-operator

oc-mirror-operator is a Kubernetes operator that keeps a target container registry in step with what `ImageSet`
resources describe. This directory models its core, checks the models with TLC on small instances, and proves
the most important invariants with TLAPS for instances of any size. `PROJECT.json` maps every definition that
stands for code to the lines it was translated from.

## 1. The system

### Components, their state, and what they do

| component | state | operations |
|---|---|---|
| **Manager, dispatch loop** (`pkg/mirror/manager/manager.go`) | `imageState` (one entry per destination: state, last error, retries, back-off, sticky "permanently failed"), `owners`, the fast-path flags `mirrored`, `inProgress` (destination to worker pod), `stateDirty`, `statusDirty` | `cleanupFinishedWorkers`, then `reconcile`: A read and load, force-resync, B resolve, C start a drift sweep, D decide per entry and stage orphans, E dispatch batches of pending images to worker pods, F flush the ConfigMaps, G write the ImageSet's status |
| **Manager, status API** | `statusQueue` | `handleStatusUpdate` queues a report and answers 200 at once, then drains the queue under `m.mu` if it gets the lock; `handleShouldMirror` reads under a lock it may fail to get |
| **Manager, drift sweep** | `lastDriftCheck`, `driftSweepRunning`, and the locals of one goroutine per image | every Mirrored and every given-up image is checked against the target registry, the upstream tag and the signature at the destination |
| **Manager, resolve** (`manager_resolve.go`) | digest cache in annotations of the ImageSet, catalog digests | `shouldResolve`, `resolveImageSet`, the merges into the live state, force-resync and recollect |
| **Worker pod** (`pkg/mirror/worker`) | the rest of its batch, the result of the current item | `RunBatch`: ask whether to mirror, copy and verify, report with retries |
| **State persistence** (`pkg/mirror/imagestate`) | a ConfigMap per ImageSet, shared-image index, summary, orphans | load, save, merge of the copies of several owners |
| **MirrorTarget controller and cleanup Job** | `status.pendingCleanup`, `status.knownImageSets`, snapshots, finalizer | renders the manager, turns orphans and removed ImageSets into cleanup Jobs |
| **ImageSet controller** | build Jobs, conditions | decides when a filtered catalog may be built, and builds it |
| **MirrorExport controller** | export Jobs by signature | runs one export Job per content signature |
| **Planner, collector, resolvers** | none | which images, charts, catalog bundles and releases a spec stands for |
| **Resource API, dashboard, console plugin, monitoring** | none | read-only views, fixed objects |

### How they interact

The manager is one process per MirrorTarget. Its reconcile loop, its HTTP handlers and the goroutines of the
drift sweep share the fields above under one mutex, `m.mu`, which the loop releases around pod listings, around
the resolve (up to an hour) and between `cleanupFinishedWorkers` and `reconcile`, and which a check releases for
its registry requests. Worker pods are separate processes that know the manager by two HTTP requests only. The
manager, the controllers and the cleanup Jobs meet in Kubernetes objects: ImageSet spec, status and annotations,
and the state, orphans and snapshot ConfigMaps, which are written one by one and never together.

### What is hard, and what "correct" means

* *Reports and locks.* A report is acknowledged before it is applied. It must not be lost, not be undone by a
  cleanup that judged the pod earlier, and not be applied to another pod's work.
* *Pods that outlive or precede the knowledge about them.* A pod may die without a report, never start, survive
  the manager, or be deleted late. No image may be worked on twice at once, no more pods may work than
  `spec.concurrency` says, and every image must in the end be Mirrored or given up.
* *Checks without the lock.* A drift check reads an entry, talks to registries for minutes and applies its
  verdict to whatever the entry is by then.
* *Writes that are not atomic.* Annotations, ConfigMaps and status are written at different times; a crash or a
  failed call may fall between any two.
* *Edits.* A spec may change at any moment of a tick, and a dropped image may come back.

The hazards in `PROJECT.json` name the line where each of these bites and the properties that would show it.

## 2. The modules

| module | what it is |
|---|---|
| `ImageLifecycle` | the life cycle of one image entry as operators: count a failure, set a state, retry or give up, fresh retry cycle |
| `ManagerDispatch` | the manager's loop, status API and report queue with its worker pods, crash and restart |
| `DriftSweep` | the sweep's unlocked checks next to ticks, reports, resolves, resyncs and restarts |
| `StateStore` | abstract: what the stored image state promises across restarts |
| `PartitionedState` | the ConfigMaps behind it: one per ImageSet, shared index, summary, migration, load, flush, force-resync; implements `StateStore` |
| `Cleanup` | the manager's orphans, the MirrorTarget controller's cleanup and the cleanup Jobs on one registry |
| `TargetController` | what the MirrorTarget controller renders, exposes and deletes |
| `CatalogBuild` | resolve, digest cache and flush of the manager, the ImageSet controller's gate and the build Jobs |
| `CatalogFilter` | `FilterFBC` as a search over packages, with channel heads, version bounds and graph repair |
| `CatalogImage` | reading a catalog image, filtering it in the manager and again in the build Job, pushing the result |
| `ReleaseResolve` | the release section of the resolve: versions of an upgrade graph, signatures, payloads, cache |
| `MC...` | the instances TLC checks; constants are in the `.cfg` files |
| `ManagerDispatchProofs` | types; acknowledged reports are kept; Mirrored images are in the registry; no stale fast-path flag; one worker per image, concurrency, retry budget, results are applied and kept |
| `DriftSweepProofs` | types; the fast-path flag means Mirrored under a running sweep; the recorded baseline never hides drift |
| `PartitionProofs` | every owner keeps its signature; `PartitionedState` implements `StateStore`; the summary describes the ConfigMaps |
| `CleanupProofs` | cleanups spare what is wanted, and none is forgotten |
| `TargetProofs` | a Ready condition of the current generation tells the truth; the shared resource API is kept |
| `CatalogProofs` | the pushed image is complete; the filter's result is closed, servable, keeps upgrades and single heads; the Job offers what the manager resolved |
| `CatalogBuildProofs` | digests describe the stored entries; only mirrored images are advertised; ready means built as recorded |
| `ReleaseProofs` | only signed payloads are queued |

`ManagerDispatch` and `DriftSweep` extend `ImageLifecycle`, `CatalogImage` extends `CatalogFilter`, and
`PartitionedState` instantiates `StateStore`. A proof module extends the module it is about. Each of the others
composes the processes that meet in the objects it is about; they cut the system at Kubernetes objects, where the code
does.

### ManagerDispatch and the code

*State.* `imageState`, `owned`, `mirrored`, `inProgress`, `stateDirty`, `statusQueue` and `mu` are the fields of
`MirrorManager`; `queued` is the local slice of `drainStatusQueueLocked`; `rpc`, `snapshot`, `finished`,
`doomed`, `tick` and `pending` are the program counter and the locals of the reconcile loop. Outside the process
are the ImageSet (`wanted`, `gen`, `observedGen`, `annotations`, `pollDue`), the ConfigMaps (`persisted`,
`orphans`), the `registry` and the `pods`, each with the worker in it. `NextRetryAt` is the Boolean
`backingOff`. `dropped` remembers what an edit has removed, and serves only to tell a re-added image apart.

*Steps.* An action is what happens without releasing `m.mu` or waiting for somebody else:
`CleanupSnapshot`, `CleanupList`, `CleanupLock`, `CleanupApply`, `CleanupDelete` are `cleanupFinishedWorkers`;
`ReconcileLock`, `ReconcileLoad`, `ClearResync`, `ResolveDone` (or `ResolveFails`), `ProcessEntries`,
`StartBatch` (or `StartBatchFails`), `EndDispatch`, `Flush` are `reconcile`. `LockAndDrain` and `ApplyStatus` are
the drain of the queue, by a handler or by the loop. A worker takes `BeginItem` or `SkipItem` (the answer to
should-mirror), `CopyItem`, `DeliverReport`, `AckReport`, and loses requests by `LoseReport`
and `LoseAck`. `Crash` wipes the process, `Restart` is `syncInProgressFromPods`, with every attribution the
order of the pod listing can produce.

*Abstraction.* There is one ImageSet of directly listed images, so a resolve yields the spec and has no digest
cache; images have no content, only presence. Several ImageSets are the subject of `PartitionedState` and
`Cleanup`, the digest cache that of `CatalogBuild` and `ReleaseResolve`.

### DriftSweep and the code

A destination is either `tagged` (source and destination carry a tag, so its content may move) or pinned to a
digest (then its signature can be looked up). `upstream` is the content each source has, `registry` the content
at the destination. `job` keeps of a worker that it copies from the source it was given and reports what it
found. `check[d]` is one `checkDriftAttempt` goroutine: `TakeSnapshot` (under `m.mu`), `Probe` or `ProbeFails`,
`LookUpDigest`, `LookUpSignature` (without it), `ApplyCheck` (under it again, after the `Stale` test).
`StartSweep` is part of `Tick`, which is Phases C to F in one step because the tick holds `m.mu` throughout them;
`BeginCheck` and `EndPass` are the passes of `runDriftSweep`. `MaxFailures` bounds how often an image whose
signature check keeps failing is swept again; the code has no such bound.

### PartitionedState, StateStore and the code

`mem`, `owners` and `meta` are `imageState`, `owners` and the per-owner metadata (`owner_meta.go`); `cm`, `index`,
`summary` and `legacy` are the ConfigMaps. A tick is `StartTick`, `MigrateImageSet` for each ImageSet and
`MigrateEnd`, `LoadState`, `Resync`, `Resolve`, `FlushOne` for each ConfigMap, `FlushIndex`, `SaveSummary`,
`WriteStatus`: every write is a step, and may fail or be the last before a `Crash`. `LoadFrom` reads the ConfigMaps in
the order of the ImageSets and merges the copies of a shared image two by two (`MergeLoaded`); `Resolve` takes the
ImageSets in that order too, and an image that has one owner at its turn gets that owner's signature (`OnlyOwner`,
`Signed`). `Aggregate` is the controller's
`aggregateImageSetStatus`, with its fallbacks. The refinement mapping forgets the partition: an image is stored with
the set of progress any of its copies has. `StateStore` then says that no write takes the last copy of an image the
manager still works with, that a write adds only what is known now, and that a load finds something that was stored.
Two exceptions are part of the abstract specification because the code has them: after a failed read
(`impaired`) entries may be missing, and an image that changes hands between two ImageSets is stored nowhere for a
moment (`moving`).

### Cleanup and the code

The manager stages what no ImageSet owns any more (`TickOK`, `AppendOrphans`) and writes state and index
(`FlushState`, `FlushIndex`). The controller takes the orphans into a snapshot and a Job (`LoadOrphans`,
`QueueOrphans`, `ClearOrphans`), partitions the state of a removed ImageSet (`Partition`) and records in the status
what is pending (`Commit`, `Finish`); a Job's pod reads the snapshot (`PodLoad`) and deletes (`PodDone`), or fails.
Two destinations may be one manifest, so that deleting a digest takes a tag along.

### TargetController and the code

`objs` are the objects a reconcile renders, one after the other and up to a failing call; `template` is the pod
template of the manager, as the environment (`ProxyEnv` has each branch of `proxyEnvVars`), mounts and volumes it has;
`shared` are the owners of the resource API. `ready` and `current` are the Ready condition: its reason, and whether its
observedGeneration is the generation of the spec. An edit makes it outdated, `SetCondition` stamps the generation the
reconcile read, and a status write may be lost: the code ignores its error after a failed step, and the operator may
stop before it. `Reconcile`, `ReconcileFails`, `AddFinalizer`, `HandleDeletion` and `HandleDeletionFails` are the
controller, `CollectGarbage`, `PodsStart` and `PodsEnd` the cluster.

### CatalogBuild and the code

An image set has release channels and catalogs; `Content` says which images an entry of the spec stands for at an
upstream digest, and `moves` counts the publications. `Resolve` reads upstream and patches the annotations (`cache`):
`Resolved` takes the entries of the spec in their order, and `Add` is the merge of one of them, from upstream or
carried over. `Flush` writes entries and catalog digests (`cm`), `WriteStatus` the observed generation. `Build` is
`reconcileCatalogBuildJobs`: `MustWait` is its gate, `Record` the annotations it writes before it deletes and creates
Jobs. `BuildFromCache` is the same with a cached read of a Job that is gone, `BuildInterrupted` an operator that stops
between the two. `Unseen` is an assumption on time: a controller sees the end of a Job before the Job expires and
before the next poll.

### CatalogFilter, CatalogImage and the code

A bundle is a number with a version, a package, and what it requires and provides; a channel is a sequence of entries
with `replaces` and `skips`. `Expand`, `ProcessPackage` in any order of the queue, and `Trim` are `FilterFBC`;
`channelHeadPlusN`, `repairChannelGraph`, `mergeChannelHeads`, `effectiveVersionFilter` have the names of the
functions; `Retain` is the loop that keeps the entries of a channel with given names. `CatalogImage` runs it twice:
for the manager, which may have read the image only in part (`Load`), and for the Job, on the request as it was
serialized for it (`JobIncludes`). The Job then uploads the kept layers, at most `UploadConcurrency` at a time, the
overlay, the config and the manifest, and is run again when it fails. `skipped` collects the layers the resolve or any
run of the Job could not read. `CatalogAssumption` says that every bundle and every channel of an upstream catalog
belongs to one of its packages, which file-based catalogs guarantee. `UpstreamAssumption` says that an upstream
catalog is `WellFormed`: a channel lists bundles of its package, each once, its upgrades do not go round in circles
(there is a rank that `replaces` and `skips` lower), channels of a package have different names, and every bundle of a
package with channels is in one of them. opm insists on all of this when a catalog image is built and again when it is
served, so no other one is published. TLC evaluates it for the 252 catalogs of the run.

### ReleaseResolve and the code

A graph is a sequence of versions and a sequence of edges between positions. `ResolveReleaseNodes` has the six modes
of the function, `shortestPathNodes` its queue. `StartResolve`, one `ResolveChannel` per channel and `FinishResolve`
are `resolveImageSet` as far as it is about releases, so upstream and the spec may change between any two channels.
An entry is a source and the signature of the channel that wrote it. After `verifyReleaseNodes` the order of the
versions has no effect, so from there on they are a set. KubeVirt disks of several architectures share a
destination, and which one stays there is a choice (the code iterates over a map).

## 3. The runs

### What holds

| run | instance | what it checks |
|---|---|---|
| `dispatch_batch` | 2 images in one batch, 1 pod at a time of 2, 2 retries, one pod fault, lost report; the poll interval elapses | `WithinConcurrency`, `NoDoubleDispatch`, `NoDispatchPastBudget`, `ReportsTakeEffect`, `CleanupKeepsResults` |
| `restart` | 1 image, 2 pods, reports sent twice, an edit, any two faults including crashes | `TypeOK`, `AckedNotLost`, `MirroredPresent`, `NoUncheckedFlip` |
| `settle_faults` | 2 images in a batch, any one fault, fairness | `EverythingSettles`: every image is in the end Mirrored or given up |
| `drift_checks` | 1 destination (tagged or pinned), 2 sources, 2 contents, any three of eleven kinds of outside event, fairness | `FlagMeansMirrored`, `DriftStaysVisible`, `MirrorConverges` |
| `partition` | 2 ImageSets that share an image until an edit, with and without a legacy ConfigMap, one fault of six kinds, fairness | `StoreSpec` (the refinement), `OwnSignature`, `SummaryDescribesState`, `StatusExact`, `ResyncRemirrors` |
| `cleanup` | 2 ImageSets, 2 names of one manifest, two edits, one fault, fairness | `DeletesOnlyUnwanted`, `CleanupNotAbandoned`, `CleanupSettles` |
| `target` | 2 MirrorTargets, 3 configurations, one edit, one failing call, objects deleted by hand, fairness | `ReadyIsCurrent`, `SharedApiKept`, `Converges`, `DeletionEnds` (nothing of a deleted MirrorTarget is left, for good) |
| `catalog` | a channel and a catalog with two filters, one edit, one publication, one fault of nine kinds, fairness | `AdvertisesOnlyMirrored`, `DigestMatchesEntries`, `ReadyAsRecordedUndisturbed`, `GateOpens` |
| `catalog_image` | 252 upgrade graphs of 4 packages in three layers, one of which has other content too, and a base layer, ten requests, one failing request, two runs of the Job | `ManifestComplete`, `AdvertisedWasResolved`, `DependenciesClosed`, `UpgradesKept`, `OneHead`, `Servable` |
| `release` | 2 channels, 2 architectures, 6 versions, four specs, two edits, three resolves, one outage | `ResolvedExactly`, `PathIsShortest`, `KeptWhileListed`, `UnsignedNeverQueued` |

*Why the bounds are enough to be interesting.* Two images in a batch are what it takes for a pod to have
finished one item and not the other; two pods for an image to be worked on twice or for one that replaces a dead
one; two retries for a failure that is not the last one. Faults are drawn from a budget (`MaxEvents`, `MaxFaults`)
because each fault multiplies the states; in `restart` two of them contain the pairs (crash after
failed flush, lost answer before a crash) the code is written to survive. In the sweep one destination is enough
because checks of different destinations share nothing but the slots; three events cover an edit with a failed
flush and a restart, and an image that fails until it is given up while its tag moves. Two ImageSets are the least
that share an image or lose one to the other; in `cleanup` two edits remove an image and bring it back. In `catalog`
one publication and one edit meet in every order with the steps of the manager and the controller. In
`catalog_image` four bundles are the least with a skipped entry between two others below a head; the graphs are all
of those in which at most one entry skips another. In `release` three resolves are what it takes to leave a spec,
be resolved for another one and come back; the path search is compared with its definition on all graphs of four
versions and all acyclic ones of five. The safety results that carry the most weight are proved without these bounds
(section 4).

*Pod names* are interchangeable and declared symmetric in the safety runs; liveness runs use no symmetry.

*Deadlock* is checked in the runs of the manager and of the cleanup, whose loops never end. `partition`, `target`,
`catalog`, `catalog_image` and `release` may stop: their processes wait for the next edit, and edits are bounded.

### Fairness

`FairSpec` of `ManagerDispatch` assumes weak fairness of the steps of the reconcile loop (a ticker in `Run`),
of applying queued reports, of the restart (the Deployment restarts the pod), of each worker's own steps, of a
report failing while the manager is down (connection refused), and of time: back-off and poll interval pass.
Nothing is assumed about faults, which are finite in number, about users, or about which batch is dispatched
first. `FairSpec` of `DriftSweep` assumes the same of a successful tick, of a resolve that finds something to do
(a new generation, or the poll interval, which is on by default), of a worker, a check, a pass and the passage
of time.

`Cleanup` assumes it of a successful tick and its writes, of workers and drift checks, of the steps of a reconcile
(requeued for ever) and of a Job's pod. `TargetController` of a reconcile, which runs on every event and every ten
minutes, of garbage collection and of pods that were told to stop; not of pods that start. `CatalogBuild` of
manager, controller, workers, Jobs and time; not of failures. `PartitionedState` of the manager's steps and of the
controller, and strong fairness of a dispatch and of a report, which a tick or a resync disables again and again for a
moment: workers are separate processes that are not stopped for good by ticks. Everything else is weak fairness: each
step stays enabled until it is taken or something else resolves it.

### What does not hold

Two runs end in a counterexample to something a comment or a document states; `PROJECT.json` quotes the lines.

| run | property | what the counterexample shows |
|---|---|---|
| `release_shared` | `ResolvedExactly` | two channels select one version, the later one is removed, the earlier one is served from the cache: entries carry the signature of the channel that wrote them last, so the version's images lose their reference and become orphans |
| `filter_heads` | `NoNewHeads` | a version bound drops the entry that skips another one and keeps the skipped one, and a channel with one head gets two |

The other modules have behaviours of this kind too. The passing runs leave them out, by a constant of the instance or
by a premise of the property, as noted here; each comes back as a counterexample when that is undone.

*Dispatch.*
* `NoDoubleDispatch` is checked without crashes: `syncInProgressFromPods` attributes an image to a pod that
  has already failed it, and when that pod ends the image is dispatched again beside its real worker. It is checked
  without `"ackLost"`: a failure report delivered twice clears the tracking of the image's next worker (the comment at
  `pkg/mirror/worker/status.go:58-60` says that "a duplicate delivery is harmless"; it is until the image is dispatched
  again, because `applyStatusLocked` does not compare the pod of a report with the one that is tracked). It also fails
  when a stuck pod is to be deleted, the deletion fails and the pod then starts (`"podStuck"` and `"deleteFails"`, two
  events): its images were handed to another pod by then.
* After a crash `m.inProgress` names images whose result is known, and after a failed write a dropped image returns
  from the ConfigMap while its worker still runs; `CleanupKeepsResults`, `NoDispatchPastBudget` and
  `ReportsTakeEffect` are proved without these two (`CallsSucceed`).
* Flags are checked without `"readd"`: Phase D's orphan sweep leaves `m.mirrored` behind, and an orphaned image
  that is added back is called Mirrored without a copy.
* An edit during a resolve is recorded as observed (Phase G records the latest generation, and does so even if Phase F
  failed) and waits for the next poll, or for ever with `pollInterval: 0s`. No property speaks of `observedGen`.
* A report that arrives after a restart and before the first tick has loaded the state is answered 200 and dropped,
  so the image is copied again; an image whose worker dies again and again without a report is dispatched for ever,
  because only reported failures are counted.

*Drift sweep.* `DriftStaysVisible` and the last clause of `MirrorConverges` speak of images that were never given
up: the new digest becomes the baseline before the copy, and when the copy is given up the next sweep calls the old
content Mirrored. `DriftStaysVisible` also needs that a failed flush and a crash do not come together: when a tag moves
away and back, and the flush of what happened meanwhile fails, a restart brings back the older entry, whose baseline
is upstream again while the registry has the content of the excursion. In the same way an image given up for its
missing signature is called Mirrored by the next sweep.

*Persistence.*
* A read that fails is not told apart from an absent ConfigMap, and the next flush overwrites it (`impaired`).
* If the legacy ConfigMap cannot be deleted, the next restart migrates it once more over newer state. `StoreSpec` holds
  with one fault, which the run has, and is proved without `"migrate"`; that fault and a crash after it break it.
* A crash in the middle of a flush leaves diverging copies of a shared image on disk. The load merges them in memory
  without marking them dirty, so the controller's fallback and the catalog gate of the other ImageSet may see a stale
  Pending until something else is flushed.
* A crash between clearing the force-resync annotation and the flush loses the resync (`ResyncRemirrors` excepts it).
* A ConfigMap that cannot be written, or one that could not be read, does not keep the summary from being written
  (`SummaryDescribesState` excepts both).

*Cleanup.*
* `DeletesOnlyUnwanted` excepts images that were dropped and are wanted again (`readded`): a Job works on its
  snapshot, and `liveDestinations` knows only what was resolved last. `CleanupSettles` shows the drift sweep repairs it.
* Orphans that the manager appends between the controller's load and its unconditional delete of the ConfigMap are
  lost and stay in the registry, as are those whose append fails.
* `liveImages.needs` is to spare "a manifest a live destination in the same repository also points at", and
  `repoAndDigest` knows the digest of digest references and digest-derived tags only. A live plain tag whose manifest
  an orphaned digest reference names is deleted with it (`PlainTagsApart` in `CleanupProofs` rules it out).
* If the status update after the creation of a Job fails, a Job that then fails is not created again.

*Target.* A failed probe for the Route API counts as "no Routes", and the Route is deleted until the next reconcile;
`Converges` shows it comes back. Until then the Ready condition of the current generation says DeploymentReady without
a Route, and it says so beside a leftover exposure object whose deletion failed, an error `reconcileExposure` ignores.
`ReadyIsCurrent` therefore claims an exposure object only where the spec names its type, and never that there is no
other one.

*Catalog build.*
* A crash between the patch of the annotations and the flush (`"crash"`, not in the run's `Faults`) leaves a new
  digest that vouches for entries that were never stored: a cache hit keeps them missing. `AdvertisesOnlyMirrored`,
  `DigestMatchesEntries` and `GateOpens` all fail then, until upstream moves or somebody asks for a recollect.
  A failed flush that is followed by a restart does the same, with two faults.
* A failed patch followed by a failed probe pairs the entries that were carried over with the digest of the old
  annotation (two faults). `Told` in `CatalogBuildProofs` rules out these three and nothing else.
* An image that two entries of the spec share carries the signature of the last one, so the digest of the other one no
  longer describes its entries. And when an entry stands for no image at all and the flush of that fails, the next tick
  finds memory empty, loads the old entries and takes them for those of the new digest. `ContentApart` rules out both;
  the run's contents are disjoint and not empty.
* With two catalogs, a failed patch and then a failed probe leave one of them without a digest while the other one is
  built. When the digest comes back the fingerprint is recorded for the first time, and because nothing is ready yet the
  Job of the old build is not replaced: its success counts for the new one. `ReadyAsRecordedUndisturbed` is proved for one
  catalog, or for any number without failed probes (`Countable`).
* `ReadyAsRecordedUndisturbed` excepts a controller that reads its deleted Job from its cache, or stops between
  recording the inputs and replacing the Jobs: the success of the old build is taken for the new one.

*Catalog filter.*
* `AdvertisedWasResolved` is stated for resolves and Jobs that read every layer: `loadFBCFromImage` leaves out a layer
  it cannot fetch, so a passing failure drops packages from the spec's images, or, in the Job, has it choose another
  of several companions than the manager mirrors.
* A requested package the catalog does not have is left out silently; one whose filter matches nothing stays without
  channels; of two entries with the same version the first in channel order wins, not the one with the higher name.

*Releases* (each is a fault or a spec that the run's constants leave out).
* One signature of several that cannot be downloaded (`"signature"`) leaves its payload out without an error, and the
  images of a version that is already mirrored become orphans. A payload that cannot be opened (`"extract"`) loses
  its components, and the result is cached. `KeptWhileListed` and `ResolvedExactly` fail.
* The failed patch of the annotations (`"patch"`) leaves the cache entry of a removed channel behind; when the channel
  comes back it is a cache hit without entries.
* An image that is unblocked stays away: blocked images are not part of the signature.
* A channel whose range is edited while upstream is unreachable keeps nothing, because its entries carry the old
  signature; `KeptWhileListed` speaks of channels that are listed as they were.
* KubeVirt disks of several architectures overwrite each other at one destination.

## 4. The proofs

All theorems are of the form `Spec => []Inv`, an action property, or a refinement, for any sets of destinations, pods,
errors, sources, contents, ImageSets, MirrorTargets, catalogs and requests, any concurrency, batch size and retry
budget, and any number of outside events and faults. They assume the named `ASSUME`s of the modules (sentinels are not
members of the sets they mark the absence from, sets are finite, limits are natural numbers, bundles and channels
belong to a package, upstream catalogs are well-formed) and, where the middle column says so, that certain events do
not occur. Section 3 tells for each of these what goes wrong when they do; TLC shows the counterexample.

| theorem | statement | inductive invariant |
|---|---|---|
| `TypeCorrect` | `ManagerDispatch!Spec => []TypeOK` | `TypeInv`: types, and a worker that copies or reports has an item (`ItemOK`); without the latter the report it sends has no destination |
| `AnsweredReportsAreKept` | `... => []AckedNotLost` | `AckInv` adds who may hold `m.mu` at which step and that only the holder has reports in hand (`LockOK`), that a pod that does not exist has no worker and that while no manager runs no report is being answered or counts as answered (`ProcessOK`), and that a report on its way back to its worker is already queued or applied (`DeliveredNotLost`) |
| `MirroredIsPresent` | without `"readd"`: `... => []MirroredPresent` | `MirroredInv` adds how the spec, what was dropped and what is owned relate (`WantOK`), that flags are set for Mirrored entries only (`FlagOK`), and that every place a success can come from (worker, queue, entry, ConfigMap) has its image in the registry (`EvidenceOK`) |
| `FlagsAreNeverStale` | without `"readd"`: `... => NoUncheckedFlip` | the same `MirroredInv` |
| `NoImageHasTwoWorkers` | under `NoRepeats`: `... => []NoDoubleDispatch` | `DispatchInv`: what a worker holds is in progress on its pod, or given up by a cleanup that is about to delete the pod (`TrackOK`, `JudgedOK`); no image picked for dispatch is in progress (`PendingOK`); queued reports are about images nobody holds, at most one per image (`QueueOK`) |
| `ConcurrencyIsKept` | under `NoRepeats`: `... => []WithinConcurrency` | the same `DispatchInv`, with the number of pods that hold work (`BusyOK`) |
| `CleanupKeepsKnownResults` | under `CallsSucceed`: `... => CleanupKeepsResults` | `ResultInv`: the result of an image in progress, or picked for dispatch, is open (`ProgressOK`, `PickedOK`); Pending entries have attempts left, in memory and on disk (`WithinBudget`); what the ConfigMap knows the manager knows, except between orphaning and flush (`StoredOK`) |
| `NothingDispatchedPastBudget` | under `CallsSucceed`: `... => NoDispatchPastBudget` | the same `ResultInv` |
| `AppliedReportsTakeEffect` | under `CallsSucceed`, without `"readd"`: `... => ReportsTakeEffect` | `ResultInv` with `WantOK` |
| `SweepTypeCorrect` | `DriftSweep!Spec => []TypeOK` | `FlagInv` |
| `FlagsMeanMirrored` | `DriftSweep!Spec => []FlagMeansMirrored` | `FlagInv`: types, a destination with an owner has an entry (`OwnedKnown`), and the property itself |
| `DriftIsNeverHidden` | without `"apiFails"` or without `"restart"`: `... => []DriftStaysVisible` | `BaselineInv`: a check that got past its snapshot was made for a swept image and has an answer (`CheckInv`); a worker reports what it left at the destination (`ReportInv`); the baseline of a Mirrored entry is what the registry holds, if anything, and no worker is about to change that, in memory and, where flushes succeed, on disk (`MemoryTruthful`, `SavedTruthful`) |
| `EveryOwnerKeepsItsSignature` | `PartitionedState!Spec => []OwnSignature` | `StateInv`: entries, program counter, ConfigMaps of listed ImageSets only, and memory as the resolution left it while a flush goes on |
| `ThePartitionsAreOneStore` | without `"migrate"`: `... => StoreSpec` | `StateInv` and `MigrationInv`: while the consolidated ConfigMap exists, memory is empty and only migrated entries are in the others |
| `TheSummaryDescribesTheState` | `... => SummaryDescribesState` | `StateInv` and `SyncInv`: while no ConfigMap failed to be read or written, memory that is not dirty is what a restart would find (`InSync`), a flush has written the views of the ImageSets it is past (`Flushed`), and at the summary both agree again |
| `CleanupSparesTheWanted` | under `PlainTagsApart`: `Cleanup!Spec => DeletesOnlyUnwanted` | `KeepInv`: what a listed ImageSet has wanted all along is owned, in memory and in that ImageSet's ConfigMap, no reconcile in progress treats the ImageSet as removed, and no snapshot and no running Job can reach its manifest |
| `NoCleanupIsForgotten` | `... => CleanupNotAbandoned` | `Shape`, and `PendingInv`: a succeeded Job has consumed its snapshot, and a reconcile takes off its list only what has nothing left to clean or is detected again |
| `ReadyTellsTheTruth` | `TargetController!Spec => []ReadyIsCurrent` | `ReadyInv`: types, and the property itself |
| `TheSharedApiIsKept` | `... => []SharedApiKept` | `SharedInv`: types, and the property itself |
| `TheTagIsComplete` | `CatalogImage!Spec => []ManifestComplete` | `PushInv`: what the repository holds at each stage of the push |
| `TheFilterIsClosed` | `... => []DependenciesClosed` | `FilterInv`: between two packages of the search, `pkgSet` lies within every closed set that has the requested packages, and what is not queued has its dependencies in it |
| `TheImageOffersWhatIsMirrored` | `... => []AdvertisedWasResolved` | `FilterInv` and `AgreeInv`: whoever read all layers has filtered the same catalog, and has found `Selection` |
| `NoUpgradeIsLost` | `... => []UpgradesKept` | `FilterInv` and `ServeInv`: the catalog that is filtered is well-formed, whichever layers were read, and the result is what `Trim` makes of the search |
| `OneHeadIsLeft` | `... => []OneHead` | the same |
| `TheResultIsServable` | `... => []Servable` | the same |
| `DigestsDescribeEntries` | under `ContentApart`: `CatalogBuild!Spec => [](Told => DigestMatchesEntries)` | `TypeInv`; every image comes from the entry its signature names (`WithinInv`); in memory, in the ConfigMap and in the resolve under way, a digest stands for exactly its images, and so does an annotation that is not behind upstream (`MatchInv`); what a restart would load agrees with the annotations too (`StoredInv`) |
| `AdvertisedIsMirrored` | under `ContentApart`: `... => [](Told => AdvertisesOnlyMirrored)` | adds that what is Mirrored or given up is not absent from the registry (`BackedInv`), that entries come with a digest (`NamedInv`) and that a Job builds a filter and a digest that exist (`JobOK`) |
| `ReadyIsRecorded` | `... => [](Countable => ReadyAsRecordedUndisturbed)` | `RecordInv`: the Jobs that exist, and once ready the pushed catalogs, are of the inputs recorded last |
| `OnlySignedIsQueued` | `ReleaseResolve!Spec => UnsignedNeverQueued` | `SignInv`: whatever a resolve under way has gathered was there before, or is of a payload that is signed or of a channel that skips verification |

`NoRepeats` says that there are no crashes, that a report is not sent again after a lost answer, and that not both a
stuck pod and a failed deletion occur. `CallsSucceed` excludes crashes and failing calls of the Kubernetes API.
`PlainTagsApart` says that no plain tag shares a manifest with a digest reference. `ContentApart` says that the entries of
a spec stand for different images, and each for at least one. `Told` and `Countable` speak of the faults that have
happened so far, as section 3 explains under *Catalog build*. The instances of the runs satisfy all of them, or contain
the runs that do.

*Reports.* A report enters `statusQueue` before its worker can be answered; a drain moves the whole queue to `queued`
in one step under `m.mu`; `ApplyStatus` removes a report only together with the `inProgress` entry it is about; nobody
but the holder of `m.mu` touches `inProgress`; a pod starts a batch only with no acknowledged reports; and a crash
clears `acked`, `inProgress` and the queue together.

*Mirrored.* Only a verified copy creates evidence, evidence is passed on and never made up, and the cleanup of an
orphan deletes only what no spec asks for, which without `"readd"` it never will again. For the flag under a sweep:
every place that gives an entry a state other than Mirrored takes the flag back in the same critical section, and a
verdict is applied only to an entry in the state it was checked in.

*One worker.* An image is dispatched only while `inProgress` has no pod for it, and what a worker holds is there. The
delicate place is `cleanupFinishedWorkers`, which judges pods without the lock, resets images under it and deletes
pods after it: in between a doomed pod may still hold images that are nobody's. No dispatch falls into that gap,
because the same loop does both, and `QueueOK` keeps a late report of such a pod from touching the image's next
worker. `ConcurrencyIsKept` adds that `StartBatch` counts the pods of `inProgress`, among them every pod with work.

*Drift.* A check looks at registries for minutes and then writes a digest it saw into an entry that may have been copied
again meanwhile. That is harmless because the verdict is judged against the baseline the entry has by then: a digest
that differs from it makes the entry Pending in the same step, so an entry that stays Mirrored keeps a baseline that
describes the registry. The other way to change it is a report, which brings the digest the worker left there.

*The store.* Each write of a ConfigMap maps to an abstract write of the images whose set of copies it changes; loads
choose, for each image, one of its copies. That `MergeLoaded` returns one of the copies it merges is an induction over
data: the recursion is over the positions of a sequence, and that the set of positions for which the claim holds is all
of them follows from the library's theorem that `<` is well founded (`UpTo`).

*The summary.* A tick that has nothing to flush writes the summary from memory alone, so memory and ConfigMaps have to
agree whenever nothing is dirty, also after a crash in the middle of a flush, when the load had to choose between
diverging copies. The delicate step is an ImageSet that is listed meanwhile: the copies are then merged in a longer
order, which must not change any state. New ImageSets have no copies, and one that is listed twice repeats copies, of which
`MergeLoadedEntry` prefers none to the best one so far (`MergeLoadedBest`, `MergeLoadedLonger`).

*Cleanup.* `KeepInv` relates the five places that know an image: the spec, the manager's memory, the ConfigMap of the
ImageSet, the snapshots and the Jobs. A snapshot is filtered by `liveDestinations`, which reads the ConfigMaps, and the
ConfigMap of a listed ImageSet has every image it has wanted all along; an orphan is staged only without an owner.
`PlainTagsApart` is what `needs` relies on beyond the names of the destinations.

*The Ready condition.* It is written last, so what it says has just been done; what has to be shown is that nothing takes
it back while the condition stands. A later reconcile of the same generation may stop after any step, or go on past
failed calls, without touching the status (`ProvisionReady`). Its steps take away only the obsolete policy
(`EnsureOwn`), replace the template by the same one, and the exposure deletes objects of the other types only
(`ExposeKeeps`); that the type asked for is still the same follows from the spec, not from the probe, and only for
explicit types. An edit, the one step that changes what is promised, makes the condition outdated.

*The filter.* Manager and Job search in different orders. Both end with the least set of packages that contains the
requested ones and is closed under dependencies (`Least`), and what they keep of a package depends on the catalog and
the request only, so they agree although neither knows the other's order.

*What the filter leaves of a channel.* `Retain`, `repairChannelGraph`, `channelHeadPlusN` and `mergeChannelHeads` are loops.
What they compute is proved by induction over the positions of the channel (`UpTo`, and `Loop` and `Steps` for a loop
that carries a value). `RetainShape` says which entries are kept and that their order is. A walk down `replaces` ends:
it lowers the rank, and there are not more ranks than entries (`ChainEnds`). `RepairBridges` says that the repaired
`replaces` of a kept entry is the nearest kept one below it and that everything in between becomes a skip; from that
follows that reachability among kept entries survives (`UpgradesSurvive`). With several heads left, the merge
makes all but one of them skips of that one (`MergedShape`, `HeadsOnlyOne`). `ChannelsList` relates bundles and channels of
the result. A catalog that was read only in part has whole packages, so it is well-formed too (`ParsedWellFormed`).

*The catalog build.* `Resolved` is a loop over the entries of the spec, and an entry either keeps what the state has with
its signature or collects its content at the digest that was probed. Where contents are apart no later entry takes
images from an earlier one, so that the images with a signature are exactly the content of one digest; which one, the
annotations say, and they go through a different write than the entries. `MatchInv` follows the two writes, and the
probe that fails, the patch that fails and the flush that fails, each alone or with the ones `Told` admits.
The gate then counts only entries that are in the ConfigMap with the digest it builds.

*Releases.* The cache, carried-over entries and edits cannot let an unsigned payload in, because a destination names
version and architecture of its payload, and only `Collect` makes new destinations, from the versions
`verifyReleaseNodes` returned for that architecture. Signatures are never withdrawn.

*Only model-checked:*
* liveness (`EverythingSettles`, `MirrorConverges`, `StatusExact`, `ResyncRemirrors`, `CleanupSettles`, `Converges`,
  `DeletionEnds`, `GateOpens`): fairness is beyond the prover;
* `PathIsShortest`: what the breadth-first search computes for a graph of any size is an induction over its queue with an
  invariant about distances; the run compares it with its definition on all small graphs;
* `ResolvedExactly`: it is not true for every set of specs (`release_shared` shows it, and an image that is unblocked
  stays away), and which sets it is true for depends on what the specs have been before;
* `KeptWhileListed`: it is about sources, and components are shared between versions, so it too depends on how the
  releases of the instance overlap.

What the prover cannot do is instantiate the library's induction theorems. Where the proofs need an induction, they
apply the well-foundedness of `<` to the set of numbers for which the claim fails.

## 5. The plan

1. **Proofs.** `PathIsShortest`, along the argument above. `KeptWhileListed` stated about destinations, for any releases.
2. **Export** (MirrorExport controller): one Job per signature, its status, its clean-up.
3. **Helm** section of the resolve: carry-over by label, re-published charts (`manager_resolve.go` says that they
   "MUST be re-queued", and the merge into the consolidated state keeps the live Mirrored entry).

## 6. What is not modelled

* The helm and graph-data parts of the resolve, and exports: section 5.
* Entries that versions before per-entry signatures wrote (an empty `EntrySig`): `carryOverByOriginAndSig` carries
  them over for any signature of their origin, and `loadMirrorSnapshot` then does not ask for every signature of the
  spec. No state written by this version has them; `CatalogBuild` and `ReleaseResolve` start without entries.
* What a copy transfers, authentication, TLS, caching and rate limits of the registry client (regclient), and the
  cryptography of signatures: external; their outcome is a choice in the worker's, the check's and the resolve's
  actions.
* The content of Deployments, Services, RBAC, NetworkPolicies, routes and console objects beyond what
  `TargetController` has: create-or-update of fixed content, without state of its own. So are the console plugin and
  monitoring controllers.
* The resource API and the dashboard: read-only views, and two handlers that set an annotation or a field of an
  ImageSet, which the models have as user actions.
* The order in which a worker works on its batch (`planner.go`), the generated IDMS, ITMS and CatalogSource YAML,
  logging, metrics and events.
