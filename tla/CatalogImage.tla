----------------------------- MODULE CatalogImage -----------------------------
(***************************************************************************)
(* What happens to one catalog image: the manager reads its layers and     *)
(* filters the catalog (CatalogFilter) to learn which bundles to mirror,   *)
(* and then a build Job reads the same digest, filters again, and pushes a *)
(* new image: the source's layers that hold more than the catalog, one     *)
(* overlay with the filtered catalog, a config and, last, the manifest.    *)
(* Layers are uploaded in parallel; the Job is retried when it fails.      *)
(***************************************************************************)
EXTENDS CatalogFilter, FiniteSets

CONSTANTS
    Catalogs,           \* upstream catalogs
    Requests,           \* sequences of includes an ImageSet may have
    Source,             \* layers: [name -> [packages, whether it has cache files, other files]]
    UploadConcurrency,  \* layerUploadConcurrency
    MaxAttempts,        \* bound on the runs of the build Job
    MaxFaults           \* bound on failed requests and dead pods

ASSUME ImageAssumption ==
    /\ UploadConcurrency \in Nat \ {0} /\ MaxAttempts \in Nat /\ MaxFaults \in Nat
    /\ \A l \in DOMAIN Source : Source[l].cache \in BOOLEAN /\ Source[l].other \in BOOLEAN

\* Every bundle and every channel of an upstream catalog belongs to a package.
ASSUME CatalogAssumption ==
    \A c \in Catalogs :
        /\ \A b \in DOMAIN c.bundles : c.bundles[b].package \in DOMAIN c.packages
        /\ \A ch \in c.channels : ch.package \in DOMAIN c.packages

ASSUME RequestAssumption ==
    \A r \in Requests : DOMAIN r \subseteq Nat /\ \A i \in DOMAIN r : r[i].previous \in Nat

-----------------------------------------------------------------------------
(***************************************************************************)
(* What opm insists on when it loads a catalog, so that no image with      *)
(* another one is published: channels list bundles of their package, each  *)
(* one once, every bundle of a package with channels is listed, and the    *)
(* upgrades of a channel do not go round in circles.                       *)
(***************************************************************************)
EntryRecord == [name : Nat \ {0}, replaces : Nat, skips : SUBSET Nat]

Distinct(entries) == \A i, j \in DOMAIN entries : entries[i].name = entries[j].name => i = j

Ranked(entries, rank) ==
    \A e \in ToSet(entries) : \A b \in ({e.replaces} \cup e.skips) \cap Names(entries) :
        rank[b] < rank[e.name]

WellFormedChannel(c, ch) ==
    /\ ch = [package |-> ch.package, name |-> ch.name, entries |-> ch.entries]
    /\ ch.name \in Nat /\ ch.entries \in Seq(EntryRecord) /\ Distinct(ch.entries)
    /\ \E rank \in [Names(ch.entries) -> 0..Len(ch.entries)] : Ranked(ch.entries, rank)
    /\ \A b \in Names(ch.entries) : b \in DOMAIN c.bundles /\ c.bundles[b].package = ch.package

WellFormed(c) ==
    /\ \A ch \in c.channels : WellFormedChannel(c, ch)
    /\ \A ch, other \in c.channels : ch.package = other.package /\ ch.name = other.name => ch = other
    /\ \A b \in DOMAIN c.bundles :
          /\ c.bundles[b].version \in Nat
          /\ (\E ch \in c.channels : ch.package = c.bundles[b].package) =>
                \E ch \in c.channels : ch.package = c.bundles[b].package /\ b \in Names(ch.entries)

ASSUME UpstreamAssumption == \A c \in Catalogs : WellFormed(c)

VARIABLES
    upstream,       \* the catalog in the source image
    job,            \* "resolve", then "build"
    pc,
    skipped,        \* layers that the resolve or a run of the Job could not read
    resolved,       \* bundles the resolve found, which the manager mirrors
    kept,           \* source layers that become part of the new image
    up,             \* [kept -> progress of the upload]
    blobs,          \* what the target repository holds: layers, contents, configs
    target,         \* manifests at the target tag: none, or one
    attempts, faults

imageVars == <<kept, up, blobs, target>>
vars == <<cfg, includes, filterVars, upstream, job, pc, skipped, resolved, imageVars,
          attempts, faults>>

Init ==
    /\ upstream \in Catalogs /\ includes \in Requests
    /\ job = "resolve" /\ pc = "load"
    /\ cfg = Empty /\ filtered = Empty /\ explicit = <<>>
    /\ pkgSet = {} /\ queue = {} /\ allowedBundles = {}
    /\ skipped = {} /\ resolved = {} /\ kept = {} /\ up = <<>>
    /\ blobs = [layers |-> {}, contents |-> {}, configs |-> {}] /\ target = {}
    /\ attempts = 0 /\ faults = 0

-----------------------------------------------------------------------------
(***************************************************************************)
(* Reading the image.  A layer that cannot be fetched is left out of the   *)
(* catalog; a layer that breaks while it is read fails the whole call.     *)
(***************************************************************************)
\* The part of the catalog whose files are in these layers.
Parsed(layers) ==
    LET found == UNION {Source[l].packages : l \in layers}
    IN  [packages |-> [p \in found \cap DOMAIN upstream.packages |-> upstream.packages[p]],
         channels |-> {ch \in upstream.channels : ch.package \in found},
         bundles |-> [b \in {x \in DOMAIN upstream.bundles : upstream.bundles[x].package \in found}
                        |-> upstream.bundles[b]]]

\* classifyAndExtractFBC: only files of the catalog and its cache, and at least one.
Skippable(l) == ~Source[l].other /\ (Source[l].packages # {} \/ Source[l].cache)

\* classifySourceLayers: a layer that cannot be read is kept as it is.
KeptLayers(bad) == bad \cup {l \in DOMAIN Source : ~Skippable(l)}

Fail == pc' = "failed" /\ UNCHANGED <<cfg, includes, filterVars, upstream, job, resolved, skipped,
                                      imageVars, attempts>>

\* loadFBCFromImage, and the first half of BuildFilteredCatalogImage.
Load ==
    /\ pc = "load"
    /\ \E bad \in SUBSET DOMAIN Source :
          LET found == Parsed(DOMAIN Source \ bad)
          IN  /\ faults + Cardinality(bad) <= MaxFaults
              /\ faults' = faults + Cardinality(bad)
              /\ cfg' = found
              /\ pc' = IF DOMAIN found.packages = {} THEN "failed" ELSE "expand"
              /\ skipped' = IF job = "resolve" THEN bad ELSE skipped \cup bad
              /\ kept' = IF job = "build" THEN KeptLayers(bad) ELSE kept
    /\ UNCHANGED <<includes, filterVars, upstream, job, resolved, up, blobs, target, attempts>>

LoadFails ==
    /\ pc = "load" /\ faults < MaxFaults
    /\ faults' = faults + 1
    /\ Fail

-----------------------------------------------------------------------------
(***************************************************************************)
(* Filtering.                                                              *)
(***************************************************************************)
FilterStep(step, next) ==
    /\ step
    /\ pc' = next
    /\ UNCHANGED <<cfg, includes, upstream, job, skipped, resolved, imageVars, attempts, faults>>

StartFilter ==
    /\ pc = "expand" /\ ~SelectionUnknown
    /\ FilterStep(Expand, IF includes = <<>> THEN "filtered" ELSE "search")

FilterFails ==
    /\ pc = "expand" /\ SelectionUnknown
    /\ faults' = faults
    /\ Fail

Search == pc = "search" /\ \E p \in queue : FilterStep(ProcessPackage(p), "search")

EndFilter == pc = "search" /\ FilterStep(Trim, "filtered")

LegacyIncludes == [i \in DOMAIN includes |-> Bare(includes[i].name)]

\* The includes that the build Job is given, in its environment.
JobIncludes == includes

\* The manager has its list of bundles.  Once all of it is mirrored, the Job
\* is created (module CatalogBuild).
Resolved ==
    /\ pc = "filtered" /\ job = "resolve"
    /\ resolved' = DOMAIN filtered.bundles
    /\ includes' = JobIncludes
    /\ job' = "build" /\ pc' = "load" /\ attempts' = 1
    /\ UNCHANGED <<cfg, filterVars, upstream, skipped, imageVars, faults>>

-----------------------------------------------------------------------------
(***************************************************************************)
(* Pushing.                                                                *)
(***************************************************************************)
\* The overlay's opaque whiteouts hide the catalog files of the layers below.
Overlay == [catalog |-> filtered, opaque |-> TRUE]

\* Nothing in it depends on the time of the build.
Manifest == [layers |-> kept, content |-> Overlay]

\* The bundles that opm finds in an image.
Served(m) ==
    DOMAIN m.content.catalog.bundles \cup
       IF m.content.opaque THEN {} ELSE DOMAIN Parsed(m.layers).bundles

PushUnchanged == UNCHANGED <<cfg, includes, filterVars, upstream, job, skipped, resolved, kept, attempts>>

\* The HEAD request for the target may fail, and then everything is uploaded.
StartPush ==
    /\ pc = "filtered" /\ job = "build"
    /\ \/ /\ target = {Manifest}
          /\ pc' = "done"
          /\ UNCHANGED <<up, faults>>
       \/ /\ target # {Manifest} \/ faults < MaxFaults
          /\ faults' = IF target = {Manifest} THEN faults + 1 ELSE faults
          /\ up' = [l \in kept |-> "todo"]
          /\ pc' = "upload"
    /\ PushUnchanged /\ UNCHANGED <<blobs, target>>

Cancelled == \E l \in DOMAIN up : up[l] = "failed"

\* A goroutine of the upload group starts; the first failure cancels the rest.
StartUpload(l) ==
    /\ pc = "upload" /\ up[l] = "todo"
    /\ Cardinality({k \in DOMAIN up : up[k] = "running"}) < UploadConcurrency
    /\ up' = [up EXCEPT ![l] = IF Cancelled THEN "failed"
                               ELSE IF l \in blobs.layers THEN "done" ELSE "running"]
    /\ PushUnchanged /\ UNCHANGED <<pc, blobs, target, faults>>

EndUpload(l) ==
    /\ pc = "upload" /\ up[l] = "running"
    /\ \/ /\ up' = [up EXCEPT ![l] = "done"]
          /\ blobs' = [blobs EXCEPT !.layers = @ \cup {l}]
          /\ faults' = faults
       \/ /\ Cancelled \/ faults < MaxFaults
          /\ up' = [up EXCEPT ![l] = "failed"]
          /\ faults' = IF Cancelled THEN faults ELSE faults + 1
          /\ blobs' = blobs
    /\ PushUnchanged /\ UNCHANGED <<pc, target>>

NoneRunning == \A l \in DOMAIN up : up[l] # "running" /\ up[l] # "todo"

AfterAnyUpload == "overlay"

AfterUploads == IF Cancelled THEN "failed" ELSE "overlay"

WaitUploads ==
    /\ pc = "upload" /\ NoneRunning
    /\ pc' = AfterUploads
    /\ PushUnchanged /\ UNCHANGED <<up, blobs, target, faults>>

PushOverlay ==
    /\ pc = "overlay" /\ pc' = "config"
    /\ blobs' = [blobs EXCEPT !.contents = @ \cup {Overlay}]
    /\ PushUnchanged /\ UNCHANGED <<up, target, faults>>

PushConfig ==
    /\ pc = "config" /\ pc' = "manifest"
    /\ blobs' = [blobs EXCEPT !.configs = @ \cup {Manifest}]
    /\ PushUnchanged /\ UNCHANGED <<up, target, faults>>

\* The answer to the PUT may be lost.
PutManifest ==
    /\ pc = "manifest"
    /\ target' = {Manifest}
    /\ \/ pc' = "done" /\ faults' = faults
       \/ pc' = "failed" /\ faults < MaxFaults /\ faults' = faults + 1
    /\ PushUnchanged /\ UNCHANGED <<up, blobs>>

\* A request fails, the Job runs into its 20 minutes, or its pod is killed.
BuildFails ==
    /\ job = "build" /\ pc \notin {"load", "done", "failed"} /\ faults < MaxFaults
    /\ faults' = faults + 1
    /\ Fail

\* The manager resolves again on a later tick, the Job controller starts the
\* next pod of the Job.
Retry ==
    /\ pc = "failed" /\ attempts < MaxAttempts /\ ~SelectionUnknown
    /\ pc' = "load" /\ attempts' = attempts + 1
    /\ UNCHANGED <<cfg, includes, filterVars, upstream, job, skipped, resolved, imageVars, faults>>

Next ==
    \/ Load \/ LoadFails \/ StartFilter \/ FilterFails \/ Search \/ EndFilter \/ Resolved
    \/ StartPush \/ (\E l \in DOMAIN up : StartUpload(l) \/ EndUpload(l)) \/ WaitUploads
    \/ PushOverlay \/ PushConfig \/ PutManifest \/ BuildFails \/ Retry

Spec == Init /\ [][Next]_vars

-----------------------------------------------------------------------------
(***************************************************************************)
(* Properties.                                                             *)
(***************************************************************************)
(* What the target tag points at can be pulled: every blob of the manifest
   is in the repository, whatever failed, was skipped or ran in parallel. *)
ManifestComplete ==
    \A m \in target : /\ m.layers \subseteq blobs.layers
                      /\ m.content \in blobs.contents
                      /\ m \in blobs.configs

(* The catalog that is served offers only bundles the manager was told to
   mirror, although manager and Job filter on their own and in an order of
   their own: true whenever neither of them had to leave out a layer. *)
AdvertisedWasResolved ==
    skipped = {} => \A m \in target : Served(m) \subseteq resolved

Trimmed == pc = "filtered" /\ includes # <<>>

(* FilterFBC keeps the least set of packages that has the requested ones,
   their companions and what any kept bundle depends on. *)
DependenciesClosed ==
    Trimmed =>
      LET all == DOMAIN cfg.packages
          result == DOMAIN filtered.packages
          dep == [p \in all |-> Required(SelectedBundles(p))]
          closed(S) == all \cap DOMAIN explicit \subseteq S /\ \A p \in S : dep[p] \subseteq S
      IN  closed(result) /\ \A S \in SUBSET result : closed(S) => S = result

\* What an entry reaches along the replaces chain.
Below(entries, b) ==
    LET back[i \in 0..Len(entries)] ==
            ReplacedBy(entries, IF i = 0 THEN b ELSE back[i - 1])
    IN  {back[i] : i \in 0..Len(entries)} \ {0}

Channel(ch) == CHOOSE c \in cfg.channels : c.package = ch.package /\ c.name = ch.name

(* Filtering breaks no upgrade: an entry that could be upgraded from another
   one along the channel still can, and who runs a dropped version below a
   kept one is offered an upgrade. *)
UpgradesKept ==
    Trimmed => \A ch \in filtered.channels : \A x \in Names(ch.entries) :
        \A y \in Below(Channel(ch).entries, x) :
            IF y \in Names(ch.entries) THEN y \in Below(ch.entries, x)
            ELSE \E e \in ToSet(ch.entries) : y \in e.skips

(* A channel that is reduced to its head and some predecessors, or to bundles
   selected by name, has exactly one head, which opm insists on, even if the
   upstream channel has several. *)
OneHead ==
    Trimmed => \A ch \in filtered.channels :
        /\ ch.package \in DOMAIN explicit
        /\ HeadsOnly(explicit[ch.package]) \/ explicit[ch.package].bundles # {}
        => Len(Heads(ch.entries)) = 1

(* Filtering never gives a channel more heads than it had. *)
NoNewHeads ==
    Trimmed => \A ch \in filtered.channels :
        Len(Heads(Channel(ch).entries)) = 1 => Len(Heads(ch.entries)) = 1

(* opm can serve the result: the default channel of a package of which any
   channel is left is one of these, the channels list only bundles that are
   there, and every bundle of a package with channels is in one of them. *)
Servable ==
    Trimmed => \A p \in DOMAIN filtered.packages :
        LET chs == {ch \in filtered.channels : ch.package = p}
            listed == UNION {Names(ch.entries) : ch \in chs}
        IN  chs # {} => /\ filtered.packages[p] \in {ch.name : ch \in chs}
                        /\ listed = {b \in DOMAIN filtered.bundles : filtered.bundles[b].package = p}
=============================================================================
