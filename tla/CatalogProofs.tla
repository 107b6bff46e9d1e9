---------------------------- MODULE CatalogProofs ----------------------------
(***************************************************************************)
(* Proofs about a catalog image: for every upstream catalog, every request *)
(* and every split of the source image into layers, whatever fails and     *)
(* however often the build Job is run.                                     *)
(***************************************************************************)
EXTENDS CatalogImage, WellFoundedInduction, FiniteSetTheorems, TLAPS

-----------------------------------------------------------------------------
(***************************************************************************)
(* The push.  The manifest comes last, so it is enough to know at every    *)
(* stage what the target repository already holds of it.                   *)
(***************************************************************************)
Progress == {"todo", "running", "done", "failed"}
BlobsOK == blobs = [layers |-> blobs.layers, contents |-> blobs.contents, configs |-> blobs.configs]

PushInv ==
    /\ BlobsOK
    /\ ManifestComplete
    /\ pc = "upload" => /\ up \in [kept -> Progress]
                        /\ \A l \in kept : up[l] = "done" => l \in blobs.layers
    /\ pc \in {"overlay", "config", "manifest"} => kept \subseteq blobs.layers
    /\ pc \in {"config", "manifest"} => Overlay \in blobs.contents
    /\ pc = "manifest" => Manifest \in blobs.configs

LEMMA PushInit == Init => PushInv
  BY DEF Init, PushInv, BlobsOK, ManifestComplete

\* Outside of the push nothing changes what was pushed.
LEMMA PushIdle ==
    ASSUME PushInv, blobs' = blobs, target' = target,
           pc' \notin {"upload", "overlay", "config", "manifest"}
    PROVE  PushInv'
  BY DEF PushInv, BlobsOK, ManifestComplete

LEMMA PushNext == PushInv /\ [Next]_vars => PushInv'
<1> SUFFICES ASSUME PushInv, [Next]_vars PROVE PushInv'
  OBVIOUS
<1> USE DEF PushInv, BlobsOK, ManifestComplete, Manifest, Overlay
<1>1. CASE UNCHANGED vars
  BY <1>1 DEF vars, imageVars, filterVars
<1>2. CASE Load \/ LoadFails \/ FilterFails \/ Resolved \/ BuildFails \/ Retry
  BY <1>2, PushIdle DEF Load, LoadFails, FilterFails, Resolved, BuildFails, Retry, Fail, imageVars
<1>3. CASE StartFilter \/ Search \/ EndFilter
  BY <1>3, PushIdle DEF StartFilter, Search, EndFilter, FilterStep, imageVars
<1>4. CASE StartPush
  BY <1>4 DEF StartPush, PushUnchanged, Progress, filterVars
<1>5. ASSUME NEW l \in DOMAIN up, StartUpload(l) PROVE PushInv'
  <2>1. /\ pc' = "upload" /\ pc = "upload" /\ kept' = kept /\ blobs' = blobs
        /\ target' = target /\ l \in kept
    BY <1>5 DEF StartUpload, PushUnchanged
  <2>2. PICK s \in Progress : /\ up' = [up EXCEPT ![l] = s]
                              /\ s = "done" => l \in blobs.layers
    BY <1>5 DEF StartUpload, Progress
  <2> QED BY <2>1, <2>2
<1>6. ASSUME NEW l \in DOMAIN up, EndUpload(l) PROVE PushInv'
  <2>1. /\ pc' = "upload" /\ pc = "upload" /\ kept' = kept
        /\ target' = target /\ l \in kept
    BY <1>6 DEF EndUpload, PushUnchanged
  <2>2. CASE up' = [up EXCEPT ![l] = "done"] /\ blobs' = [blobs EXCEPT !.layers = @ \cup {l}]
    <3>1. /\ blobs'.layers = blobs.layers \cup {l}
          /\ blobs'.contents = blobs.contents /\ blobs'.configs = blobs.configs
          /\ blobs' = [layers |-> blobs'.layers, contents |-> blobs'.contents,
                       configs |-> blobs'.configs]
      BY <2>2
    <3> QED BY <2>1, <2>2, <3>1 DEF Progress
  <2>3. CASE up' = [up EXCEPT ![l] = "failed"] /\ blobs' = blobs
    BY <2>1, <2>3 DEF Progress
  <2> QED BY <1>6, <2>2, <2>3 DEF EndUpload
<1>7. CASE WaitUploads
  <2>1. /\ pc = "upload" /\ kept' = kept /\ blobs' = blobs /\ target' = target
        /\ filtered' = filtered
    BY <1>7 DEF WaitUploads, PushUnchanged, filterVars
  <2>2. CASE pc' = "failed"
    BY <2>1, <2>2, PushIdle
  <2>3. CASE pc' = "overlay" /\ ~Cancelled
    <3>1. \A l \in kept : up[l] = "done"
      BY <1>7, <2>1, <2>3 DEF WaitUploads, NoneRunning, Cancelled, Progress
    <3> QED BY <2>1, <2>3, <3>1
  <2> QED BY <1>7, <2>2, <2>3 DEF WaitUploads, AfterUploads
<1>8. CASE PushOverlay
  <2>1. /\ pc = "overlay" /\ pc' = "config" /\ kept' = kept /\ target' = target
        /\ filtered' = filtered
    BY <1>8 DEF PushOverlay, PushUnchanged, filterVars
  <2>2. /\ blobs'.contents = blobs.contents \cup {Overlay}
        /\ blobs'.layers = blobs.layers /\ blobs'.configs = blobs.configs
        /\ blobs' = [layers |-> blobs'.layers, contents |-> blobs'.contents,
                     configs |-> blobs'.configs]
    BY <1>8 DEF PushOverlay
  <2> QED BY <2>1, <2>2
<1>9. CASE PushConfig
  <2>1. /\ pc = "config" /\ pc' = "manifest" /\ kept' = kept /\ target' = target
        /\ filtered' = filtered
    BY <1>9 DEF PushConfig, PushUnchanged, filterVars
  <2>2. /\ blobs'.configs = blobs.configs \cup {Manifest}
        /\ blobs'.layers = blobs.layers /\ blobs'.contents = blobs.contents
        /\ blobs' = [layers |-> blobs'.layers, contents |-> blobs'.contents,
                     configs |-> blobs'.configs]
    BY <1>9 DEF PushConfig
  <2> QED BY <2>1, <2>2
<1>10. CASE PutManifest
  BY <1>10 DEF PutManifest, PushUnchanged, filterVars
<1> QED BY <1>1, <1>2, <1>3, <1>4, <1>5, <1>6, <1>7, <1>8, <1>9, <1>10 DEF Next

(***************************************************************************)
(* The target tag never points at an image that cannot be pulled: layers   *)
(* that are uploaded in parallel, fail, are cancelled, are found in the    *)
(* repository already or are left over from an earlier run of the Job are  *)
(* all there before the manifest is (BuildFilteredCatalogImage, 12 - 15).  *)
(***************************************************************************)
THEOREM TheTagIsComplete == Spec => []ManifestComplete
<1>1. PushInv => ManifestComplete
  BY DEF PushInv
<1> QED BY <1>1, PushInit, PushNext, PTL DEF Spec

-----------------------------------------------------------------------------
(***************************************************************************)
(* The search of FilterFBC, as a search in a graph: dep gives the packages *)
(* that a package needs, sel the bundles that are kept of it.              *)
(***************************************************************************)
ClosedSet(roots, dep, S) == roots \subseteq S /\ \A p \in S : dep[p] \subseteq S

Searching(roots, dep, sel, found, open, bundles) ==
    /\ roots \subseteq found /\ open \subseteq found /\ found \subseteq DOMAIN dep
    /\ \A p \in found \ open : dep[p] \subseteq found
    /\ \A S \in SUBSET DOMAIN dep : ClosedSet(roots, dep, S) => found \subseteq S
    /\ bundles = UNION {sel[p] : p \in found \ open}

\* The search starts with the roots, none of them processed.
LEMMA SearchStart ==
    ASSUME NEW roots, NEW dep, NEW sel, roots \subseteq DOMAIN dep
    PROVE  Searching(roots, dep, sel, roots, roots, {})
  BY DEF Searching, ClosedSet

\* Whichever package is processed next, what is found stays below every closed
\* set, and everything a processed package needs is found.
LEMMA SearchStep ==
    ASSUME NEW roots, NEW dep, NEW sel, NEW found, NEW open, NEW bundles,
           Searching(roots, dep, sel, found, open, bundles),
           NEW p \in open, dep[p] \subseteq DOMAIN dep
    PROVE  Searching(roots, dep, sel, found \cup (dep[p] \ found),
                     (open \ {p}) \cup (dep[p] \ found), bundles \cup sel[p])
<1> DEFINE new == dep[p] \ found
           F == found \cup new
           O == (open \ {p}) \cup new
<1> USE DEF Searching
<1>1. F \ O = (found \ open) \cup {p}
  OBVIOUS
<1>2. roots \subseteq F /\ O \subseteq F /\ F \subseteq DOMAIN dep
  OBVIOUS
<1>3. \A q \in F \ O : dep[q] \subseteq F
  BY <1>1
<1>4. ASSUME NEW S \in SUBSET DOMAIN dep, ClosedSet(roots, dep, S) PROVE F \subseteq S
  BY <1>4 DEF ClosedSet
<1>5. bundles \cup sel[p] = UNION {sel[q] : q \in F \ O}
  BY <1>1
<1> QED BY <1>2, <1>3, <1>4, <1>5

\* Once nothing is open, the order in which packages were processed is forgotten.
LEMMA SearchEnd ==
    ASSUME NEW roots, NEW dep, NEW sel, NEW found, NEW bundles,
           Searching(roots, dep, sel, found, {}, bundles)
    PROVE  /\ ClosedSet(roots, dep, found)
           /\ found = {p \in DOMAIN dep : \A S \in SUBSET DOMAIN dep :
                                            ClosedSet(roots, dep, S) => p \in S}
           /\ bundles = UNION {sel[p] : p \in found}
  BY DEF Searching, ClosedSet

Universe == DOMAIN explicit \cup DOMAIN cfg.packages
Deps == [p \in Universe |-> Required(SelectedBundles(p))]
Selected == [p \in Universe |-> SelectedBundles(p)]

\* What the filter finds, without the order in which it looks.
Least == {p \in Universe : \A S \in SUBSET Universe : ClosedSet(DOMAIN explicit, Deps, S) => p \in S}
Selection ==
    IF includes = <<>> THEN DOMAIN cfg.bundles
    ELSE DOMAIN cfg.bundles \cap UNION {Selected[p] : p \in Least}

Pushing == {"upload", "overlay", "config", "manifest"}

\* What CatalogAssumption says of an upstream catalog.
Packaged(c) ==
    /\ \A b \in DOMAIN c.bundles : c.bundles[b].package \in DOMAIN c.packages
    /\ \A ch \in c.channels : ch.package \in DOMAIN c.packages

FilterInv ==
    /\ upstream \in Catalogs
    /\ pc \notin {"load", "failed"} => Packaged(cfg)
    /\ pc \in {"search", "filtered"} \cup Pushing => explicit = ExplicitIncludes /\ ~SelectionUnknown
    /\ pc = "search" => includes # <<>>
    /\ pc \in {"search", "filtered"} \cup Pushing /\ includes # <<>> =>
         Searching(DOMAIN explicit, Deps, Selected, pkgSet, queue, allowedBundles)
    /\ pc \in {"filtered"} \cup Pushing =>
         IF includes = <<>> THEN filtered = cfg
         ELSE /\ queue = {}
              /\ DOMAIN filtered.packages = pkgSet \cap DOMAIN cfg.packages
              /\ DOMAIN filtered.bundles = allowedBundles \cap DOMAIN cfg.bundles

LEMMA ExplicitSame ==
    ASSUME cfg' = cfg, includes' = includes
    PROVE  ExplicitIncludes' = ExplicitIncludes
  BY DEF ExplicitIncludes, Companions, Bare

LEMMA UnknownSame ==
    ASSUME cfg' = cfg, includes' = includes
    PROVE  SelectionUnknown' = SelectionUnknown
  BY ExplicitSame DEF SelectionUnknown, BundlesOf

LEMMA SelectedSame ==
    ASSUME cfg' = cfg, explicit' = explicit
    PROVE  /\ Universe' = Universe /\ Deps' = Deps /\ Selected' = Selected
           /\ Least' = Least
<1>1. Universe' = Universe
  BY DEF Universe
<1>2. \A p : SelectedBundles(p)' = SelectedBundles(p)
  BY DEF SelectedBundles, SelectedEntries, BundlesOf, ChannelsOf, channelHeadPlusN,
         ChannelHead, highestVersionBundle, Version, bundleMatchesVersionFilter,
         effectiveVersionFilter
<1>3. \A p : Required(SelectedBundles(p))' = Required(SelectedBundles(p))
  BY DEF SelectedBundles, SelectedEntries, BundlesOf, ChannelsOf, channelHeadPlusN,
         ChannelHead, highestVersionBundle, Version, bundleMatchesVersionFilter,
         effectiveVersionFilter, Required, Providers
<1>4. Deps' = Deps
  BY <1>1, <1>3, Zenon DEF Deps
<1>5. Selected' = Selected
  BY <1>1, <1>2, Zenon DEF Selected
<1>6. Least' = Least
  BY <1>1, <1>4, Zenon DEF Least
<1> QED BY <1>1, <1>4, <1>5, <1>6

LEMMA DepsInside == DOMAIN Deps = Universe /\ \A p \in Universe : Deps[p] \subseteq Universe
  BY DEF Deps, Required, Universe

\* What was parsed of a catalog belongs to a package that was parsed.
LEMMA ParsedPackages ==
    ASSUME upstream \in Catalogs, NEW layers
    PROVE  Packaged(Parsed(layers))
<1> DEFINE found == UNION {Source[l].packages : l \in layers}
           bs == {x \in DOMAIN upstream.bundles : upstream.bundles[x].package \in found}
<1> HIDE DEF found
<1>1. Parsed(layers).bundles = [x \in bs |-> upstream.bundles[x]]
  BY DEF Parsed, found
<1>2. Parsed(layers).packages =
        [p \in found \cap DOMAIN upstream.packages |-> upstream.packages[p]]
  BY DEF Parsed, found
<1>3. Parsed(layers).channels = {ch \in upstream.channels : ch.package \in found}
  BY DEF Parsed, found
<1> QED BY <1>1, <1>2, <1>3, CatalogAssumption DEF Packaged

LEMMA FilterInit == Init => FilterInv
  BY DEF Init, FilterInv, Pushing

\* Steps that leave the catalog, the request and the filter alone.
LEMMA FilterIdle ==
    ASSUME FilterInv, cfg' = cfg, includes' = includes, UNCHANGED filterVars,
           upstream' = upstream,
           \/ pc' = pc
           \/ pc' = "load" \/ pc' = "failed"
           \/ pc \in {"filtered"} \cup Pushing /\ pc' \in Pushing \cup {"done"}
    PROVE  FilterInv'
<1>1. /\ explicit' = explicit /\ pkgSet' = pkgSet /\ queue' = queue
      /\ allowedBundles' = allowedBundles /\ filtered' = filtered
  BY DEF filterVars
<1>2. ExplicitIncludes' = ExplicitIncludes /\ SelectionUnknown' = SelectionUnknown
  BY ExplicitSame, UnknownSame
<1>3. Deps' = Deps /\ Selected' = Selected
  BY <1>1, SelectedSame
<1> QED BY <1>1, <1>2, <1>3 DEF FilterInv, Pushing

LEMMA FilterNext == FilterInv /\ [Next]_vars => FilterInv'
<1> SUFFICES ASSUME FilterInv, [Next]_vars PROVE FilterInv'
  OBVIOUS
<1>1. CASE UNCHANGED vars
  BY <1>1, FilterIdle DEF vars
<1>2. CASE Load
  <2>1. PICK bad \in SUBSET DOMAIN Source :
            /\ cfg' = Parsed(DOMAIN Source \ bad)
            /\ pc' = "failed" \/ pc' = "expand"
    BY <1>2, Zenon DEF Load
  <2>2. upstream' = upstream
    BY <1>2 DEF Load
  <2>3. upstream \in Catalogs
    BY DEF FilterInv
  <2>4. Packaged(cfg')
    BY <2>1, <2>3, ParsedPackages
  <2> QED BY <2>1, <2>2, <2>3, <2>4 DEF FilterInv, Pushing
<1>3. CASE LoadFails \/ FilterFails \/ BuildFails
  BY <1>3, FilterIdle DEF LoadFails, FilterFails, BuildFails, Fail
<1>4. CASE Resolved \/ Retry
  BY <1>4, FilterIdle DEF Resolved, Retry, JobIncludes
<1>5. CASE StartFilter
  <2>1. /\ pc = "expand" /\ cfg' = cfg /\ includes' = includes /\ upstream' = upstream
        /\ pc' = (IF includes = <<>> THEN "filtered" ELSE "search")
        /\ Expand /\ ~SelectionUnknown
    BY <1>5 DEF StartFilter, FilterStep
  <2>2. ExplicitIncludes' = ExplicitIncludes /\ SelectionUnknown' = SelectionUnknown
    BY <2>1, ExplicitSame, UnknownSame
  <2>3. /\ explicit' = ExplicitIncludes
        /\ pkgSet' = DOMAIN explicit' /\ queue' = DOMAIN explicit' /\ allowedBundles' = {}
        /\ includes = <<>> => filtered' = cfg
    BY <2>1 DEF Expand
  <2>4. (DOMAIN explicit)' \subseteq (DOMAIN Deps)'
    BY DEF Deps, Universe
  <2>5. Searching(DOMAIN explicit, Deps, Selected, DOMAIN explicit, DOMAIN explicit, {})'
    BY <2>4, SearchStart
  <2>6. Searching(DOMAIN explicit, Deps, Selected, pkgSet, queue, allowedBundles)'
    BY <2>3, <2>5
  <2> QED BY <2>1, <2>2, <2>3, <2>6 DEF FilterInv, Pushing
<1>6. CASE Search
  <2>1. PICK p \in queue :
          /\ pc = "search" /\ pc' = "search" /\ cfg' = cfg /\ includes' = includes
          /\ upstream' = upstream /\ ProcessPackage(p)
    BY <1>6 DEF Search, FilterStep
  <2>2. explicit' = explicit
    BY <2>1 DEF ProcessPackage
  <2>3. Searching(DOMAIN explicit, Deps, Selected, pkgSet, queue, allowedBundles)
    BY <2>1 DEF FilterInv
  <2>4. p \in Universe
    BY <2>3, DepsInside DEF Searching
  <2>5. /\ Deps[p] = Required(SelectedBundles(p)) /\ Selected[p] = SelectedBundles(p)
        /\ Deps[p] \subseteq DOMAIN Deps
    BY <2>4, DepsInside DEF Deps, Selected
  <2>6. /\ allowedBundles' = allowedBundles \cup Selected[p]
        /\ pkgSet' = pkgSet \cup (Deps[p] \ pkgSet)
        /\ queue' = (queue \ {p}) \cup (Deps[p] \ pkgSet)
    BY <2>1, <2>5, Zenon DEF ProcessPackage
  <2>7. Searching(DOMAIN explicit, Deps, Selected, pkgSet', queue', allowedBundles')
    BY <2>3, <2>5, <2>6, SearchStep
  <2>8. Deps' = Deps /\ Selected' = Selected
    BY <2>1, <2>2, SelectedSame
  <2>9. Searching(DOMAIN explicit, Deps, Selected, pkgSet, queue, allowedBundles)'
    BY <2>2, <2>7, <2>8
  <2>10. ExplicitIncludes' = ExplicitIncludes /\ SelectionUnknown' = SelectionUnknown
    BY <2>1, ExplicitSame, UnknownSame
  <2> QED BY <2>1, <2>2, <2>9, <2>10 DEF FilterInv, Pushing
<1>7. CASE EndFilter
  <2>1. /\ pc = "search" /\ pc' = "filtered" /\ cfg' = cfg /\ includes' = includes
        /\ upstream' = upstream /\ Trim
    BY <1>7 DEF EndFilter, FilterStep
  <2>2. /\ explicit' = explicit /\ pkgSet' = pkgSet /\ queue' = queue
        /\ allowedBundles' = allowedBundles /\ queue = {}
    BY <2>1 DEF Trim
  <2>3. /\ filtered'.packages = [p \in pkgSet \cap DOMAIN cfg.packages |-> DefaultChannel(p)]
        /\ filtered'.bundles = [b \in allowedBundles \cap DOMAIN cfg.bundles |-> cfg.bundles[b]]
    BY <2>1 DEF Trim
  <2>4. /\ DOMAIN filtered'.packages = pkgSet \cap DOMAIN cfg.packages
        /\ DOMAIN filtered'.bundles = allowedBundles \cap DOMAIN cfg.bundles
    BY <2>3
  <2>5. ExplicitIncludes' = ExplicitIncludes /\ SelectionUnknown' = SelectionUnknown
    BY <2>1, ExplicitSame, UnknownSame
  <2>6. Deps' = Deps /\ Selected' = Selected
    BY <2>1, <2>2, SelectedSame
  <2> QED BY <2>1, <2>2, <2>4, <2>5, <2>6 DEF FilterInv, Pushing
<1>8. CASE StartPush
  BY <1>8, FilterIdle DEF StartPush, PushUnchanged, Pushing
<1>9. ASSUME NEW l \in DOMAIN up, StartUpload(l) \/ EndUpload(l) PROVE FilterInv'
  BY <1>9, FilterIdle DEF StartUpload, EndUpload, PushUnchanged
<1>10. CASE WaitUploads \/ PushOverlay \/ PushConfig \/ PutManifest
  BY <1>10, FilterIdle
     DEF WaitUploads, AfterUploads, PushOverlay, PushConfig, PutManifest, PushUnchanged, Pushing
<1> QED BY <1>1, <1>2, <1>3, <1>4, <1>5, <1>6, <1>7, <1>8, <1>9, <1>10 DEF Next

\* A requested package that the catalog does not have adds nothing.
LEMMA MissingPackage ==
    ASSUME Packaged(cfg), explicit = ExplicitIncludes, ~SelectionUnknown,
           NEW p \in DOMAIN explicit, p \notin DOMAIN cfg.packages
    PROVE  Deps[p] = {}
<1>1. BundlesOf(p) = {}
  BY DEF Packaged, BundlesOf
<1>2. ChannelsOf(p) = {}
  BY DEF Packaged, ChannelsOf
<1>3. explicit[p].bundles \subseteq BundlesOf(p)
  BY Zenon DEF SelectionUnknown
<1>4. SelectedBundles(p) = {}
  BY <1>1, <1>2, <1>3 DEF SelectedBundles
<1>5. Required({}) = {}
  BY DEF Required, Providers
<1> QED BY <1>4, <1>5 DEF Deps, Universe

LEMMA FilterCloses == FilterInv => DependenciesClosed
<1> SUFFICES ASSUME FilterInv, Trimmed PROVE DependenciesClosed
  BY DEF DependenciesClosed
<1> DEFINE all == DOMAIN cfg.packages
           result == DOMAIN filtered.packages
           dep == [p \in all |-> Required(SelectedBundles(p))]
           closed(S) == all \cap DOMAIN explicit \subseteq S /\ \A p \in S : dep[p] \subseteq S
<1>1. /\ Searching(DOMAIN explicit, Deps, Selected, pkgSet, {}, allowedBundles)
      /\ result = pkgSet \cap all
      /\ Packaged(cfg) /\ explicit = ExplicitIncludes /\ ~SelectionUnknown
  BY DEF FilterInv, Trimmed
<1>2. ClosedSet(DOMAIN explicit, Deps, pkgSet)
  BY <1>1, SearchEnd
<1>3. \A p \in all : dep[p] = Deps[p] /\ dep[p] \subseteq all
  BY DEF Deps, Universe, Required
<1> HIDE DEF dep, result, all
<1>4. closed(result)
  BY <1>1, <1>2, <1>3 DEF ClosedSet
<1>5. ASSUME NEW S \in SUBSET result, closed(S) PROVE S = result
  <2> DEFINE T == S \cup DOMAIN explicit
  <2>1. ASSUME NEW p \in T PROVE Deps[p] \subseteq T
    <3>1. CASE p \in S
      BY <3>1, <1>1, <1>3, <1>5
    <3>2. CASE p \in DOMAIN explicit /\ p \notin all
      BY <3>2, <1>1, MissingPackage DEF all
    <3>3. CASE p \in DOMAIN explicit /\ p \in all
      BY <3>3, <1>5, <3>1
    <3> QED BY <3>1, <3>2, <3>3
  <2>2. T \in SUBSET Universe
    BY <1>1 DEF Universe, all
  <2>3. ClosedSet(DOMAIN explicit, Deps, T)
    BY <2>1 DEF ClosedSet
  <2>4. pkgSet \subseteq T
    BY <1>1, <2>2, <2>3, DepsInside DEF Searching
  <2> QED BY <1>1, <1>5, <2>4
<1> QED BY <1>4, <1>5 DEF DependenciesClosed, dep, result, all

(***************************************************************************)
(* FilterFBC keeps the least set of packages that has the requested ones   *)
(* and their companions and is closed under the dependencies of the        *)
(* bundles it keeps, in whichever order Go iterates over the maps and      *)
(* however the dependencies loop.                                          *)
(***************************************************************************)
THEOREM TheFilterIsClosed == Spec => []DependenciesClosed
  BY FilterInit, FilterNext, FilterCloses, PTL DEF Spec

-----------------------------------------------------------------------------
(***************************************************************************)
(* Two filters that read the same layers select the same bundles.          *)
(***************************************************************************)
Full == Parsed(DOMAIN Source)

AgreeInv ==
    /\ job \in {"resolve", "build"}
    /\ job = "resolve" => target = {} /\ pc \notin Pushing
    /\ skipped = {} /\ (job = "build" \/ pc \notin {"load", "failed"}) => cfg = Full
    /\ skipped = {} /\ job = "build" => explicit = ExplicitIncludes /\ resolved = Selection
    /\ \A m \in target : /\ m.content.opaque = TRUE
                         /\ skipped = {} => DOMAIN m.content.catalog.bundles = resolved

LEMMA FullSame == upstream' = upstream => Full' = Full
  BY DEF Full, Parsed

LEMMA SelectionSame ==
    ASSUME cfg' = cfg, includes' = includes, explicit' = explicit
    PROVE  Selection' = Selection
  BY SelectedSame, Zenon DEF Selection

\* Whoever has filtered has found Selection.
LEMMA FilteredSelection ==
    ASSUME FilterInv, pc \in {"filtered"} \cup Pushing
    PROVE  DOMAIN filtered.bundles = Selection
<1>1. CASE includes = <<>>
  BY <1>1 DEF FilterInv, Selection
<1>2. CASE includes # <<>>
  <2>1. /\ Searching(DOMAIN explicit, Deps, Selected, pkgSet, {}, allowedBundles)
        /\ DOMAIN filtered.bundles = allowedBundles \cap DOMAIN cfg.bundles
    BY <1>2 DEF FilterInv
  <2>2. pkgSet = Least
    BY <2>1, SearchEnd, DepsInside DEF Least
  <2>3. allowedBundles = UNION {Selected[p] : p \in Least}
    BY <2>1, <2>2, SearchEnd
  <2> QED BY <1>2, <2>1, <2>3 DEF Selection
<1> QED BY <1>1, <1>2

LEMMA AgreeInit == Init => AgreeInv
  BY DEF Init, AgreeInv, Pushing

\* Steps that neither read nor filter nor publish.
LEMMA AgreeIdle ==
    ASSUME AgreeInv, cfg' = cfg, includes' = includes, explicit' = explicit,
           upstream' = upstream, job' = job, skipped' = skipped, resolved' = resolved,
           target' = target,
           pc \in {"load", "failed"} => pc' \in {"load", "failed"},
           pc' \in Pushing => job = "build"
    PROVE  AgreeInv'
<1>1. /\ Full' = Full /\ Selection' = Selection /\ ExplicitIncludes' = ExplicitIncludes
  BY FullSame, SelectionSame, ExplicitSame
<1> QED BY <1>1 DEF AgreeInv

LEMMA AgreeNext == FilterInv /\ AgreeInv /\ [Next]_vars => AgreeInv'
<1> SUFFICES ASSUME FilterInv, AgreeInv, [Next]_vars PROVE AgreeInv'
  OBVIOUS
<1>0. job = "resolve" \/ job = "build"
  BY DEF AgreeInv
<1>1. CASE UNCHANGED vars
  BY <1>1, AgreeIdle DEF vars, filterVars, imageVars, AgreeInv
<1>2. CASE Load
  <2>1. PICK bad \in SUBSET DOMAIN Source :
            /\ cfg' = Parsed(DOMAIN Source \ bad)
            /\ pc' = "failed" \/ pc' = "expand"
            /\ skipped' = IF job = "resolve" THEN bad ELSE skipped \cup bad
    BY <1>2, Zenon DEF Load
  <2>2. /\ includes' = includes /\ explicit' = explicit /\ upstream' = upstream
        /\ job' = job /\ resolved' = resolved /\ target' = target
    BY <1>2 DEF Load, filterVars
  <2>3. Full' = Full
    BY <2>2, FullSame
  <2>4. ASSUME skipped' = {} PROVE cfg' = Full'
    <3>1. bad = {}
      BY <1>0, <2>1, <2>4
    <3>2. DOMAIN Source \ bad = DOMAIN Source
      BY <3>1
    <3> QED BY <2>1, <2>3, <3>2 DEF Full
  <2>5. CASE job = "resolve"
    BY <2>1, <2>2, <2>4, <2>5 DEF AgreeInv, Pushing
  <2>6. CASE job = "build" /\ skipped' = {}
    <3>1. skipped = {}
      BY <2>1, <2>6
    <3>2. cfg' = cfg
      BY <2>3, <2>4, <2>6, <3>1 DEF AgreeInv
    <3>3. Selection' = Selection /\ ExplicitIncludes' = ExplicitIncludes
      BY <2>2, <3>2, SelectionSame, ExplicitSame
    <3> QED BY <2>2, <2>4, <2>6, <3>1, <3>3 DEF AgreeInv
  <2>7. CASE job = "build" /\ skipped' # {}
    BY <2>1, <2>2, <2>7 DEF AgreeInv
  <2> QED BY <1>0, <2>5, <2>6, <2>7
<1>3. CASE LoadFails \/ FilterFails \/ BuildFails \/ Retry
  BY <1>3, AgreeIdle
     DEF LoadFails, FilterFails, BuildFails, Retry, Fail, filterVars, imageVars, Pushing
<1>4. CASE StartFilter
  <2>1. /\ pc = "expand" /\ cfg' = cfg /\ includes' = includes /\ upstream' = upstream
        /\ pc' \in {"filtered", "search"}
        /\ job' = job /\ skipped' = skipped /\ resolved' = resolved /\ target' = target
        /\ explicit' = ExplicitIncludes
    BY <1>4 DEF StartFilter, FilterStep, Expand, imageVars
  <2>2. Full' = Full /\ ExplicitIncludes' = ExplicitIncludes
    BY <2>1, FullSame, ExplicitSame
  <2>3. CASE job = "build" /\ skipped = {}
    <3>1. explicit' = explicit
      BY <2>1, <2>3 DEF AgreeInv
    <3> QED BY <2>1, <3>1, AgreeIdle DEF Pushing
  <2>4. CASE job = "resolve" \/ skipped # {}
    BY <2>1, <2>2, <2>4 DEF AgreeInv, Pushing
  <2> QED BY <1>0, <2>3, <2>4
<1>5. CASE Search \/ EndFilter
  BY <1>5, AgreeIdle
     DEF Search, EndFilter, FilterStep, ProcessPackage, Trim, imageVars, Pushing
<1>6. CASE Resolved
  <2>1. /\ pc = "filtered" /\ job = "resolve" /\ job' = "build" /\ cfg' = cfg
        /\ includes' = includes /\ explicit' = explicit /\ upstream' = upstream
        /\ skipped' = skipped /\ target' = target
        /\ resolved' = DOMAIN filtered.bundles /\ pc' = "load"
    BY <1>6 DEF Resolved, JobIncludes, filterVars, imageVars
  <2>2. resolved' = Selection /\ explicit = ExplicitIncludes
    BY <2>1, FilteredSelection DEF FilterInv
  <2>3. Full' = Full /\ Selection' = Selection /\ ExplicitIncludes' = ExplicitIncludes
    BY <2>1, FullSame, SelectionSame, ExplicitSame
  <2> QED BY <2>1, <2>2, <2>3 DEF AgreeInv, Pushing
<1>7. CASE StartPush
  BY <1>7, AgreeIdle DEF StartPush, PushUnchanged, filterVars
<1>8. ASSUME NEW l \in DOMAIN up, StartUpload(l) \/ EndUpload(l) PROVE AgreeInv'
  BY <1>8, AgreeIdle DEF StartUpload, EndUpload, PushUnchanged, filterVars, AgreeInv, Pushing
<1>9. CASE WaitUploads \/ PushOverlay \/ PushConfig
  <2>1. pc \in Pushing /\ job = "build"
    BY <1>0, <1>9 DEF WaitUploads, PushOverlay, PushConfig, Pushing, AgreeInv
  <2> QED BY <1>9, <2>1, AgreeIdle
          DEF WaitUploads, AfterUploads, PushOverlay, PushConfig, PushUnchanged, filterVars, Pushing
<1>10. CASE PutManifest
  <2>1. /\ pc = "manifest" /\ target' = {Manifest} /\ pc' \in {"done", "failed"}
        /\ cfg' = cfg /\ includes' = includes /\ explicit' = explicit
        /\ upstream' = upstream /\ job' = job /\ skipped' = skipped /\ resolved' = resolved
    BY <1>10 DEF PutManifest, PushUnchanged, filterVars
  <2>2. job = "build"
    BY <1>0, <2>1 DEF AgreeInv, Pushing
  <2>3. Full' = Full /\ Selection' = Selection /\ ExplicitIncludes' = ExplicitIncludes
    BY <2>1, FullSame, SelectionSame, ExplicitSame
  <2>4. DOMAIN filtered.bundles = Selection
    BY <2>1, FilteredSelection DEF Pushing
  <2>5. Manifest.content.opaque = TRUE /\ Manifest.content.catalog = filtered
    BY DEF Manifest, Overlay
  <2> QED BY <2>1, <2>2, <2>3, <2>4, <2>5 DEF AgreeInv, Pushing
<1> QED BY <1>1, <1>2, <1>3, <1>4, <1>5, <1>6, <1>7, <1>8, <1>9, <1>10 DEF Next

LEMMA AgreeServes == AgreeInv => AdvertisedWasResolved
  BY DEF AgreeInv, AdvertisedWasResolved, Served

(***************************************************************************)
(* Whenever neither the manager nor a run of the Job left out a layer, the *)
(* image at the target tag offers only bundles that the manager mirrors,   *)
(* although both filter on their own, in orders of their own, and any run  *)
(* of the Job may be the one that pushed it (ResolveCatalogFull,           *)
(* BuildFilteredCatalogImage).                                             *)
(***************************************************************************)
THEOREM TheImageOffersWhatIsMirrored == Spec => []AdvertisedWasResolved
<1>1. Init => FilterInv /\ AgreeInv
  BY FilterInit, AgreeInit
<1>2. (FilterInv /\ AgreeInv) /\ [Next]_vars => (FilterInv /\ AgreeInv)'
  BY FilterNext, AgreeNext
<1> QED BY <1>1, <1>2, AgreeServes, PTL DEF Spec

-----------------------------------------------------------------------------
(***************************************************************************)
(* Sequences of entries.                                                   *)
(***************************************************************************)
\* Induction up to a bound, over a set.
LEMMA UpTo ==
    ASSUME NEW N \in Nat, NEW S, 0 \in S, \A n \in 0..N : n < N /\ n \in S => n + 1 \in S
    PROVE  0..N \subseteq S
<1> DEFINE T == (0..N) \ S
<1> SUFFICES ASSUME T # {} PROVE FALSE
  OBVIOUS
<1>1. T \subseteq Nat
  OBVIOUS
<1>2. PICK x \in T : \A y \in T : ~(<<y, x>> \in OpToRel(<, Nat))
  BY <1>1, NatLessThanWellFounded, WFMin, Zenon
<1>3. \A y \in T : ~(y < x)
  BY <1>1, <1>2 DEF OpToRel
<1>4. x # 0 /\ x \in 0..N
  OBVIOUS
<1>5. x - 1 \in 0..N /\ x - 1 \notin T
  BY <1>3, <1>4
<1>6. (x - 1) + 1 \in S
  BY <1>4, <1>5
<1> QED BY <1>4, <1>6

\* A set of numbers has a least one.
LEMMA LeastOne ==
    ASSUME NEW T \in SUBSET Nat, T # {}
    PROVE  Min(T) \in T /\ \A y \in T : Min(T) <= y
<1>1. PICK x \in T : \A y \in T : ~(<<y, x>> \in OpToRel(<, Nat))
  BY NatLessThanWellFounded, WFMin, Zenon
<1>2. ASSUME NEW y \in T PROVE x <= y
  <2>1. ~(y < x) /\ x \in Nat /\ y \in Nat
    BY <1>1 DEF OpToRel
  <2> QED BY <2>1
<1> QED BY <1>2 DEF Min

\* A loop that starts with a value and makes the n-th step from the one before:
\* the recursion of all the definitions below.
Loops(f, N, V, first, G) ==
    f \in [0..N -> V] /\ f[0] = first /\ \A n \in 1..N : f[n] = G[n][f[n - 1]]
LEMMA Loop ==
    ASSUME NEW N \in Nat, NEW V, NEW first \in V, NEW G \in [1..N -> [V -> V]]
    PROVE  \E f : Loops(f, N, V, first, G)
<1> DEFINE Runs(f, n) == f \in [0..n -> V] /\ f[0] = first /\ \A i \in 1..n : f[i] = G[i][f[i - 1]]
           S == {n \in 0..N : \E f : Runs(f, n)}
<1>1. 0 \in S
  <2>1. Runs([i \in 0..0 |-> first], 0)
    OBVIOUS
  <2> HIDE DEF Runs
  <2> QED BY <2>1
<1>2. ASSUME NEW n \in 0..N, n < N, n \in S PROVE n + 1 \in S
  <2>1. PICK f : Runs(f, n)
    BY <1>2
  <2> DEFINE g == [i \in 0..(n + 1) |-> IF i = n + 1 THEN G[n + 1][f[n]] ELSE f[i]]
  <2>2. \A i \in 0..n : g[i] = f[i] /\ f[i] \in V
    BY <2>1
  <2>3. g[n + 1] = G[n + 1][f[n]] /\ n + 1 \in 1..N /\ f[n] \in V
    BY <1>2, <2>1
  <2>4. g \in [0..(n + 1) -> V]
    BY <2>2, <2>3
  <2>5. ASSUME NEW i \in 1..(n + 1) PROVE g[i] = G[i][g[i - 1]]
    <3>1. CASE i = n + 1
      <4>1. i - 1 = n /\ n \in 0..n
        BY <3>1
      <4> QED BY <3>1, <4>1, <2>2, <2>3
    <3>2. CASE i # n + 1
      <4>1. i \in 0..n /\ i - 1 \in 0..n /\ i \in 1..n
        BY <3>2
      <4> QED BY <4>1, <2>1, <2>2
    <3> QED BY <3>1, <3>2
  <2>6. g[0] = first
    BY <2>1, <2>2
  <2> HIDE DEF g
  <2>7. Runs(g, n + 1)
    BY <2>4, <2>5, <2>6
  <2> HIDE DEF Runs
  <2> QED BY <2>3, <2>7
<1>3. N \in S
  <2> HIDE DEF S
  <2>1. \A n \in 0..N : n < N /\ n \in S => n + 1 \in S
    BY <1>2
  <2>2. 0..N \subseteq S
    BY <1>1, <2>1, UpTo
  <2> QED BY <2>2
<1> QED BY <1>3 DEF Loops

LEMMA RetainRuns ==
    ASSUME NEW entries \in Seq(EntryRecord), NEW names
    PROVE  \E f : /\ f \in [0..Len(entries) -> Seq(EntryRecord)] /\ f[0] = <<>>
                  /\ \A n \in 1..Len(entries) :
                        f[n] = IF entries[n].name \in names THEN Append(f[n - 1], entries[n]) ELSE f[n - 1]
                  /\ Retain(entries, names) = f[Len(entries)]
<1> DEFINE N == Len(entries)
           V == Seq(EntryRecord)
           Take(s, n) == IF entries[n].name \in names THEN Append(s, entries[n]) ELSE s
           G == [n \in 1..N |-> [s \in V |-> Take(s, n)]]
           Defines(f) == f = [n \in 0..N |-> IF n = 0 THEN <<>> ELSE Take(f[n - 1], n)]
<1>0. N \in Nat /\ \A n \in 1..N : entries[n] \in EntryRecord
  OBVIOUS
<1>1. G \in [1..N -> [V -> V]] /\ <<>> \in V
  <2>1. ASSUME NEW s \in V, NEW n \in 1..N PROVE Take(s, n) \in V
    BY <1>0
  <2> HIDE DEF Take, V, N
  <2>2. \A s \in V : \A n \in 1..N : Take(s, n) \in V
    BY <2>1
  <2>3. <<>> \in V
    BY DEF V
  <2> QED BY <2>2, <2>3
<1>2. PICK f \in [0..N -> V] : f[0] = <<>> /\ \A n \in 1..N : f[n] = G[n][f[n - 1]]
  <2> DEFINE nil == <<>>
  <2>1. nil \in V
    BY <1>1
  <2> HIDE DEF G, V, N, nil
  <2>3. N \in Nat
    BY <1>0
  <2>4. G \in [1..N -> [V -> V]]
    BY <1>1
  <2>2. \E f : Loops(f, N, V, nil, G)
    BY <2>1, <2>3, <2>4, Loop
  <2> QED BY <2>2 DEF nil, Loops
<1>3. ASSUME NEW n \in 1..N PROVE f[n] = Take(f[n - 1], n)
  <2>1. n - 1 \in 0..N /\ f[n - 1] \in V
    <3> HIDE DEF V, N
    <3> QED BY <1>0
  <2>2. G[n][f[n - 1]] = Take(f[n - 1], n)
    <3> HIDE DEF Take, V, N
    <3> QED BY <2>1
  <2> QED BY <1>2, <2>2
<1>4. Defines(f)
  <2> HIDE DEF Take
  <2> QED BY <1>2, <1>3
<1>5. Retain(entries, names) = (CHOOSE g : Defines(g))[N]
  BY DEF Retain
<1> DEFINE h == CHOOSE g : Defines(g)
<1>6. Defines(h)
  <2> HIDE DEF Defines
  <2> QED BY <1>4
<1> HIDE DEF h
<1>7. h[0] = <<>> /\ \A n \in 1..N : h[n] = Take(h[n - 1], n)
  <2> HIDE DEF Take, N
  <2> QED BY <1>0, <1>6
<1>8. \A n \in 0..N : h[n] = f[n]
  <2> DEFINE S == {n \in 0..N : h[n] = f[n]}
  <2>1. 0 \in S
    BY <1>0, <1>2, <1>7
  <2>2. ASSUME NEW n \in 0..N, n < N, n \in S PROVE n + 1 \in S
    <3>1. n + 1 \in 1..N /\ (n + 1) - 1 = n /\ n + 1 \in 0..N
      BY <2>2
    <3> QED BY <3>1, <2>2, <1>3, <1>7
  <2> HIDE DEF S, N
  <2>3. 0..N \subseteq S
    BY <1>0, <2>1, <2>2, UpTo
  <2> QED BY <2>3 DEF S
<1>9. Retain(entries, names) = f[N]
  BY <1>0, <1>5, <1>8 DEF h
<1> QED BY <1>2, <1>3, <1>9
\* What is retained, and that nothing is listed twice.
LEMMA RetainShape ==
    ASSUME NEW entries \in Seq(EntryRecord), NEW names
    PROVE  /\ Retain(entries, names) \in Seq(EntryRecord)
           /\ ToSet(Retain(entries, names)) = {e \in ToSet(entries) : e.name \in names}
           /\ Names(Retain(entries, names)) = Names(entries) \cap names
           /\ Distinct(entries) => Distinct(Retain(entries, names))
<1> DEFINE N == Len(entries)
<1>1. PICK f :
          /\ f \in [0..N -> Seq(EntryRecord)] /\ f[0] = <<>>
          /\ \A n \in 1..N :
                f[n] = IF entries[n].name \in names THEN Append(f[n - 1], entries[n]) ELSE f[n - 1]
          /\ Retain(entries, names) = f[N]
  BY RetainRuns, Zenon
<1>2. N \in Nat /\ DOMAIN entries = 1..N /\ \A n \in 1..N : entries[n] \in EntryRecord
  OBVIOUS
<1> DEFINE Pick(n) == {entries[i] : i \in {j \in 1..n : entries[j].name \in names}}
           OK(n) == /\ \A k \in 1..Len(f[n]) : f[n][k] \in Pick(n)
                    /\ \A x \in Pick(n) : \E k \in 1..Len(f[n]) : f[n][k] = x
                    /\ Distinct(entries) => Distinct(f[n])
           S == {n \in 0..N : OK(n)}
<1>3. 0 \in S
  BY <1>1, <1>2 DEF Distinct
<1>4. ASSUME NEW n \in 0..N, n < N, n \in S PROVE n + 1 \in S
  <2> DEFINE m == n + 1
             old == f[n]
             new == f[m]
  <2>0. m \in 1..N /\ m \in 0..N /\ m - 1 = n
    BY <1>2, <1>4
  <2>1. /\ new = IF entries[m].name \in names THEN Append(old, entries[m]) ELSE old
        /\ old \in Seq(EntryRecord) /\ OK(n) /\ entries[m] \in EntryRecord
    <3>1. OK(n)
      BY <1>4
    <3> HIDE DEF OK, N, m
    <3>2. f[m] = IF entries[m].name \in names THEN Append(f[m - 1], entries[m]) ELSE f[m - 1]
      BY <1>1, <2>0
    <3>3. f[n] \in Seq(EntryRecord) /\ entries[m] \in EntryRecord
      BY <1>1, <1>2, <2>0
    <3> QED BY <2>0, <3>1, <3>2, <3>3
  <2>2. CASE entries[m].name \notin names
    <3>1. new = old
      BY <2>1, <2>2
    <3>2. Pick(m) = Pick(n)
      <4>1. {j \in 1..m : entries[j].name \in names} = {j \in 1..n : entries[j].name \in names}
        BY <2>0, <2>1, <2>2
      <4> QED BY <4>1
    <3> QED BY <2>0, <2>1, <3>1, <3>2
  <2>3. CASE entries[m].name \in names
    <3>1. new = Append(old, entries[m])
      BY <2>1, <2>3
    <3>2. Pick(m) = Pick(n) \cup {entries[m]}
      <4>1. {j \in 1..m : entries[j].name \in names} = {j \in 1..n : entries[j].name \in names} \cup {m}
        BY <2>0, <2>1, <2>3
      <4> QED BY <4>1
    <3> DEFINE L == Len(old)
    <3>3. /\ L \in Nat /\ Len(new) = L + 1 /\ new[L + 1] = entries[m]
          /\ \A k \in 1..L : new[k] = old[k]
      BY <2>1, <3>1
    <3>3a. DOMAIN new = 1..(L + 1) /\ DOMAIN old = 1..L
      BY <2>1, <3>1
    <3> HIDE DEF new, old, m, L
    <3>4. \A k \in 1..Len(new) : new[k] \in Pick(m)
      <4>1. \A k \in 1..L : old[k] \in Pick(n)
        BY <2>1 DEF old, L
      <4>2. \A k \in 1..Len(new) : k \in 1..L \/ k = L + 1
        BY <3>3
      <4> HIDE DEF Pick
      <4> QED BY <3>2, <3>3, <4>1, <4>2
    <3>5. \A x \in Pick(m) : \E k \in 1..Len(new) : new[k] = x
      <4>0. L + 1 \in 1..Len(new)
        BY <3>3
      <4>1. SUFFICES ASSUME NEW x \in Pick(n) PROVE \E k \in 1..Len(new) : new[k] = x
        <5> HIDE DEF Pick
        <5> QED BY <4>0, <3>2, <3>3
      <4>2. PICK k \in 1..L : old[k] = x
        BY <2>1 DEF old, L
      <4>3. k \in 1..Len(new) /\ new[k] = x
        BY <3>3, <4>2
      <4> QED BY <4>3
    <3>6. ASSUME Distinct(entries) PROVE Distinct(new)
      <4>1. \A k \in 1..L : new[k].name # entries[m].name
        <5> SUFFICES ASSUME NEW k \in 1..L PROVE new[k].name # entries[m].name
          OBVIOUS
        <5>1. new[k] \in Pick(n)
          BY <2>1, <3>3 DEF old, L
        <5>2. PICK j \in 1..n : new[k] = entries[j]
          BY <5>1
        <5>3. j \in DOMAIN entries /\ m \in DOMAIN entries /\ j # m
          BY <1>2, <2>0 DEF m
        <5> QED BY <5>2, <5>3, <3>6 DEF Distinct
      <4>2. Distinct(old)
        BY <2>1, <3>6 DEF old
      <4>3. \A i, j \in 1..L : new[i].name = new[j].name => i = j
        BY <4>2, <3>3, <3>3a DEF Distinct
      <4>4. \A i \in 1..(L + 1) : i \in 1..L \/ i = L + 1
        BY <3>3
      <4>5. \A i, j \in 1..(L + 1) : new[i].name = new[j].name => i = j
        BY <4>1, <4>3, <4>4, <3>3
      <4> QED BY <4>5, <3>3a DEF Distinct
    <3> QED BY <2>0, <2>1, <3>4, <3>5, <3>6 DEF new, m
  <2> QED BY <2>2, <2>3
<1>5. N \in S
  <2> HIDE DEF S, N
  <2>1. 0..N \subseteq S
    BY <1>2, <1>3, <1>4, UpTo
  <2> QED BY <1>2, <2>1
<1> DEFINE r == Retain(entries, names)
<1>6. r = f[N] /\ r \in Seq(EntryRecord) /\ OK(N)
  BY <1>1, <1>2, <1>5
<1>7. DOMAIN r = 1..Len(f[N])
  BY <1>6
<1>8. Pick(N) = {e \in ToSet(entries) : e.name \in names}
  BY <1>2 DEF ToSet
<1>9. ToSet(r) = Pick(N)
  <2> HIDE DEF Pick, r, N
  <2> QED BY <1>6, <1>7 DEF ToSet
<1>10. ToSet(r) = {e \in ToSet(entries) : e.name \in names}
  BY <1>8, <1>9
<1>11. Names(r) = Names(entries) \cap names
  BY <1>10 DEF Names
<1> QED BY <1>6, <1>10, <1>11

\* One name, one entry.
LEMMA RetainOne ==
    ASSUME NEW entries \in Seq(EntryRecord), Distinct(entries), NEW names, NEW x,
           Names(entries) \cap names = {x}
    PROVE  Len(Retain(entries, names)) = 1
<1> DEFINE r == Retain(entries, names)
<1>1. r \in Seq(EntryRecord) /\ Names(r) = {x} /\ Distinct(r)
  BY RetainShape
<1> HIDE DEF r
<1>2. DOMAIN r = 1..Len(r) /\ Len(r) \in Nat
  BY <1>1
<1>3. \A i \in 1..Len(r) : r[i].name = x
  BY <1>1, <1>2 DEF Names, ToSet
<1>4. Len(r) # 0
  BY <1>1, <1>2 DEF Names, ToSet
<1>5. \A i, j \in 1..Len(r) : i = j
  BY <1>1, <1>2, <1>3 DEF Distinct
<1>6. Len(r) <= 1
  <2>1. 1 \in 1..Len(r) /\ Len(r) \in 1..Len(r)
    BY <1>2, <1>4
  <2> QED BY <1>5, <2>1
<1> QED BY <1>2, <1>4, <1>6 DEF r

LEMMA EntryTypes ==
    ASSUME NEW entries \in Seq(EntryRecord), NEW e \in ToSet(entries)
    PROVE  /\ e \in EntryRecord
           /\ e.name \in Nat /\ e.name # 0 /\ e.replaces \in Nat /\ e.skips \subseteq Nat
<1>1. e \in EntryRecord
  BY DEF ToSet
<1> QED BY <1>1 DEF EntryRecord

\* Which entry an entry replaces.
LEMMA ReplacedByEntry ==
    ASSUME NEW entries \in Seq(EntryRecord), Distinct(entries)
    PROVE  /\ \A e \in ToSet(entries) : ReplacedBy(entries, e.name) = e.replaces
           /\ \A b : b \notin Names(entries) => ReplacedBy(entries, b) = 0
           /\ \A b : ReplacedBy(entries, b) \in Nat
           /\ \A b : ReplacedBy(entries, b) # 0 =>
                 \E e \in ToSet(entries) : e.name = b /\ e.replaces = ReplacedBy(entries, b)
<1>1. \A x, y \in ToSet(entries) : x.name = y.name => x = y
  BY DEF ToSet, Distinct
<1>2. \A e \in ToSet(entries) : e \in EntryRecord /\ e.replaces \in Nat
  BY EntryTypes
<1>3. ASSUME NEW e \in ToSet(entries) PROVE ReplacedBy(entries, e.name) = e.replaces
  BY <1>1, <1>3 DEF ReplacedBy
<1>4. ASSUME NEW b, b \notin Names(entries) PROVE ReplacedBy(entries, b) = 0
  BY <1>4 DEF ReplacedBy, Names
<1>5. ASSUME NEW b, b \in Names(entries)
      PROVE  \E e \in ToSet(entries) : e.name = b /\ e.replaces = ReplacedBy(entries, b)
  BY <1>3, <1>5 DEF Names
<1> QED BY <1>2, <1>3, <1>4, <1>5

\* A loop that makes the same step all the time.
LEMMA Steps ==
    ASSUME NEW N \in Nat, NEW first \in Nat, NEW H \in [Nat -> Nat]
    PROVE  \E f \in [0..N -> Nat] : f[0] = first /\ \A n \in 1..N : f[n] = H[f[n - 1]]
<1> DEFINE G == [n \in 1..N |-> H]
<1>1. G \in [1..N -> [Nat -> Nat]]
  OBVIOUS
<1>2. PICK f : Loops(f, N, Nat, first, G)
  BY <1>1, Loop
<1>3. f \in [0..N -> Nat] /\ f[0] = first /\ \A n \in 1..N : f[n] = H[f[n - 1]]
  BY <1>2 DEF Loops
<1> QED BY <1>3

\* The walk along the replaces chain that AncestorWalk makes.
Walks(entries, keep, e, cur) ==
    /\ cur \in [0..Len(entries) -> Nat] /\ cur[0] = e.replaces
    /\ \A n \in 1..Len(entries) :
          cur[n] = IF cur[n - 1] \in keep THEN 0 ELSE ReplacedBy(entries, cur[n - 1])
    /\ AncestorWalk(entries, keep, e) = {cur[n] : n \in 0..Len(entries)} \ {0, e.name}

LEMMA WalkRuns ==
    ASSUME NEW entries \in Seq(EntryRecord), Distinct(entries), NEW keep, NEW e \in EntryRecord
    PROVE  \E cur : Walks(entries, keep, e, cur)
<1> DEFINE N == Len(entries)
           Go(v) == IF v \in keep THEN 0 ELSE ReplacedBy(entries, v)
           H == [v \in Nat |-> Go(v)]
           Defines(f) == f = [n \in 0..N |-> IF n = 0 THEN e.replaces ELSE Go(f[n - 1])]
           first == e.replaces
<1>0. N \in Nat /\ first \in Nat
  BY DEF EntryRecord
<1>1. H \in [Nat -> Nat] /\ \A v : Go(v) \in Nat
  BY ReplacedByEntry
<1>2. PICK f \in [0..N -> Nat] : f[0] = first /\ \A n \in 1..N : f[n] = H[f[n - 1]]
  <2> HIDE DEF H, N, first
  <2> QED BY <1>0, <1>1, Steps
<1> HIDE DEF N, Go
<1>3. Defines(f)
  <2>1. \A v \in Nat : H[v] = Go(v)
    OBVIOUS
  <2> HIDE DEF H
  <2>2. \A n \in 1..N : n - 1 \in 0..N /\ f[n - 1] \in Nat
    BY <1>0
  <2>3. \A n \in 1..N : f[n] = Go(f[n - 1])
    BY <1>2, <2>1, <2>2
  <2> QED BY <1>0, <1>2, <2>3
<1> DEFINE cur == CHOOSE g : Defines(g)
<1>4. Defines(cur)
  <2> HIDE DEF Defines
  <2> QED BY <1>3
<1>5. AncestorWalk(entries, keep, e) = {cur[n] : n \in 0..N} \ {0, e.name}
  BY DEF AncestorWalk, N, Go
<1> HIDE DEF cur
<1>6. cur[0] = e.replaces /\ \A n \in 1..N : cur[n] = Go(cur[n - 1])
  BY <1>0, <1>4
<1>7. cur \in [0..N -> Nat]
  BY <1>0, <1>1, <1>4
<1> QED BY <1>5, <1>6, <1>7 DEF Walks, N, Go

\* The chain below an entry, as long as it can be.
Chains(entries, b, back) ==
    /\ back \in [0..Len(entries) -> Nat] /\ back[0] = ReplacedBy(entries, b)
    /\ \A n \in 1..Len(entries) : back[n] = ReplacedBy(entries, back[n - 1])
    /\ Below(entries, b) = {back[n] : n \in 0..Len(entries)} \ {0}

LEMMA ChainRuns ==
    ASSUME NEW entries \in Seq(EntryRecord), Distinct(entries), NEW b
    PROVE  \E back : Chains(entries, b, back)
<1> DEFINE N == Len(entries)
           Go(v) == ReplacedBy(entries, v)
           H == [v \in Nat |-> Go(v)]
           Defines(f) == f = [n \in 0..N |-> Go(IF n = 0 THEN b ELSE f[n - 1])]
           first == Go(b)
<1>0. N \in Nat
  OBVIOUS
<1>1. H \in [Nat -> Nat] /\ first \in Nat /\ \A v : Go(v) \in Nat
  BY ReplacedByEntry
<1>2. PICK f \in [0..N -> Nat] : f[0] = first /\ \A n \in 1..N : f[n] = H[f[n - 1]]
  <2> HIDE DEF H, N, first
  <2> QED BY <1>0, <1>1, Steps
<1> HIDE DEF N, Go
<1>3. Defines(f)
  <2>1. \A v \in Nat : H[v] = Go(v)
    OBVIOUS
  <2> HIDE DEF H
  <2>2. \A n \in 1..N : n - 1 \in 0..N /\ f[n - 1] \in Nat
    BY <1>0
  <2>3. \A n \in 1..N : f[n] = Go(f[n - 1])
    BY <1>2, <2>1, <2>2
  <2> QED BY <1>0, <1>2, <2>3
<1> DEFINE back == CHOOSE g : Defines(g)
<1>4. Defines(back)
  <2> HIDE DEF Defines
  <2> QED BY <1>3
<1>5. Below(entries, b) = {back[n] : n \in 0..N} \ {0}
  BY DEF Below, N, Go
<1> HIDE DEF back
<1>6. back[0] = Go(b) /\ \A n \in 1..N : back[n] = Go(back[n - 1])
  BY <1>0, <1>4
<1>7. back \in [0..N -> Nat]
  BY <1>0, <1>1, <1>4
<1> QED BY <1>5, <1>6, <1>7 DEF Chains, N, Go

\* The head of a channel and what it replaces, entry by entry.
Backs(entries, previous, back) ==
    /\ back \in [0..previous -> Nat] /\ back[0] = ChannelHead(entries)
    /\ \A n \in 1..previous : back[n] = ReplacedBy(entries, back[n - 1])
    /\ entries # <<>> => channelHeadPlusN(entries, previous) = Names(entries) \cap {back[n] : n \in 0..previous}

LEMMA BackRuns ==
    ASSUME NEW entries \in Seq(EntryRecord), Distinct(entries), NEW previous \in Nat,
           ChannelHead(entries) \in Nat
    PROVE  \E back : Backs(entries, previous, back)
<1> DEFINE N == previous
           Go(v) == ReplacedBy(entries, v)
           H == [v \in Nat |-> Go(v)]
           first == ChannelHead(entries)
           Defines(f) == f = [n \in 0..N |-> IF n = 0 THEN first ELSE Go(f[n - 1])]
<1>0. N \in Nat /\ first \in Nat
  OBVIOUS
<1>1. H \in [Nat -> Nat] /\ \A v : Go(v) \in Nat
  BY ReplacedByEntry
<1>2. PICK f \in [0..N -> Nat] : f[0] = first /\ \A n \in 1..N : f[n] = H[f[n - 1]]
  <2> HIDE DEF H, N, first
  <2> QED BY <1>0, <1>1, Steps
<1> HIDE DEF N, Go, first
<1>3. Defines(f)
  <2>1. \A v \in Nat : H[v] = Go(v)
    OBVIOUS
  <2> HIDE DEF H
  <2>2. \A n \in 1..N : n - 1 \in 0..N /\ f[n - 1] \in Nat
    BY <1>0
  <2>3. \A n \in 1..N : f[n] = Go(f[n - 1])
    BY <1>2, <2>1, <2>2
  <2> QED BY <1>0, <1>2, <2>3
<1> DEFINE back == CHOOSE g : Defines(g)
<1>4. Defines(back)
  <2> HIDE DEF Defines
  <2> QED BY <1>3
<1>5. entries # <<>> => channelHeadPlusN(entries, previous) = Names(entries) \cap {back[n] : n \in 0..N}
  BY DEF channelHeadPlusN, N, Go, first
<1> HIDE DEF back
<1>6. back[0] = first /\ \A n \in 1..N : back[n] = Go(back[n - 1])
  BY <1>0, <1>4
<1>7. back \in [0..N -> Nat]
  BY <1>0, <1>1, <1>4
<1> QED BY <1>5, <1>6, <1>7 DEF Backs, N, Go, first

\* A channel without circles: rank goes down along every upgrade.
Sound(entries, rank, M) ==
    /\ entries \in Seq(EntryRecord) /\ Distinct(entries)
    /\ M \in Nat /\ rank \in [Names(entries) -> 0..M] /\ Ranked(entries, rank)

Falls(entries, rank) ==
    \A e \in ToSet(entries) : e.replaces \in Names(entries) => rank[e.replaces] < rank[e.name]

\* A chain of upgrades that has as many steps as the channel has entries has
\* come to its end.
LEMMA ChainEnds ==
    ASSUME NEW entries \in Seq(EntryRecord), Distinct(entries), NEW M \in Nat,
           NEW rank \in [Names(entries) -> 0..M], Falls(entries, rank),
           NEW f \in [0..Len(entries) -> Nat],
           \A n \in 1..Len(entries) : f[n] = 0 \/ f[n] = ReplacedBy(entries, f[n - 1])
    PROVE  ReplacedBy(entries, f[Len(entries)]) = 0
<1> DEFINE N == Len(entries)
           All == Names(entries)
<1>1. N \in Nat /\ DOMAIN entries = 1..N
  OBVIOUS
<1>2. \A b \in All : b # 0 /\ rank[b] \in Nat
  <2>1. \A b \in All : b # 0
    BY EntryTypes DEF Names
  <2> QED BY <2>1
<1>3. ASSUME NEW n \in 1..N, f[n] \in All PROVE f[n - 1] \in All /\ rank[f[n]] < rank[f[n - 1]]
  <2>1. f[n] # 0 /\ f[n] = ReplacedBy(entries, f[n - 1])
    BY <1>2, <1>3
  <2>2. PICK e \in ToSet(entries) : e.name = f[n - 1] /\ e.replaces = f[n]
    BY <2>1, ReplacedByEntry
  <2> QED BY <2>2, <1>3 DEF Falls, Names
<1> SUFFICES ASSUME f[N] \in All PROVE FALSE
  BY ReplacedByEntry
<1> HIDE DEF All
<1>4. \A n \in 0..N : f[n] \in All
  <2> DEFINE S == {k \in 0..N : f[N - k] \in All}
  <2>1. 0 \in S
    BY <1>1
  <2>2. ASSUME NEW k \in 0..N, k < N, k \in S PROVE k + 1 \in S
    <3>1. N - k \in 1..N /\ N - (k + 1) = (N - k) - 1 /\ k + 1 \in 0..N
      BY <1>1, <2>2
    <3> QED BY <1>3, <2>2, <3>1
  <2>3. 0..N \subseteq S
    <3> HIDE DEF S, N
    <3> QED BY <1>1, <2>1, <2>2, UpTo
  <2>4. \A n \in 0..N : N - n \in 0..N /\ N - (N - n) = n
    BY <1>1
  <2> QED BY <2>3, <2>4
<1>5. ASSUME NEW i \in 0..N, NEW j \in 0..N, i < j PROVE f[i] # f[j]
  <2> DEFINE S == {n \in 0..N : i < n => rank[f[n]] < rank[f[i]]}
  <2>1. 0 \in S
    BY <1>1
  <2>2. ASSUME NEW n \in 0..N, n < N, n \in S PROVE n + 1 \in S
    <3>1. n + 1 \in 1..N /\ n + 1 \in 0..N /\ (n + 1) - 1 = n
      BY <2>2
    <3>2. rank[f[n + 1]] < rank[f[n]] /\ rank[f[n + 1]] \in Nat /\ rank[f[n]] \in Nat /\ rank[f[i]] \in Nat
      BY <3>1, <1>2, <1>3, <1>4
    <3>3. CASE i < n
      BY <2>2, <3>1, <3>2, <3>3
    <3>4. CASE i = n
      BY <3>1, <3>2, <3>4
    <3>5. CASE i > n
      BY <3>1, <3>5
    <3> QED BY <3>3, <3>4, <3>5
  <2>3. j \in S
    <3>1. 0..N \subseteq S
      <4> HIDE DEF S, N
      <4> QED BY <1>1, <2>1, <2>2, UpTo
    <3> QED BY <3>1
  <2>4. rank[f[j]] < rank[f[i]] /\ rank[f[i]] \in Nat
    BY <2>3, <1>2, <1>4, <1>5
  <2> QED BY <2>4
<1> DEFINE at == [n \in 0..N |-> CHOOSE k \in 1..N : entries[k].name = f[n]]
<1>6. \A n \in 0..N : at[n] \in 1..N /\ entries[at[n]].name = f[n]
  <2> SUFFICES ASSUME NEW n \in 0..N PROVE at[n] \in 1..N /\ entries[at[n]].name = f[n]
    OBVIOUS
  <2>1. \E k \in 1..N : entries[k].name = f[n]
    BY <1>1, <1>4 DEF All, Names, ToSet
  <2> QED BY <2>1
<1>7. at \in [0..N -> 1..N]
  BY <1>6
<1>8. IsFiniteSet(0..N) /\ IsFiniteSet(1..N) /\ Cardinality(1..N) < Cardinality(0..N)
  <2> HIDE DEF N
  <2>1. IsFiniteSet(0..N) /\ IsFiniteSet(1..N)
    BY <1>1, FS_Interval
  <2>2. Cardinality(0..N) = N + 1 /\ Cardinality(1..N) = N
    <3>1. Cardinality(0..N) = IF 0 > N THEN 0 ELSE N - 0 + 1
      BY <1>1, FS_Interval
    <3>2. Cardinality(1..N) = IF 1 > N THEN 0 ELSE N - 1 + 1
      BY <1>1, FS_Interval
    <3> QED BY <1>1, <3>1, <3>2
  <2> QED BY <1>1, <2>1, <2>2
<1> HIDE DEF at
<1>9. PICK i \in 0..N, j \in 0..N : i # j /\ at[i] = at[j]
  <2> DEFINE A == 0..N
             B == 1..N
  <2>1. at \in [A -> B] /\ IsFiniteSet(A) /\ IsFiniteSet(B) /\ Cardinality(B) < Cardinality(A)
    BY <1>7, <1>8
  <2> HIDE DEF A, B
  <2>2. \E x, y \in A : x # y /\ at[x] = at[y]
    BY <2>1, FS_PigeonHole
  <2> QED BY <2>2 DEF A
<1>10. f[i] = f[j]
  BY <1>6, <1>9
<1>11. i < j \/ j < i
  BY <1>1, <1>9
<1> QED BY <1>5, <1>10, <1>11

\* Of finitely many numbers one is the largest.
LEMMA Largest ==
    ASSUME NEW N \in Nat, NEW v \in [1..N -> Nat], NEW K \in SUBSET (1..N), K # {}
    PROVE  \E k \in K : \A j \in K : v[j] <= v[k]
<1> DEFINE Top(n) == \E k \in K : k <= n /\ \A j \in K : j <= n => v[j] <= v[k]
           S == {n \in 0..N : (\E k \in K : k <= n) => Top(n)}
<1>1. 0 \in S
  OBVIOUS
<1>2. ASSUME NEW n \in 0..N, n < N, n \in S PROVE n + 1 \in S
  <2>0. n + 1 \in 0..N
    BY <1>2
  <2>1. \A j \in K : j \in Nat /\ v[j] \in Nat /\ (j <= n + 1 <=> j <= n \/ j = n + 1)
    BY <1>2
  <2>2. CASE n + 1 \notin K
    <3>1. \A j \in K : j <= n + 1 <=> j <= n
      BY <2>1, <2>2
    <3> QED BY <1>2, <2>0, <3>1
  <2>3. CASE n + 1 \in K /\ \A k \in K : ~(k <= n)
    <3>1. \A j \in K : j <= n + 1 => j = n + 1
      BY <2>1, <2>3
    <3>2. Top(n + 1)
      BY <2>1, <2>3, <3>1
    <3> HIDE DEF Top
    <3> QED BY <2>0, <3>2
  <2>4. CASE n + 1 \in K /\ \E k \in K : k <= n
    <3>1. PICK k \in K : k <= n /\ \A j \in K : j <= n => v[j] <= v[k]
      BY <1>2, <2>4
    <3>2. CASE v[n + 1] <= v[k]
      <4>1. k <= n + 1 /\ \A j \in K : j <= n + 1 => v[j] <= v[k]
        BY <2>1, <3>1, <3>2
      <4> QED BY <4>1, <2>0
    <3>3. CASE v[k] < v[n + 1]
      <4>1. n + 1 <= n + 1 /\ \A j \in K : j <= n + 1 => v[j] <= v[n + 1]
        BY <2>1, <2>4, <3>1, <3>3
      <4> QED BY <4>1, <2>4, <2>0
    <3> QED BY <2>1, <2>4, <3>2, <3>3
  <2> QED BY <2>2, <2>3, <2>4
<1>3. N \in S
  <2> HIDE DEF S
  <2>1. 0..N \subseteq S
    BY <1>1, <1>2, UpTo
  <2> QED BY <2>1
<1>4. \A j \in K : j <= N
  OBVIOUS
<1> QED BY <1>3, <1>4

\* Some entry is replaced and skipped by none.
LEMMA HeadExists ==
    ASSUME NEW entries, NEW rank, NEW M, Sound(entries, rank, M), entries # <<>>
    PROVE  \E b \in Names(entries) : b \notin Superseded(entries)
<1> DEFINE N == Len(entries)
           v == [k \in 1..N |-> rank[entries[k].name]]
           K == 1..N
<1> USE DEF Sound
<1>1. N \in Nat /\ N # 0 /\ DOMAIN entries = 1..N
  OBVIOUS
<1>2. \A k \in 1..N : entries[k].name \in Names(entries)
  BY <1>1 DEF Names, ToSet
<1>3. v \in [1..N -> Nat]
  BY <1>2
<1>4. K \in SUBSET (1..N) /\ K # {}
  <2>1. 1 \in 1..N
    BY <1>1
  <2> QED BY <2>1
<1>5. PICK k \in 1..N : \A j \in 1..N : v[j] <= v[k]
  <2> HIDE DEF v, N, K
  <2>1. \E k \in K : \A j \in K : v[j] <= v[k]
    BY <1>1, <1>3, <1>4, Largest
  <2> QED BY <2>1 DEF K
<1> DEFINE b == entries[k].name
<1>6. \A e \in ToSet(entries) : rank[e.name] <= rank[b] /\ rank[e.name] \in Nat /\ rank[b] \in Nat
  BY <1>1, <1>2, <1>5 DEF ToSet
<1>7. b \in Names(entries)
  BY <1>2
<1> HIDE DEF b
<1>8. ASSUME NEW e \in ToSet(entries), b \in {e.replaces} \cup e.skips PROVE FALSE
  <2>1. rank[b] < rank[e.name]
    BY <1>7, <1>8 DEF Ranked
  <2> QED BY <1>6, <2>1
<1>9. b \notin Superseded(entries)
  BY <1>8 DEF Superseded
<1> QED BY <1>7, <1>9

LEMMA HeadsShape ==
    ASSUME NEW entries \in Seq(EntryRecord)
    PROVE  /\ Heads(entries) \in Seq(EntryRecord)
           /\ Names(Heads(entries)) = Names(entries) \ Superseded(entries)
           /\ Distinct(entries) => Distinct(Heads(entries))
  BY RetainShape DEF Heads

\* highestVersionBundle returns one of the entries, with or without versions.
LEMMA HighestIn ==
    ASSUME NEW entries \in Seq(EntryRecord), entries # <<>>, \A b : Version(b) \in Nat
    PROVE  highestVersionBundle(entries) \in Names(entries)
<1> DEFINE N == Len(entries)
           v == [i \in 1..N |-> Version(entries[i].name)]
           known == {i \in DOMAIN entries : Version(entries[i].name) # 0}
           values == {Version(entries[i].name) : i \in known}
           top == Max(values)
           first == {i \in known : Version(entries[i].name) = top}
<1>1. N \in Nat /\ N # 0 /\ DOMAIN entries = 1..N
  OBVIOUS
<1>2. Names(entries) \in SUBSET Nat /\ Names(entries) # {}
  <2>1. \A e \in ToSet(entries) : e.name \in Nat
    BY EntryTypes
  <2>2. entries[1] \in ToSet(entries)
    BY <1>1 DEF ToSet
  <2> QED BY <2>1, <2>2 DEF Names
<1>3. CASE known = {}
  BY <1>2, <1>3, LeastOne DEF highestVersionBundle
<1>4. CASE known # {}
  <2>1. v \in [1..N -> Nat] /\ known \in SUBSET (1..N)
    BY <1>1
  <2>2. PICK k \in known : \A j \in known : v[j] <= v[k]
    <3> HIDE DEF v, known, N
    <3> QED BY <1>1, <1>4, <2>1, Largest
  <2>3. \A j \in known : v[j] = Version(entries[j].name)
    BY <1>1
  <2>4. v[k] \in values /\ \A y \in values : v[k] >= y
    <3>1. \A j \in known : v[j] \in Nat
      BY <2>1
    <3> HIDE DEF v, known
    <3> QED BY <2>2, <2>3, <3>1
  <2>5. top \in values
    <3> HIDE DEF values, v
    <3> QED BY <2>4 DEF Max
  <2>6. first \in SUBSET Nat /\ first # {}
    <3> HIDE DEF top
    <3> QED BY <1>1, <2>5
  <2>7. Min(first) \in first
    <3> HIDE DEF first
    <3> QED BY <2>6, LeastOne
  <2>8. highestVersionBundle(entries) = entries[Min(first)].name
    BY <1>4 DEF highestVersionBundle
  <2>9. Min(first) \in DOMAIN entries
    BY <2>7
  <2> HIDE DEF first
  <2> QED BY <2>8, <2>9 DEF Names, ToSet
<1> QED BY <1>3, <1>4

\* Everything the walk from an entry meets is below it.
LEMMA WalkBelow ==
    ASSUME NEW entries, NEW rank, NEW M, Sound(entries, rank, M),
           NEW keep, NEW e \in ToSet(entries), NEW cur, Walks(entries, keep, e, cur)
    PROVE  \A n \in 0..Len(entries) : cur[n] # 0 =>
              /\ cur[n] \in Superseded(entries)
              /\ cur[n] \in Names(entries) => rank[cur[n]] < rank[e.name]
<1> DEFINE N == Len(entries)
           All == Names(entries)
           OK(n) == cur[n] # 0 => /\ cur[n] \in Superseded(entries)
                                  /\ cur[n] \in All => rank[cur[n]] < rank[e.name]
           S == {n \in 0..N : OK(n)}
<1> USE DEF Sound
<1>1. N \in Nat /\ \A b \in All : rank[b] \in Nat /\ b # 0
  <2>1. \A b \in All : b # 0
    BY EntryTypes DEF Names
  <2> QED BY <2>1
<1>2. \A x \in ToSet(entries) : /\ x.replaces \in Superseded(entries) /\ x.name \in All
                                /\ x.replaces \in All => rank[x.replaces] < rank[x.name]
  BY DEF Superseded, Ranked, Names
<1>3. 0 \in S
  BY <1>1, <1>2 DEF Walks
<1>4. ASSUME NEW n \in 0..N, n < N, n \in S PROVE n + 1 \in S
  <2>1. n + 1 \in 1..N /\ n + 1 \in 0..N /\ (n + 1) - 1 = n
    BY <1>1, <1>4
  <2> SUFFICES ASSUME cur[n + 1] # 0 PROVE OK(n + 1)
    BY <2>1
  <2>2. cur[n + 1] = ReplacedBy(entries, cur[n])
    BY <2>1 DEF Walks
  <2>3. PICK x \in ToSet(entries) : x.name = cur[n] /\ x.replaces = cur[n + 1]
    BY <2>2, ReplacedByEntry
  <2>4. cur[n] \in All /\ cur[n] # 0 /\ e.name \in All
    BY <1>1, <1>2, <2>3
  <2>5. rank[cur[n]] < rank[e.name] /\ rank[cur[n]] \in Nat /\ rank[e.name] \in Nat
    BY <1>1, <1>4, <2>4
  <2>6. cur[n + 1] \in All => rank[cur[n + 1]] < rank[cur[n]] /\ rank[cur[n + 1]] \in Nat
    BY <1>1, <1>2, <2>3
  <2>7. cur[n + 1] \in Superseded(entries)
    BY <1>2, <2>3
  <2> HIDE DEF All
  <2> QED BY <2>5, <2>6, <2>7
<1>5. 0..N \subseteq S
  <2> HIDE DEF S, N
  <2> QED BY <1>1, <1>3, <1>4, UpTo
<1> QED BY <1>5

\* What repairChannelGraph makes of an entry.
RepairOK(entries, rank, keep, e, r) ==
    /\ r \in EntryRecord /\ r.name = e.name
    /\ r.replaces \in keep \cup {0}
    /\ r.replaces # 0 => /\ r.replaces \in Superseded(entries)
                         /\ rank[r.replaces] < rank[e.name]
    /\ e.skips \subseteq r.skips /\ r.skips \cap keep = e.skips \cap keep

LEMMA RepairShape ==
    ASSUME NEW entries, NEW rank, NEW M, Sound(entries, rank, M),
           NEW keep \in SUBSET Names(entries), NEW e \in ToSet(entries)
    PROVE  RepairOK(entries, rank, keep, e, RepairEntry(entries, keep, e))
<1> DEFINE r == RepairEntry(entries, keep, e)
<1> SUFFICES RepairOK(entries, rank, keep, e, r)
  OBVIOUS
<1> HIDE DEF r
<1> USE DEF Sound, RepairOK
<1> DEFINE walk == AncestorWalk(entries, keep, e)
<1>1. /\ e \in EntryRecord /\ e.name \in Nat \ {0} /\ e.replaces \in Nat /\ e.skips \subseteq Nat
      /\ keep \subseteq Nat
  <2>1. \A b \in keep : b \in Nat
    BY EntryTypes DEF Names
  <2> QED BY <2>1, EntryTypes
<1>2. CASE e.replaces = 0 \/ e.replaces \in keep
  <2>1. r = e
    BY <1>2 DEF RepairEntry, r
  <2>2. e.replaces \in keep => e.replaces \in Superseded(entries) /\ rank[e.replaces] < rank[e.name]
    BY DEF Superseded, Ranked
  <2> QED BY <1>1, <1>2, <2>1, <2>2
<1>3. CASE ~(e.replaces = 0 \/ e.replaces \in keep)
  <2>1. PICK cur : Walks(entries, keep, e, cur)
    BY <1>1, WalkRuns
  <2>2. \A w \in walk : w \in Nat /\ \E n \in 0..Len(entries) : w = cur[n] /\ w # 0
    BY <2>1 DEF Walks
  <2>3. \A w \in walk : w \in Superseded(entries) /\ (w \in Names(entries) => rank[w] < rank[e.name])
    <3>1. \A n \in 0..Len(entries) : cur[n] # 0 =>
              /\ cur[n] \in Superseded(entries)
              /\ cur[n] \in Names(entries) => rank[cur[n]] < rank[e.name]
      BY <2>1, WalkBelow, Zenon
    <3> QED BY <2>2, <3>1
  <2> HIDE DEF walk
  <2> DEFINE near == IF walk \cap keep = {} THEN 0 ELSE Min(walk \cap keep)
  <2>4. near = 0 \/ near \in walk \cap keep
    <3>1. walk \cap keep \in SUBSET Nat
      BY <1>1
    <3> QED BY <3>1, LeastOne
  <2>5. r = [e EXCEPT !.replaces = near, !.skips = @ \cup (walk \ keep)]
    BY <1>3 DEF RepairEntry, walk, r
  <2>6. r.name = e.name /\ r.replaces = near /\ r.skips = e.skips \cup (walk \ keep)
    BY <1>1, <2>5 DEF EntryRecord
  <2>7. r \in EntryRecord
    <3>1. near \in Nat /\ e.skips \cup (walk \ keep) \subseteq Nat
      BY <1>1, <2>2, <2>4
    <3> HIDE DEF near
    <3> QED BY <1>1, <2>5, <3>1 DEF EntryRecord
  <2> HIDE DEF near
  <2> QED BY <2>3, <2>4, <2>6, <2>7
<1> QED BY <1>2, <1>3

\* The repaired channel: the kept entries, each once, and no circle.
RankOf(r, rank) == [b \in Names(r) |-> rank[b]]
RepairedOK(entries, rank, M, keep, r) ==
    /\ Sound(r, RankOf(r, rank), M) /\ Names(r) = keep
    /\ ToSet(r) = {RepairEntry(entries, keep, e) : e \in {x \in ToSet(entries) : x.name \in keep}}
    /\ Superseded(r) \cap keep \subseteq Superseded(entries)

LEMMA RepairedShape ==
    ASSUME NEW entries, NEW rank, NEW M, Sound(entries, rank, M), NEW keep \in SUBSET Names(entries)
    PROVE  RepairedOK(entries, rank, M, keep, repairChannelGraph(entries, keep))
<1> DEFINE r == repairChannelGraph(entries, keep)
<1> DEFINE ks == Retain(entries, keep)
           F(e) == RepairEntry(entries, keep, e)
<1>1. /\ ks \in Seq(EntryRecord) /\ Distinct(ks) /\ Names(ks) = keep
      /\ ToSet(ks) = {x \in ToSet(entries) : x.name \in keep}
  BY RetainShape DEF Sound
<1>2. r = [i \in DOMAIN ks |-> F(ks[i])]
  BY Zenon DEF repairChannelGraph
<1>3. ASSUME NEW e \in ToSet(entries)
      PROVE  /\ F(e) \in EntryRecord /\ F(e).name = e.name
             /\ F(e).replaces \in keep \cup {0}
             /\ F(e).replaces # 0 => /\ F(e).replaces \in Superseded(entries)
                                     /\ rank[F(e).replaces] < rank[e.name]
             /\ F(e).skips \cap keep = e.skips \cap keep
  BY RepairShape DEF RepairOK
<1>0. entries \in Seq(EntryRecord) /\ Distinct(entries) /\ Ranked(entries, rank)
  BY DEF Sound
<1>00. M \in Nat /\ rank \in [Names(entries) -> 0..M]
  BY DEF Sound
<1> HIDE DEF ks, F, r
<1>4. \A i \in DOMAIN ks : ks[i] \in ToSet(entries) /\ ks[i].name \in keep
  BY <1>1 DEF ToSet
<1>5. DOMAIN ks = 1..Len(ks) /\ Len(ks) \in Nat
  BY <1>1
<1>6. r \in Seq(EntryRecord)
  <2>1. \A i \in 1..Len(ks) : F(ks[i]) \in EntryRecord
    BY <1>3, <1>4, <1>5
  <2> QED BY <1>2, <1>5, <2>1
<1>7. Distinct(r)
  BY <1>1, <1>2, <1>3, <1>4 DEF Distinct
<1>8. ToSet(r) = {F(e) : e \in ToSet(ks)}
  BY <1>2 DEF ToSet
<1>9. Names(r) = keep
  <2>1. \A e \in ToSet(ks) : F(e).name = e.name
    BY <1>1, <1>3
  <2> QED BY <1>1, <1>8, <2>1 DEF Names
<1>10. \A x \in ToSet(r) : \E e \in ToSet(entries) : e.name \in keep /\ x = F(e)
  BY <1>1, <1>8
<1> DEFINE low == RankOf(r, rank)
<1>11. low \in [Names(r) -> 0..M] /\ \A b \in keep : low[b] = rank[b]
  BY <1>00, <1>9 DEF RankOf
<1> HIDE DEF low
<1>12. ASSUME NEW x \in ToSet(r), NEW b \in ({x.replaces} \cup x.skips) \cap keep
       PROVE  b \in Superseded(entries) /\ low[b] < low[x.name]
  <2>1. PICK e \in ToSet(entries) : e.name \in keep /\ x = F(e)
    BY <1>10
  <2>2. CASE b = x.replaces
    <3>1. b # 0
      BY <1>0, EntryTypes DEF Names
    <3> QED BY <1>3, <1>11, <2>1, <2>2, <3>1
  <2>3. CASE b \in x.skips
    <3>1. b \in e.skips /\ x.name = e.name
      BY <1>3, <2>1, <2>3
    <3>2. b \in Superseded(entries) /\ rank[b] < rank[e.name]
      BY <1>0, <3>1 DEF Superseded, Ranked
    <3> QED BY <1>11, <2>1, <3>1, <3>2
  <2> QED BY <2>2, <2>3
<1>13. Ranked(r, low)
  BY <1>9, <1>12 DEF Ranked
<1>14. Superseded(r) \cap keep \subseteq Superseded(entries)
  <2> SUFFICES ASSUME NEW b \in keep, b \in Superseded(r) PROVE b \in Superseded(entries)
    OBVIOUS
  <2>1. PICK x \in ToSet(r) : b \in {x.replaces} \cup x.skips
    BY DEF Superseded
  <2> QED BY <1>12, <2>1
<1>15. Sound(r, low, M)
  BY <1>00, <1>6, <1>7, <1>11, <1>13 DEF Sound
<1> QED BY <1>1, <1>8, <1>9, <1>14, <1>15 DEF low, F, r, RepairedOK

\* Heads are merged into one, and nothing else changes.
Follows(r, m) ==
    /\ m \in Seq(EntryRecord) /\ Distinct(m) /\ Names(m) = Names(r) /\ Len(m) = Len(r)
    /\ \A i \in 1..Len(r) : /\ m[i].name = r[i].name /\ m[i].replaces = r[i].replaces
                            /\ r[i].skips \subseteq m[i].skips

LEMMA MergedShape ==
    ASSUME NEW r, NEW rank, NEW M, Sound(r, rank, M), r # <<>>, \A b : Version(b) \in Nat
    PROVE  Follows(r, mergeChannelHeads(r)) /\ Len(Heads(mergeChannelHeads(r))) = 1
<1> DEFINE m == mergeChannelHeads(r)
<1> SUFFICES Follows(r, m) /\ Len(Heads(m)) = 1
  OBVIOUS
<1> HIDE DEF m
<1>0. r \in Seq(EntryRecord) /\ Distinct(r)
  BY DEF Sound
<1> USE DEF Follows
<1> DEFINE heads == Heads(r)
           top == highestVersionBundle(heads)
           N == Len(r)
<1>1. heads \in Seq(EntryRecord) /\ Names(heads) = Names(r) \ Superseded(r) /\ Distinct(heads)
  BY <1>0, HeadsShape
<1>2. PICK b : b \in Names(heads)
  BY <1>1, HeadExists
<1> HIDE DEF heads
<1>3. heads # <<>> /\ Len(heads) \in Nat /\ Len(heads) # 0
  <2>1. PICK i \in DOMAIN heads : TRUE
    BY <1>2 DEF Names, ToSet
  <2> QED BY <1>1, <2>1
<1>4. N \in Nat /\ DOMAIN r = 1..N
  BY <1>0
<1>5. CASE Len(heads) <= 1
  <2>1. m = r
    BY <1>5 DEF mergeChannelHeads, heads, m
  <2>2. Len(heads) = 1
    <3> DEFINE n == Len(heads)
    <3>1. n \in Nat /\ n # 0 /\ n <= 1
      BY <1>3, <1>5
    <3> HIDE DEF n
    <3>2. n = 1
      BY <3>1
    <3> QED BY <3>2 DEF n
  <2> QED BY <1>0, <2>1, <2>2 DEF heads
<1>6. CASE ~(Len(heads) <= 1)
  <2>1. top \in Names(heads)
    BY <1>1, <1>3, HighestIn
  <2> HIDE DEF top
  <2> DEFINE more == Names(heads) \ {top}
             G(i) == IF r[i].name = top THEN [r[i] EXCEPT !.skips = @ \cup more] ELSE r[i]
  <2>2. m = [i \in DOMAIN r |-> G(i)]
    BY <1>6 DEF mergeChannelHeads, heads, top, m
  <2>3. more \subseteq Nat
    <3>1. \A e \in ToSet(heads) : e.name \in Nat
      BY <1>1, EntryTypes
    <3> QED BY <3>1 DEF Names
  <2> HIDE DEF more
  <2>4. ASSUME NEW i \in 1..N
        PROVE  /\ G(i) \in EntryRecord /\ G(i).name = r[i].name /\ G(i).replaces = r[i].replaces
               /\ G(i).skips = r[i].skips \cup (IF r[i].name = top THEN more ELSE {})
    <3>1. r[i] \in EntryRecord
      BY <1>0, <1>4
    <3> QED BY <2>3, <3>1 DEF EntryRecord
  <2>5. /\ m \in Seq(EntryRecord) /\ Len(m) = N /\ DOMAIN m = 1..N
        /\ \A i \in 1..N : m[i] = G(i)
    <3>1. \A i \in 1..N : G(i) \in EntryRecord
      BY <2>4
    <3> HIDE DEF G, N
    <3> QED BY <1>4, <2>2, <3>1
  <2>6. \A i \in 1..N : /\ m[i].name = r[i].name /\ m[i].replaces = r[i].replaces
                        /\ m[i].skips = r[i].skips \cup (IF r[i].name = top THEN more ELSE {})
    BY <2>4, <2>5
  <2> HIDE DEF G, N
  <2>7. Distinct(m) /\ Names(m) = Names(r)
    BY <1>0, <1>4, <2>5, <2>6 DEF Distinct, Names, ToSet
  <2>8. top \in Names(r) /\ top \notin Superseded(r)
    BY <1>1, <2>1
  <2>9. top \notin Superseded(m)
    <3> SUFFICES ASSUME NEW i \in 1..N, top \in {m[i].replaces} \cup m[i].skips PROVE FALSE
      BY <2>5 DEF Superseded, ToSet
    <3>1. top \notin {r[i].replaces} \cup r[i].skips
      BY <1>4, <2>8 DEF Superseded, ToSet
    <3> QED BY <2>6, <3>1 DEF more
  <2>10. ASSUME NEW x \in Names(m), x # top PROVE x \in Superseded(m)
    <3>1. CASE x \in Superseded(r)
      <4>1. PICK i \in 1..N : x \in {r[i].replaces} \cup r[i].skips
        BY <1>4, <3>1 DEF Superseded, ToSet
      <4>2. x \in {m[i].replaces} \cup m[i].skips
        BY <2>6, <4>1
      <4> QED BY <2>5, <4>2 DEF Superseded, ToSet
    <3>2. CASE x \notin Superseded(r)
      <4>1. x \in more
        BY <1>1, <2>7, <2>10, <3>2 DEF more
      <4>2. PICK i \in 1..N : r[i].name = top
        BY <1>4, <2>8 DEF Names, ToSet
      <4>3. x \in m[i].skips
        BY <2>6, <4>1, <4>2
      <4> QED BY <2>5, <4>3 DEF Superseded, ToSet
    <3> QED BY <3>1, <3>2
  <2>11. Names(m) \cap (Names(m) \ Superseded(m)) = {top}
    BY <2>7, <2>8, <2>9, <2>10
  <2>12. Len(Heads(m)) = 1
    BY <2>5, <2>7, <2>11, RetainOne DEF Heads
  <2> QED BY <2>5, <2>6, <2>7, <2>12 DEF N
<1> QED BY <1>5, <1>6

\* The head and its predecessors are a channel with one head.
LEMMA HeadsOnlyOne ==
    ASSUME NEW entries, NEW rank, NEW M, Sound(entries, rank, M), entries # <<>>,
           \A b : Version(b) \in Nat, NEW previous \in Nat
    PROVE  /\ channelHeadPlusN(entries, previous) \subseteq Names(entries)
           /\ Len(Heads(repairChannelGraph(entries, channelHeadPlusN(entries, previous)))) = 1
<1> DEFINE keep == channelHeadPlusN(entries, previous)
           r == repairChannelGraph(entries, keep)
<1>0. entries \in Seq(EntryRecord) /\ Distinct(entries)
  BY DEF Sound
<1> DEFINE heads == Heads(entries)
           top == ChannelHead(entries)
<1>1. heads \in Seq(EntryRecord) /\ Names(heads) = Names(entries) \ Superseded(entries)
  BY <1>0, HeadsShape
<1>2. heads # <<>>
  <2>1. \E b : b \in Names(heads)
    BY <1>1, HeadExists
  <2> QED BY <2>1 DEF Names, ToSet
<1>3. top \in Names(entries) /\ top \notin Superseded(entries) /\ top \in Nat
  <2>1. highestVersionBundle(heads) \in Names(heads)
    BY <1>1, <1>2, HighestIn
  <2>2. \A e \in ToSet(entries) : e.name \in Nat
    BY <1>0, EntryTypes
  <2>3. top = highestVersionBundle(heads)
    BY <1>2 DEF ChannelHead
  <2> QED BY <1>1, <2>1, <2>2, <2>3 DEF Names
<1> HIDE DEF top, heads
<1>4. PICK back : /\ back \in [0..previous -> Nat] /\ back[0] = top
                  /\ \A n \in 1..previous : back[n] = ReplacedBy(entries, back[n - 1])
                  /\ keep = Names(entries) \cap {back[n] : n \in 0..previous}
  <2>1. \E back : Backs(entries, previous, back)
    BY <1>0, <1>3, BackRuns DEF top
  <2>2. PICK back : Backs(entries, previous, back)
    BY <2>1
  <2> HIDE DEF keep
  <2>3. keep = Names(entries) \cap {back[n] : n \in 0..previous}
    BY <2>2 DEF Backs, keep
  <2> QED BY <2>2, <2>3 DEF Backs, top
<1> HIDE DEF keep, r
<1>5. keep \in SUBSET Names(entries) /\ top \in keep
  BY <1>3, <1>4
<1>6. /\ r \in Seq(EntryRecord) /\ Distinct(r) /\ Names(r) = keep
      /\ ToSet(r) = {RepairEntry(entries, keep, e) : e \in {x \in ToSet(entries) : x.name \in keep}}
      /\ Superseded(r) \cap keep \subseteq Superseded(entries)
  <2>1. RepairedOK(entries, rank, M, keep, r)
    BY <1>5, RepairedShape DEF r
  <2> QED BY <2>1 DEF RepairedOK, Sound
<1>7. top \notin Superseded(r)
  BY <1>3, <1>5, <1>6
<1>8. ASSUME NEW b \in keep, b # top PROVE b \in Superseded(r)
  <2>1. PICK n \in 0..previous : b = back[n]
    BY <1>4
  <2>2. n \in 1..previous /\ n - 1 \in 0..previous
    BY <1>4, <1>8, <2>1
  <2>3. b # 0 /\ b = ReplacedBy(entries, back[n - 1])
    <3>1. b \in Names(entries)
      BY <1>5
    <3> QED BY <1>0, <1>4, <2>1, <2>2, <3>1, EntryTypes DEF Names
  <2>4. PICK e \in ToSet(entries) : e.name = back[n - 1] /\ e.replaces = b
    BY <1>0, <2>3, ReplacedByEntry
  <2>5. e.name \in keep
    BY <1>4, <2>2, <2>4 DEF Names
  <2>6. RepairEntry(entries, keep, e) = e
    BY <2>4 DEF RepairEntry
  <2>7. e \in ToSet(r)
    BY <1>6, <2>5, <2>6
  <2> QED BY <2>4, <2>7 DEF Superseded
<1>9. Names(r) \cap (Names(r) \ Superseded(r)) = {top}
  BY <1>5, <1>6, <1>7, <1>8
<1>10. Len(Heads(r)) = 1
  BY <1>6, <1>9, RetainOne DEF Heads
<1> QED BY <1>5, <1>10 DEF r, keep

\* Below is closed under going further down.
LEMMA ChainClosed ==
    ASSUME NEW entries \in Seq(EntryRecord), Distinct(entries), NEW M \in Nat,
           NEW rank \in [Names(entries) -> 0..M], Falls(entries, rank), NEW b
    PROVE  /\ ReplacedBy(entries, b) # 0 => ReplacedBy(entries, b) \in Below(entries, b)
           /\ \A y \in Below(entries, b) :
                 ReplacedBy(entries, y) # 0 => ReplacedBy(entries, y) \in Below(entries, b)
<1> DEFINE N == Len(entries)
<1>1. PICK back : Chains(entries, b, back)
  BY ChainRuns
<1>2. N \in Nat /\ 0 \in 0..N
  OBVIOUS
<1>3. /\ back \in [0..N -> Nat] /\ back[0] = ReplacedBy(entries, b)
      /\ \A n \in 1..N : back[n] = ReplacedBy(entries, back[n - 1])
      /\ Below(entries, b) = {back[n] : n \in 0..N} \ {0}
  BY <1>1 DEF Chains
<1>4. ReplacedBy(entries, back[N]) = 0
  BY <1>3, ChainEnds
<1> HIDE DEF N
<1>5. ASSUME NEW n \in 0..N, ReplacedBy(entries, back[n]) # 0
      PROVE  \E k \in 0..N : ReplacedBy(entries, back[n]) = back[k]
  <2>1. n # N
    BY <1>4, <1>5
  <2>2. n + 1 \in 1..N /\ n + 1 \in 0..N /\ (n + 1) - 1 = n
    BY <1>2, <2>1
  <2> QED BY <1>3, <2>2
<1> QED BY <1>2, <1>3, <1>5

\* The walk goes on until it meets a kept entry, and then it is over.
LEMMA WalkOn ==
    ASSUME NEW entries, NEW rank, NEW M, Sound(entries, rank, M), NEW keep,
           NEW e, NEW cur, Walks(entries, keep, e, cur)
    PROVE  /\ \A n \in 0..Len(entries) : cur[n] \notin keep /\ ReplacedBy(entries, cur[n]) # 0 =>
                 \E k \in 0..Len(entries) : cur[k] = ReplacedBy(entries, cur[n])
           /\ \A i, j \in 0..Len(entries) : cur[i] \in keep \cup {0} /\ i < j => cur[j] = 0
<1> DEFINE N == Len(entries)
<1>0. /\ entries \in Seq(EntryRecord) /\ Distinct(entries) /\ M \in Nat
      /\ rank \in [Names(entries) -> 0..M] /\ Falls(entries, rank)
  BY DEF Sound, Ranked, Falls
<1>1. N \in Nat
  BY <1>0
<1>2. /\ cur \in [0..N -> Nat]
      /\ \A n \in 1..N : cur[n] = IF cur[n - 1] \in keep THEN 0 ELSE ReplacedBy(entries, cur[n - 1])
  BY DEF Walks
<1>3. ReplacedBy(entries, cur[N]) = 0
  BY <1>0, <1>2, ChainEnds
<1>4. ReplacedBy(entries, 0) = 0
  <2>1. 0 \notin Names(entries)
    BY <1>0, EntryTypes DEF Names
  <2> QED BY <1>0, <2>1, ReplacedByEntry
<1> HIDE DEF N
<1>5. ASSUME NEW n \in 0..N, cur[n] \notin keep, ReplacedBy(entries, cur[n]) # 0
      PROVE  \E k \in 0..N : cur[k] = ReplacedBy(entries, cur[n])
  <2>1. n # N
    BY <1>3, <1>5
  <2>2. n + 1 \in 1..N /\ n + 1 \in 0..N /\ (n + 1) - 1 = n
    BY <1>1, <2>1
  <2> QED BY <1>2, <1>5, <2>2
<1>6. ASSUME NEW i \in 0..N, cur[i] \in keep \cup {0}, NEW j \in 0..N, i < j PROVE cur[j] = 0
  <2> DEFINE S == {n \in 0..N : i < n => cur[n] = 0}
  <2>1. 0 \in S
    BY <1>1
  <2>2. ASSUME NEW n \in 0..N, n < N, n \in S PROVE n + 1 \in S
    <3>1. n + 1 \in 1..N /\ n + 1 \in 0..N /\ (n + 1) - 1 = n
      BY <1>1, <2>2
    <3>2. cur[n + 1] = IF cur[n] \in keep THEN 0 ELSE ReplacedBy(entries, cur[n])
      BY <1>2, <3>1
    <3>3. CASE i <= n
      <4>1. cur[n] \in keep \cup {0}
        BY <1>6, <2>2, <3>3
      <4> QED BY <1>4, <3>1, <3>2, <4>1
    <3>4. CASE ~(i <= n)
      BY <3>1, <3>4
    <3> QED BY <3>3, <3>4
  <2>3. 0..N \subseteq S
    <3> HIDE DEF S
    <3> QED BY <1>1, <2>1, <2>2, UpTo
  <2> QED BY <2>3, <1>6
<1> QED BY <1>5, <1>6 DEF N

\* How a repaired entry bridges what was dropped below it.
Bridges(entries, keep, e, r) ==
    LET walk == AncestorWalk(entries, keep, e)
    IN  /\ e.replaces \in keep => r.replaces = e.replaces
        /\ e.replaces # 0 /\ e.replaces \notin keep => e.replaces \in walk
        /\ walk \ keep \subseteq r.skips
        /\ \A y \in walk \ keep : ReplacedBy(entries, y) # 0 =>
              /\ ReplacedBy(entries, y) \in walk
              /\ ReplacedBy(entries, y) \in keep => r.replaces = ReplacedBy(entries, y)

LEMMA RepairBridges ==
    ASSUME NEW entries, NEW rank, NEW M, Sound(entries, rank, M),
           NEW keep \in SUBSET Names(entries), NEW e \in ToSet(entries)
    PROVE  Bridges(entries, keep, e, RepairEntry(entries, keep, e))
<1> DEFINE r == RepairEntry(entries, keep, e)
           walk == AncestorWalk(entries, keep, e)
           N == Len(entries)
<1>0. entries \in Seq(EntryRecord) /\ Distinct(entries) /\ N \in Nat
  BY DEF Sound
<1>1. /\ e \in EntryRecord /\ e.name \in Names(entries)
      /\ keep \subseteq Nat /\ 0 \notin keep
  <2>1. \A b \in keep : b \in Nat /\ b # 0
    BY <1>0, EntryTypes DEF Names
  <2> QED BY <1>0, <2>1, EntryTypes DEF Names
<1>2. PICK cur : Walks(entries, keep, e, cur)
  BY <1>0, <1>1, WalkRuns
<1>3. /\ cur \in [0..N -> Nat] /\ cur[0] = e.replaces
      /\ walk = {cur[n] : n \in 0..N} \ {0, e.name}
  BY <1>2 DEF Walks
<1>4. \A n \in 0..N : cur[n] # e.name \/ cur[n] = 0
  <2> SUFFICES ASSUME NEW n \in 0..N, cur[n] # 0, cur[n] = e.name PROVE FALSE
    OBVIOUS
  <2>1. rank[cur[n]] < rank[e.name]
    BY <1>1, <1>2, WalkBelow
  <2>2. rank[e.name] \in Nat
    BY <1>1 DEF Sound
  <2> QED BY <2>1, <2>2
<1>5. /\ \A n \in 0..N : cur[n] \notin keep /\ ReplacedBy(entries, cur[n]) # 0 =>
            \E k \in 0..N : cur[k] = ReplacedBy(entries, cur[n])
      /\ \A i, j \in 0..N : cur[i] \in keep \cup {0} /\ i < j => cur[j] = 0
  BY <1>2, WalkOn
<1> HIDE DEF walk, N
<1>6. walk = {cur[n] : n \in 0..N} \ {0}
  BY <1>3, <1>4
<1>7. e.replaces \in keep => r.replaces = e.replaces
  BY DEF RepairEntry
<1>8. e.replaces # 0 => e.replaces \in walk
  <2>1. 0 \in 0..N
    BY <1>0
  <2> QED BY <1>3, <1>6, <2>1
<1>9. ASSUME NEW y \in walk \ keep PROVE e.replaces # 0 /\ e.replaces \notin keep
  <2>1. PICK n \in 0..N : y = cur[n]
    BY <1>6, <1>9
  <2>2. y # 0
    BY <1>6, <1>9
  <2>3. CASE n = 0
    BY <1>3, <1>9, <2>1, <2>2, <2>3
  <2>4. CASE 0 < n
    BY <1>0, <1>3, <1>5, <2>1, <2>2, <2>4
  <2> QED BY <1>0, <2>3, <2>4
<1> DEFINE near == IF walk \cap keep = {} THEN 0 ELSE Min(walk \cap keep)
<1>10. ASSUME NEW y \in walk \ keep PROVE r.replaces = near /\ r.skips = e.skips \cup (walk \ keep)
  <2>1. r = [e EXCEPT !.replaces = near, !.skips = @ \cup (walk \ keep)]
    BY <1>9, <1>10 DEF RepairEntry, walk
  <2> HIDE DEF r, near
  <2> QED BY <1>1, <2>1 DEF EntryRecord
<1> HIDE DEF r
<1>11. walk \ keep \subseteq r.skips
  BY <1>10
<1>12. ASSUME NEW y \in walk \ keep, ReplacedBy(entries, y) # 0
       PROVE  /\ ReplacedBy(entries, y) \in walk
              /\ ReplacedBy(entries, y) \in keep => r.replaces = ReplacedBy(entries, y)
  <2> DEFINE z == ReplacedBy(entries, y)
  <2>1. PICK n \in 0..N : y = cur[n]
    BY <1>6, <1>12
  <2>2. PICK k \in 0..N : z = cur[k]
    BY <1>5, <1>12, <2>1
  <2>3. z \in walk
    BY <1>6, <1>12, <2>2
  <2> HIDE DEF z
  <2>4. ASSUME z \in keep PROVE near = z
    <3>1. ASSUME NEW w \in walk \cap keep PROVE w = z
      <4>1. PICK j \in 0..N : w = cur[j]
        BY <1>6, <3>1
      <4>2. w # 0 /\ z # 0
        BY <1>1, <2>4, <3>1
      <4>3. ~(j < k) /\ ~(k < j)
        BY <1>5, <2>2, <2>4, <3>1, <4>1, <4>2
      <4>4. j = k
        BY <1>0, <4>3
      <4> QED BY <2>2, <4>1, <4>4
    <3>2. walk \cap keep = {z}
      BY <2>3, <2>4, <3>1
    <3>3. Min({z}) = z
      <4>1. {z} \in SUBSET Nat
        BY <1>1, <2>4
      <4> QED BY <4>1, LeastOne
    <3> QED BY <3>2, <3>3
  <2> HIDE DEF near
  <2> QED BY <1>10, <2>3, <2>4 DEF z
<1> QED BY <1>7, <1>8, <1>11, <1>12 DEF Bridges, walk, r

\* What an entry could be upgraded from, it can still be upgraded from, and
\* what was dropped on the way is skipped.
LEMMA UpgradesSurvive ==
    ASSUME NEW entries, NEW rank, NEW M, Sound(entries, rank, M), NEW keep \in SUBSET Names(entries),
           NEW m, Follows(repairChannelGraph(entries, keep), m),
           NEW x \in keep, NEW y \in Below(entries, x)
    PROVE  IF y \in keep THEN y \in Below(m, x) ELSE \E e \in ToSet(m) : y \in e.skips
<1> DEFINE r == repairChannelGraph(entries, keep)
           low == RankOf(r, rank)
           R(e) == RepairEntry(entries, keep, e)
           N == Len(entries)
<1>0. entries \in Seq(EntryRecord) /\ Distinct(entries) /\ N \in Nat
  BY DEF Sound
<1>1. /\ Sound(r, low, M) /\ Names(r) = keep
      /\ ToSet(r) = {R(e) : e \in {q \in ToSet(entries) : q.name \in keep}}
  <2>1. RepairedOK(entries, rank, M, keep, r)
    BY RepairedShape
  <2> HIDE DEF r
  <2> QED BY <2>1 DEF RepairedOK
<1>2. Follows(r, m)
  OBVIOUS
<1> HIDE DEF r, low
<1>3. r \in Seq(EntryRecord) /\ DOMAIN r = 1..Len(r) /\ M \in Nat /\ low \in [keep -> 0..M] /\ Ranked(r, low)
  BY <1>1 DEF Sound
<1>4. m \in Seq(EntryRecord) /\ Distinct(m) /\ Names(m) = keep /\ DOMAIN m = 1..Len(r)
  BY <1>1, <1>2 DEF Follows
<1>5. \A i \in 1..Len(r) : /\ m[i].name = r[i].name /\ m[i].replaces = r[i].replaces
                           /\ r[i].skips \subseteq m[i].skips
  BY <1>2 DEF Follows
<1>6. Falls(m, low)
  <2> SUFFICES ASSUME NEW i \in 1..Len(r), m[i].replaces \in keep PROVE low[m[i].replaces] < low[m[i].name]
    BY <1>4 DEF Falls, ToSet
  <2>1. r[i] \in ToSet(r)
    BY <1>3 DEF ToSet
  <2> QED BY <1>1, <1>3, <1>5, <2>1 DEF Ranked
<1>7. ASSUME NEW e \in ToSet(entries), e.name \in keep
      PROVE  /\ ReplacedBy(m, e.name) = R(e).replaces
             /\ \E q \in ToSet(m) : R(e).skips \subseteq q.skips
  <2>1. R(e) \in ToSet(r)
    BY <1>1, <1>7
  <2>2. PICK i \in 1..Len(r) : r[i] = R(e)
    BY <1>3, <2>1 DEF ToSet
  <2>3. m[i] \in ToSet(m)
    BY <1>4 DEF ToSet
  <2>4. R(e).name = e.name
    BY RepairShape DEF RepairOK
  <2> HIDE DEF R
  <2>5. m[i].name = e.name /\ m[i].replaces = R(e).replaces /\ R(e).skips \subseteq m[i].skips
    BY <1>5, <2>2, <2>4
  <2>6. ReplacedBy(m, m[i].name) = m[i].replaces
    BY <1>4, <2>3, ReplacedByEntry
  <2> QED BY <2>3, <2>5, <2>6
<1>8. ASSUME NEW e \in ToSet(entries) PROVE Bridges(entries, keep, e, R(e))
  BY RepairBridges
<1> HIDE DEF R
<1> DEFINE B == Below(m, x)
           Base == {x} \cup B
           Walk(e) == AncestorWalk(entries, keep, e)
           OK(z) == IF z \in keep THEN z \in B
                    ELSE \E e \in ToSet(entries) : e.name \in keep \cap Base /\ z \in Walk(e)
<1>9. \A z \in Base : ReplacedBy(m, z) # 0 => ReplacedBy(m, z) \in B
  BY <1>3, <1>4, <1>6, ChainClosed
<1> HIDE DEF B
<1>10. ASSUME NEW e \in ToSet(entries), e.name \in keep \cap Base, e.replaces # 0 PROVE OK(e.replaces)
  <2>1. CASE e.replaces \in keep
    <3>1. R(e).replaces = e.replaces
      BY <1>8, <2>1 DEF Bridges
    <3>2. ReplacedBy(m, e.name) = e.replaces
      BY <1>7, <1>10, <3>1
    <3> QED BY <1>9, <1>10, <2>1, <3>2
  <2>2. CASE e.replaces \notin keep
    <3>1. e.replaces \in Walk(e)
      BY <1>8, <1>10, <2>2 DEF Bridges
    <3> HIDE DEF Walk, Base
    <3> QED BY <1>10, <2>2, <3>1
  <2> QED BY <2>1, <2>2
<1>11. ASSUME NEW w, w \notin keep, OK(w), ReplacedBy(entries, w) # 0 PROVE OK(ReplacedBy(entries, w))
  <2> DEFINE z == ReplacedBy(entries, w)
  <2>1. PICK e \in ToSet(entries) : e.name \in keep \cap Base /\ w \in Walk(e)
    BY <1>11
  <2>2. z \in Walk(e) /\ (z \in keep => R(e).replaces = z)
    BY <1>8, <1>11, <2>1 DEF Bridges
  <2>3. CASE z \in keep
    <3>1. ReplacedBy(m, e.name) = z
      BY <1>7, <2>1, <2>2, <2>3
    <3> QED BY <1>9, <1>11, <2>1, <2>3, <3>1
  <2>4. CASE z \notin keep
    <3> HIDE DEF z, Walk, Base
    <3>1. OK(z)
      BY <2>1, <2>2, <2>4
    <3> QED BY <3>1 DEF z
  <2> QED BY <2>3, <2>4
<1>12. ASSUME NEW w \in keep \cap Base, ReplacedBy(entries, w) # 0 PROVE OK(ReplacedBy(entries, w))
  <2>1. PICK e \in ToSet(entries) : e.name = w /\ e.replaces = ReplacedBy(entries, w)
    BY <1>0, <1>12, ReplacedByEntry
  <2> HIDE DEF OK
  <2> QED BY <1>10, <1>12, <2>1
<1>13. PICK back : Chains(entries, x, back)
  BY <1>0, ChainRuns
<1>14. /\ back[0] = ReplacedBy(entries, x)
       /\ \A n \in 1..N : back[n] = ReplacedBy(entries, back[n - 1])
       /\ Below(entries, x) = {back[n] : n \in 0..N} \ {0}
  BY <1>13 DEF Chains
<1>15. ReplacedBy(entries, 0) = 0
  <2>1. 0 \notin Names(entries)
    BY <1>0, EntryTypes DEF Names
  <2> QED BY <1>0, <2>1, ReplacedByEntry
<1>16. \A n \in 0..N : back[n] # 0 => OK(back[n])
  <2> DEFINE S == {n \in 0..N : back[n] # 0 => OK(back[n])}
  <2>1. 0 \in S
    <3>1. x \in keep \cap Base
      OBVIOUS
    <3> HIDE DEF OK, Base
    <3> QED BY <1>0, <1>12, <1>14, <3>1
  <2>2. ASSUME NEW n \in 0..N, n < N, n \in S PROVE n + 1 \in S
    <3>1. n + 1 \in 1..N /\ n + 1 \in 0..N /\ (n + 1) - 1 = n
      BY <1>0, <2>2
    <3>2. back[n + 1] = ReplacedBy(entries, back[n])
      BY <1>14, <3>1
    <3> SUFFICES ASSUME back[n + 1] # 0 PROVE OK(back[n + 1])
      BY <3>1
    <3>3. back[n] # 0 /\ OK(back[n])
      BY <1>15, <2>2, <3>2
    <3>4. CASE back[n] \in keep
      <4>1. back[n] \in keep \cap Base
        BY <3>3, <3>4
      <4> HIDE DEF OK, Base
      <4> QED BY <1>12, <3>2, <4>1
    <3>5. CASE back[n] \notin keep
      <4> HIDE DEF OK
      <4> QED BY <1>11, <3>2, <3>3, <3>5
    <3> QED BY <3>4, <3>5
  <2>3. 0..N \subseteq S
    <3> HIDE DEF S, N
    <3> QED BY <1>0, <2>1, <2>2, UpTo
  <2> QED BY <2>3
<1>17. OK(y)
  BY <1>14, <1>16
<1>18. ASSUME y \notin keep PROVE \E e \in ToSet(m) : y \in e.skips
  <2>1. PICK e \in ToSet(entries) : e.name \in keep /\ y \in Walk(e)
    BY <1>17, <1>18
  <2>2. y \in R(e).skips
    BY <1>8, <1>18, <2>1 DEF Bridges
  <2> QED BY <1>7, <2>1, <2>2
<1> QED BY <1>17, <1>18 DEF B

-----------------------------------------------------------------------------
(***************************************************************************)
(* The result of the filter, for catalogs that opm accepts.                *)
(***************************************************************************)
ServeInv ==
    /\ includes \in Requests
    /\ pc \notin {"load", "failed"} => WellFormed(cfg)
    /\ Trimmed => /\ filtered.channels = SurvivingChannels
                  /\ filtered.packages = [p \in pkgSet \cap DOMAIN cfg.packages |-> DefaultChannel(p)]
                  /\ filtered.bundles = [b \in allowedBundles \cap DOMAIN cfg.bundles |-> cfg.bundles[b]]

\* A part of a well-formed catalog that has whole packages is well-formed.
LEMMA ParsedWellFormed ==
    ASSUME upstream \in Catalogs, NEW layers
    PROVE  WellFormed(Parsed(layers))
<1> DEFINE found == UNION {Source[l].packages : l \in layers}
           bs == {x \in DOMAIN upstream.bundles : upstream.bundles[x].package \in found}
           part == Parsed(layers)
<1> HIDE DEF found
<1>0. WellFormed(upstream)
  BY UpstreamAssumption
<1>1. part.bundles = [x \in bs |-> upstream.bundles[x]]
  BY DEF Parsed, found
<1>2. part.channels = {ch \in upstream.channels : ch.package \in found}
  BY DEF Parsed, found
<1> HIDE DEF part
<1>3. DOMAIN part.bundles = bs /\ \A b \in bs : part.bundles[b] = upstream.bundles[b]
  BY <1>1
<1>4. ASSUME NEW ch \in part.channels PROVE WellFormedChannel(part, ch)
  <2>1. WellFormedChannel(upstream, ch) /\ ch.package \in found
    BY <1>0, <1>2 DEF WellFormed
  <2>2. \A b \in Names(ch.entries) : b \in DOMAIN part.bundles /\ part.bundles[b].package = ch.package
    BY <1>3, <2>1 DEF WellFormedChannel
  <2> QED BY <2>1, <2>2 DEF WellFormedChannel
<1>5. \A ch, other \in part.channels : ch.package = other.package /\ ch.name = other.name => ch = other
  BY <1>0, <1>2 DEF WellFormed
<1>6. ASSUME NEW b \in DOMAIN part.bundles
      PROVE  /\ part.bundles[b].version \in Nat
             /\ (\E ch \in part.channels : ch.package = part.bundles[b].package) =>
                   \E ch \in part.channels : ch.package = part.bundles[b].package /\ b \in Names(ch.entries)
  <2>1. /\ b \in DOMAIN upstream.bundles /\ part.bundles[b] = upstream.bundles[b]
        /\ upstream.bundles[b].package \in found
    BY <1>3, <1>6
  <2>2. \A ch \in upstream.channels : ch.package = upstream.bundles[b].package => ch \in part.channels
    BY <1>2, <2>1
  <2>3. part.channels \subseteq upstream.channels
    BY <1>2
  <2> QED BY <1>0, <2>1, <2>2, <2>3 DEF WellFormed
<1> QED BY <1>4, <1>5, <1>6 DEF WellFormed, part

LEMMA SurvivingSame ==
    ASSUME cfg' = cfg, explicit' = explicit, pkgSet' = pkgSet
    PROVE  SurvivingChannels' = SurvivingChannels /\ \A p : DefaultChannel(p)' = DefaultChannel(p)
<1>1. \A ch : KeptIn(ch)' = KeptIn(ch)
  BY DEF KeptIn, SelectedEntries, channelHeadPlusN, ChannelHead, highestVersionBundle, Version,
         bundleMatchesVersionFilter, effectiveVersionFilter
<1>2. \A es : mergeChannelHeads(es)' = mergeChannelHeads(es)
  BY DEF mergeChannelHeads, highestVersionBundle, Version
<1>3. \A ch : TrimChannel(ch)' = TrimChannel(ch)
  BY <1>1, <1>2, Zenon DEF TrimChannel
<1>4. SurvivingChannels' = SurvivingChannels
  BY <1>1, <1>3, Zenon DEF SurvivingChannels
<1>5. \A p : DefaultChannel(p)' = DefaultChannel(p)
  BY <1>4, Zenon DEF DefaultChannel
<1> QED BY <1>4, <1>5

LEMMA ServeInit == Init => ServeInv
  BY DEF Init, ServeInv, Trimmed

\* Steps after which no filter has just ended.
LEMMA ServeIdle ==
    ASSUME ServeInv, includes' = includes, cfg' = cfg, pc' # "filtered",
           pc' \in {"load", "failed"} \/ pc \notin {"load", "failed"}
    PROVE  ServeInv'
  BY DEF ServeInv, Trimmed

LEMMA ServeNext == FilterInv /\ ServeInv /\ [Next]_vars => ServeInv'
<1> SUFFICES ASSUME FilterInv, ServeInv, [Next]_vars PROVE ServeInv'
  OBVIOUS
<1>1. CASE UNCHANGED vars
  <2>1. /\ cfg' = cfg /\ includes' = includes /\ explicit' = explicit /\ pkgSet' = pkgSet
        /\ allowedBundles' = allowedBundles /\ filtered' = filtered /\ pc' = pc
    BY <1>1 DEF vars, filterVars
  <2>2. SurvivingChannels' = SurvivingChannels /\ \A p : DefaultChannel(p)' = DefaultChannel(p)
    BY <2>1, SurvivingSame
  <2> QED BY <2>1, <2>2 DEF ServeInv, Trimmed
<1>2. CASE Load
  <2>1. PICK bad \in SUBSET DOMAIN Source :
            /\ cfg' = Parsed(DOMAIN Source \ bad)
            /\ pc' = "failed" \/ pc' = "expand"
    BY <1>2, Zenon DEF Load
  <2>2. includes' = includes /\ upstream \in Catalogs
    BY <1>2 DEF Load, FilterInv
  <2>3. WellFormed(cfg')
    BY <2>1, <2>2, ParsedWellFormed
  <2> QED BY <2>1, <2>2, <2>3 DEF ServeInv, Trimmed
<1>3. CASE LoadFails \/ FilterFails \/ BuildFails
  BY <1>3, ServeIdle DEF LoadFails, FilterFails, BuildFails, Fail
<1>4. CASE Resolved \/ Retry
  BY <1>4, ServeIdle DEF Resolved, Retry, JobIncludes
<1>5. CASE StartFilter
  <2>1. /\ pc = "expand" /\ cfg' = cfg /\ includes' = includes
        /\ pc' = (IF includes = <<>> THEN "filtered" ELSE "search")
    BY <1>5 DEF StartFilter, FilterStep
  <2> QED BY <2>1 DEF ServeInv, Trimmed
<1>6. CASE Search
  BY <1>6, ServeIdle DEF Search, FilterStep
<1>7. CASE EndFilter
  <2>1. pc = "search" /\ cfg' = cfg /\ includes' = includes /\ Trim
    BY <1>7 DEF EndFilter, FilterStep
  <2>2. /\ explicit' = explicit /\ pkgSet' = pkgSet /\ allowedBundles' = allowedBundles
        /\ filtered'.packages = [p \in pkgSet \cap DOMAIN cfg.packages |-> DefaultChannel(p)]
        /\ filtered'.channels = SurvivingChannels
        /\ filtered'.bundles = [b \in allowedBundles \cap DOMAIN cfg.bundles |-> cfg.bundles[b]]
    BY <2>1 DEF Trim
  <2>3. SurvivingChannels' = SurvivingChannels /\ \A p : DefaultChannel(p)' = DefaultChannel(p)
    BY <2>1, <2>2, SurvivingSame
  <2> QED BY <2>1, <2>2, <2>3 DEF ServeInv
<1>8. CASE StartPush
  BY <1>8, ServeIdle DEF StartPush, PushUnchanged
<1>9. ASSUME NEW l \in DOMAIN up, StartUpload(l) \/ EndUpload(l) PROVE ServeInv'
  BY <1>9, ServeIdle DEF StartUpload, EndUpload, PushUnchanged
<1>10. CASE WaitUploads \/ PushOverlay \/ PushConfig \/ PutManifest
  BY <1>10, ServeIdle DEF WaitUploads, AfterUploads, PushOverlay, PushConfig, PutManifest, PushUnchanged
<1> QED BY <1>1, <1>2, <1>3, <1>4, <1>5, <1>6, <1>7, <1>8, <1>9, <1>10 DEF Next

Previous == \A p \in DOMAIN explicit : explicit[p].previous \in Nat

LEMMA ExplicitPrevious ==
    ASSUME explicit = ExplicitIncludes, includes \in Requests
    PROVE  Previous
<1> DEFINE at(p) == {i \in DOMAIN includes : includes[i].name = p}
           names == {includes[i].name : i \in DOMAIN includes}
<1>1. DOMAIN includes \subseteq Nat /\ \A i \in DOMAIN includes : includes[i].previous \in Nat
  BY RequestAssumption
<1>2. explicit = [p \in names \cup Companions |->
                     IF p \in names THEN includes[Min(at(p))] ELSE Bare(p)]
  BY Zenon DEF ExplicitIncludes
<1>3. ASSUME NEW p \in names PROVE Min(at(p)) \in DOMAIN includes
  <2>1. at(p) \in SUBSET Nat /\ at(p) # {}
    BY <1>1
  <2>2. Min(at(p)) \in at(p)
    BY <2>1, LeastOne
  <2> QED BY <2>2
<1>4. \A p : Bare(p).previous = 0
  BY DEF Bare
<1> HIDE DEF names, at
<1> QED BY <1>1, <1>2, <1>3, <1>4 DEF Previous

\* What is kept of a channel is in it, and is of its package.
LEMMA KeptShape ==
    ASSUME WellFormed(cfg), NEW ch \in cfg.channels
    PROVE  /\ KeptIn(ch) \subseteq Names(ch.entries)
           /\ KeptIn(ch) \subseteq BundlesOf(ch.package)
<1>1. KeptIn(ch) \subseteq Names(ch.entries)
  BY DEF KeptIn, SelectedEntries, channelHeadPlusN
<1>2. Names(ch.entries) \subseteq BundlesOf(ch.package)
  BY DEF WellFormed, WellFormedChannel, BundlesOf
<1> QED BY <1>1, <1>2

\* A trimmed channel.
TrimOK(ch, t) ==
    /\ t.package = ch.package /\ t.name = ch.name
    /\ Follows(repairChannelGraph(ch.entries, KeptIn(ch)), t.entries)
    /\ Names(t.entries) = KeptIn(ch)
    /\ ch.package \in DOMAIN explicit
       /\ (HeadsOnly(explicit[ch.package]) \/ explicit[ch.package].bundles # {})
       => Len(Heads(t.entries)) = 1

LEMMA TrimShape ==
    ASSUME WellFormed(cfg), Previous, NEW ch \in cfg.channels, KeptIn(ch) # {}
    PROVE  TrimOK(ch, TrimChannel(ch))
<1> DEFINE es == ch.entries
           keep == KeptIn(ch)
           r == repairChannelGraph(es, keep)
           inc == explicit[ch.package]
           t == TrimChannel(ch)
           byName == ch.package \in DOMAIN explicit /\ inc.bundles # {}
<1>1. WellFormedChannel(cfg, ch)
  BY DEF WellFormed
<1>2. PICK rank : Sound(es, rank, Len(es))
  <2>1. es \in Seq(EntryRecord) /\ Distinct(es) /\ Len(es) \in Nat
    BY <1>1 DEF WellFormedChannel
  <2>2. PICK rank \in [Names(es) -> 0..Len(es)] : Ranked(es, rank)
    BY <1>1 DEF WellFormedChannel
  <2>3. Sound(es, rank, Len(es))
    BY <2>1, <2>2 DEF Sound
  <2> QED BY <2>3
<1>3. \A b : Version(b) \in Nat
  BY DEF WellFormed, Version
<1>4. keep \in SUBSET Names(es)
  BY KeptShape
<1>5. es # <<>>
  BY <1>4 DEF Names, ToSet
<1>6. RepairedOK(es, rank, Len(es), keep, r)
  BY <1>2, <1>4, RepairedShape
<1>7. /\ t.package = ch.package /\ t.name = ch.name
      /\ t.entries = IF byName THEN mergeChannelHeads(r) ELSE r
  <2> DEFINE new == IF byName THEN mergeChannelHeads(r) ELSE r
  <2>1. t = [ch EXCEPT !.entries = new]
    BY Zenon DEF TrimChannel
  <2>2. ch = [package |-> ch.package, name |-> ch.name, entries |-> ch.entries]
    BY <1>1 DEF WellFormedChannel
  <2> HIDE DEF new, t
  <2>3. t.package = ch.package /\ t.name = ch.name /\ t.entries = new
    BY <2>1, <2>2
  <2> QED BY <2>3 DEF new
<1> HIDE DEF t
<1>8. ASSUME byName PROVE TrimOK(ch, t)
  <2> HIDE DEF r
  <2>1. Sound(r, RankOf(r, rank), Len(es)) /\ Names(r) = keep
    BY <1>6 DEF RepairedOK
  <2>2. r # <<>>
    BY <2>1 DEF Names, ToSet
  <2>3. Follows(r, t.entries) /\ Len(Heads(t.entries)) = 1
    BY <1>3, <1>7, <1>8, <2>1, <2>2, MergedShape
  <2>4. Names(t.entries) = keep
    BY <2>1, <2>3 DEF Follows
  <2> QED BY <1>7, <2>3, <2>4 DEF TrimOK, r
<1>9. ASSUME ~byName PROVE TrimOK(ch, t)
  <2>1. t.entries = r
    BY <1>7, <1>9
  <2>2. Follows(r, r) /\ Names(r) = keep
    <3> HIDE DEF r
    <3> QED BY <1>6 DEF RepairedOK, Sound, Follows
  <2>3. ASSUME ch.package \in DOMAIN explicit, HeadsOnly(inc) PROVE Len(Heads(r)) = 1
    <3>1. keep = channelHeadPlusN(es, inc.previous)
      BY <2>3 DEF KeptIn, SelectedEntries, HeadsOnly
    <3>2. inc.previous \in Nat
      BY <2>3 DEF Previous
    <3>3. Len(Heads(repairChannelGraph(es, channelHeadPlusN(es, inc.previous)))) = 1
      BY <1>2, <1>3, <1>5, <3>2, HeadsOnlyOne
    <3> QED BY <3>1, <3>3
  <2> QED BY <1>7, <1>9, <2>1, <2>2, <2>3 DEF TrimOK
<1> QED BY <1>8, <1>9 DEF t

\* The surviving channels are the trimmed ones of which anything is left.
LEMMA Survivors ==
    ASSUME FilterInv, ServeInv, Trimmed
    PROVE  /\ WellFormed(cfg) /\ Previous
           /\ \A t \in filtered.channels :
                 \E ch \in cfg.channels :
                    ch.package \in pkgSet /\ KeptIn(ch) # {} /\ t = TrimChannel(ch) /\ TrimOK(ch, t)
           /\ \A ch \in cfg.channels : ch.package \in pkgSet /\ KeptIn(ch) # {} =>
                 TrimChannel(ch) \in filtered.channels /\ TrimOK(ch, TrimChannel(ch))
<1>1. WellFormed(cfg) /\ filtered.channels = SurvivingChannels
  BY DEF ServeInv, Trimmed
<1>2. Previous
  BY ExplicitPrevious DEF ServeInv, FilterInv, Trimmed
<1>3. \A ch \in cfg.channels : KeptIn(ch) # {} => TrimOK(ch, TrimChannel(ch))
  BY <1>1, <1>2, TrimShape
<1> QED BY <1>1, <1>2, <1>3, Zenon DEF SurvivingChannels

LEMMA HeadsServe == FilterInv /\ ServeInv => OneHead
<1> SUFFICES ASSUME FilterInv, ServeInv, Trimmed, NEW t \in filtered.channels,
                    t.package \in DOMAIN explicit,
                    HeadsOnly(explicit[t.package]) \/ explicit[t.package].bundles # {}
             PROVE  Len(Heads(t.entries)) = 1
  BY DEF OneHead
<1>1. PICK ch \in cfg.channels : TrimOK(ch, t)
  BY Survivors
<1> QED BY <1>1 DEF TrimOK

LEMMA UpgradesServe == FilterInv /\ ServeInv => UpgradesKept
<1> SUFFICES ASSUME FilterInv, ServeInv, Trimmed, NEW t \in filtered.channels,
                    NEW x \in Names(t.entries), NEW y \in Below(Channel(t).entries, x)
             PROVE  IF y \in Names(t.entries) THEN y \in Below(t.entries, x)
                    ELSE \E e \in ToSet(t.entries) : y \in e.skips
  BY Zenon DEF UpgradesKept
<1>1. WellFormed(cfg)
  BY Survivors
<1>2. PICK ch \in cfg.channels : TrimOK(ch, t)
  BY Survivors
<1>3. Channel(t) = ch
  <2>1. ch.package = t.package /\ ch.name = t.name
    BY <1>2 DEF TrimOK
  <2>2. \A c \in cfg.channels : c.package = t.package /\ c.name = t.name => c = ch
    BY <1>1, <2>1 DEF WellFormed
  <2> QED BY <2>1, <2>2 DEF Channel
<1> DEFINE es == ch.entries
           keep == KeptIn(ch)
<1>4. PICK rank : Sound(es, rank, Len(es))
  <2>0. WellFormedChannel(cfg, ch)
    BY <1>1 DEF WellFormed
  <2>1. es \in Seq(EntryRecord) /\ Distinct(es) /\ Len(es) \in Nat
    BY <2>0 DEF WellFormedChannel
  <2>2. PICK rank \in [Names(es) -> 0..Len(es)] : Ranked(es, rank)
    BY <2>0 DEF WellFormedChannel
  <2>3. Sound(es, rank, Len(es))
    BY <2>1, <2>2 DEF Sound
  <2> QED BY <2>3
<1>5. keep \in SUBSET Names(es) /\ Names(t.entries) = keep /\ Follows(repairChannelGraph(es, keep), t.entries)
  BY <1>1, <1>2, KeptShape DEF TrimOK
<1>6. x \in keep /\ y \in Below(es, x)
  BY <1>3, <1>5
<1> HIDE DEF es, keep
<1>7. IF y \in keep THEN y \in Below(t.entries, x) ELSE \E e \in ToSet(t.entries) : y \in e.skips
  BY <1>4, <1>5, <1>6, UpgradesSurvive
<1> QED BY <1>5, <1>7

\* What is selected of a package are bundles of this package.
LEMMA SelectedShape ==
    ASSUME WellFormed(cfg), explicit = ExplicitIncludes, ~SelectionUnknown, NEW p
    PROVE  SelectedBundles(p) \subseteq BundlesOf(p)
<1>1. p \in DOMAIN explicit => explicit[p].bundles \subseteq BundlesOf(p)
  BY Zenon DEF SelectionUnknown
<1>2. \A ch \in ChannelsOf(p) : SelectedEntries(ch) \subseteq BundlesOf(p)
  BY KeptShape DEF ChannelsOf, KeptIn
<1> QED BY <1>1, <1>2 DEF SelectedBundles

\* The channels of a package keep what is selected of it.
LEMMA ChannelsList ==
    ASSUME WellFormed(cfg), explicit = ExplicitIncludes, ~SelectionUnknown, NEW p,
           \E ch \in ChannelsOf(p) : KeptIn(ch) # {}
    PROVE  UNION {KeptIn(ch) : ch \in ChannelsOf(p)} = SelectedBundles(p)
<1>0. \A b \in BundlesOf(p) : b \in DOMAIN cfg.bundles /\ \E ch \in ChannelsOf(p) : b \in Names(ch.entries)
  BY DEF WellFormed, BundlesOf, ChannelsOf
<1>1. \A ch \in ChannelsOf(p) : ch.package = p /\ Names(ch.entries) \subseteq BundlesOf(p)
  BY DEF WellFormed, WellFormedChannel, BundlesOf, ChannelsOf
<1>2. CASE p \notin DOMAIN explicit
  <2>1. \A ch \in ChannelsOf(p) : KeptIn(ch) = Names(ch.entries) \cap DOMAIN cfg.bundles
    BY <1>1, <1>2 DEF KeptIn, SelectedEntries
  <2>2. SelectedBundles(p) = BundlesOf(p)
    BY <1>2 DEF SelectedBundles
  <2> QED BY <1>0, <1>1, <2>1, <2>2
<1>3. CASE p \in DOMAIN explicit /\ explicit[p].bundles # {}
  <2>1. \A ch \in ChannelsOf(p) : KeptIn(ch) = Names(ch.entries) \cap explicit[p].bundles
    BY <1>1, <1>3 DEF KeptIn, SelectedEntries
  <2>2. SelectedBundles(p) = explicit[p].bundles
    BY <1>3 DEF SelectedBundles
  <2>3. explicit[p].bundles \subseteq BundlesOf(p)
    BY <1>3, Zenon DEF SelectionUnknown
  <2> QED BY <1>0, <2>1, <2>2, <2>3
<1>4. CASE p \in DOMAIN explicit /\ explicit[p].bundles = {}
  <2>1. ~ \A ch \in ChannelsOf(p) : ch.entries = <<>>
    <3>1. PICK ch \in ChannelsOf(p) : KeptIn(ch) # {}
      OBVIOUS
    <3>2. Names(ch.entries) # {}
      BY <3>1, KeptShape DEF ChannelsOf
    <3> QED BY <3>2 DEF Names, ToSet
  <2> QED BY <1>4, <2>1 DEF SelectedBundles, KeptIn
<1> QED BY <1>2, <1>3, <1>4

LEMMA ResultServes == FilterInv /\ ServeInv => Servable
<1> SUFFICES ASSUME FilterInv, ServeInv, Trimmed, NEW p \in DOMAIN filtered.packages,
                    {ch \in filtered.channels : ch.package = p} # {}
             PROVE  LET chs == {ch \in filtered.channels : ch.package = p}
                        listed == UNION {Names(ch.entries) : ch \in chs}
                    IN  /\ filtered.packages[p] \in {ch.name : ch \in chs}
                        /\ listed = {b \in DOMAIN filtered.bundles : filtered.bundles[b].package = p}
  BY Zenon DEF Servable
<1> DEFINE chs == {ch \in filtered.channels : ch.package = p}
           listed == UNION {Names(ch.entries) : ch \in chs}
           survived == {ch.name : ch \in chs}
           bs == {b \in DOMAIN filtered.bundles : filtered.bundles[b].package = p}
<1>1. /\ explicit = ExplicitIncludes /\ ~SelectionUnknown
      /\ Searching(DOMAIN explicit, Deps, Selected, pkgSet, {}, allowedBundles)
  BY DEF FilterInv, Trimmed
<1>2. /\ filtered.channels = SurvivingChannels
      /\ filtered.packages = [q \in pkgSet \cap DOMAIN cfg.packages |-> DefaultChannel(q)]
      /\ filtered.bundles = [b \in allowedBundles \cap DOMAIN cfg.bundles |-> cfg.bundles[b]]
  BY DEF ServeInv
<1>3. /\ WellFormed(cfg)
      /\ \A t \in filtered.channels :
            \E ch \in cfg.channels :
               ch.package \in pkgSet /\ KeptIn(ch) # {} /\ TrimOK(ch, t)
      /\ \A ch \in cfg.channels : ch.package \in pkgSet /\ KeptIn(ch) # {} =>
            TrimChannel(ch) \in filtered.channels /\ TrimOK(ch, TrimChannel(ch))
  BY Survivors
<1>4. p \in pkgSet /\ p \in Universe
  BY <1>1, <1>2, DepsInside DEF Searching
<1>5. filtered.packages[p] \in survived
  <2>1. filtered.packages[p] = DefaultChannel(p)
    BY <1>2
  <2>2. DefaultChannel(p) = IF survived = {} \/ cfg.packages[p] \in survived THEN cfg.packages[p]
                            ELSE Min(survived)
    BY <1>2, Zenon DEF DefaultChannel
  <2>3. survived # {}
    OBVIOUS
  <2>4. survived \subseteq Nat
    <3> SUFFICES ASSUME NEW t \in filtered.channels PROVE t.name \in Nat
      OBVIOUS
    <3>1. PICK ch \in cfg.channels : TrimOK(ch, t)
      BY <1>3
    <3> QED BY <1>3, <3>1 DEF TrimOK, WellFormed, WellFormedChannel
  <2> HIDE DEF survived
  <2>5. Min(survived) \in survived
    BY <2>3, <2>4, LeastOne
  <2> QED BY <2>1, <2>2, <2>3, <2>5
<1>6. listed = UNION {KeptIn(ch) : ch \in ChannelsOf(p)}
  <2>1. ASSUME NEW b \in listed PROVE \E ch \in ChannelsOf(p) : b \in KeptIn(ch)
    <3>1. PICK t \in filtered.channels : t.package = p /\ b \in Names(t.entries)
      BY <2>1
    <3>2. PICK ch \in cfg.channels : TrimOK(ch, t)
      BY <1>3
    <3> QED BY <3>1, <3>2 DEF TrimOK, ChannelsOf
  <2>2. ASSUME NEW ch \in ChannelsOf(p), NEW b \in KeptIn(ch) PROVE b \in listed
    <3>1. ch \in cfg.channels /\ ch.package = p
      BY DEF ChannelsOf
    <3>2. TrimChannel(ch) \in filtered.channels /\ TrimOK(ch, TrimChannel(ch))
      BY <1>3, <1>4, <2>2, <3>1
    <3>3. TrimChannel(ch).package = p /\ b \in Names(TrimChannel(ch).entries)
      BY <3>1, <3>2 DEF TrimOK
    <3> QED BY <3>2, <3>3
  <2> HIDE DEF listed
  <2> QED BY <2>1, <2>2
<1>7. listed = SelectedBundles(p)
  <2>1. PICK t \in filtered.channels : t.package = p
    OBVIOUS
  <2>2. PICK ch \in cfg.channels : KeptIn(ch) # {} /\ TrimOK(ch, t)
    BY <1>3
  <2>3. ch \in ChannelsOf(p)
    BY <2>1, <2>2 DEF TrimOK, ChannelsOf
  <2>4. UNION {KeptIn(c) : c \in ChannelsOf(p)} = SelectedBundles(p)
    BY <1>1, <1>3, <2>2, <2>3, ChannelsList
  <2> QED BY <1>6, <2>4
<1>8. bs = SelectedBundles(p)
  <2>1. \A q \in Universe : Selected[q] = SelectedBundles(q) /\ SelectedBundles(q) \subseteq BundlesOf(q)
    BY <1>1, <1>3, SelectedShape DEF Selected
  <2>2. pkgSet \subseteq Universe /\ allowedBundles = UNION {Selected[q] : q \in pkgSet}
    BY <1>1, DepsInside DEF Searching
  <2>3. \A b \in allowedBundles : \E q \in pkgSet : b \in SelectedBundles(q) /\ b \in BundlesOf(q)
    BY <2>1, <2>2
  <2>4. SelectedBundles(p) \subseteq allowedBundles /\ SelectedBundles(p) \subseteq BundlesOf(p)
    BY <1>4, <2>1, <2>2
  <2>5. bs = {b \in allowedBundles \cap DOMAIN cfg.bundles : cfg.bundles[b].package = p}
    BY <1>2
  <2> HIDE DEF bs
  <2> QED BY <2>3, <2>4, <2>5 DEF BundlesOf
<1> QED BY <1>5, <1>7, <1>8

LEMMA ServedAlways == Spec => [](FilterInv /\ ServeInv)
<1>1. Init => FilterInv /\ ServeInv
  BY FilterInit, ServeInit
<1>2. (FilterInv /\ ServeInv) /\ [Next]_vars => (FilterInv /\ ServeInv)'
  BY FilterNext, ServeNext
<1> QED BY <1>1, <1>2, PTL DEF Spec

(***************************************************************************)
(* FilterFBC breaks no upgrade: for every channel that opm accepts,        *)
(* whatever is selected of it, repairChannelGraph leaves every kept entry  *)
(* reachable from the kept ones above it and has every dropped one below a *)
(* kept one skipped by somebody.                                           *)
(***************************************************************************)
THEOREM NoUpgradeIsLost == Spec => []UpgradesKept
  BY ServedAlways, UpgradesServe, PTL

(***************************************************************************)
(* A channel that channelHeadPlusN or a selection by name has reduced has  *)
(* exactly one head, however many heads the upstream channel has and       *)
(* however its bundles' versions are ordered.                              *)
(***************************************************************************)
THEOREM OneHeadIsLeft == Spec => []OneHead
  BY ServedAlways, HeadsServe, PTL

(***************************************************************************)
(* The filtered catalog passes opm's checks: its default channels exist,   *)
(* its channels list the bundles it has, and it has no others.             *)
(***************************************************************************)
THEOREM TheResultIsServable == Spec => []Servable
  BY ServedAlways, ResultServes, PTL
=============================================================================
