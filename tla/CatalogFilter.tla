---------------------------- MODULE CatalogFilter ----------------------------
(***************************************************************************)
(* FilterFBC: from a file-based operator catalog, keep the packages an     *)
(* ImageSet asks for, their companions and, transitively, the packages     *)
(* they depend on; in every kept package the bundles its include selects;  *)
(* and in every channel the selected entries, with an upgrade graph that   *)
(* bridges the dropped ones.  The manager filters to learn what to mirror, *)
(* the catalog build Job filters to learn what to serve (CatalogImage).    *)
(*                                                                         *)
(* Bundles, channels and versions are positive numbers, ordered the way    *)
(* the code orders their names (sort.Strings) and versions (semver); 0 is  *)
(* the empty string: no such bundle, no bound, no version to be found.     *)
(***************************************************************************)
EXTENDS Naturals, Sequences, SequencesExt

CONSTANT Candidates     \* [package -> companion names to try, in order]

VARIABLES
    cfg,            \* the catalog: packages, channels, bundles
    includes,       \* Seq of the requested packages with their filters
    explicit,       \* [package -> include]: the requests and their companions
    pkgSet,         \* packages to keep
    queue,          \* those of them still to be processed
    allowedBundles, \* bundles to keep
    filtered        \* the result

filterVars == <<explicit, pkgSet, queue, allowedBundles, filtered>>

Empty == [packages |-> <<>>, channels |-> {}, bundles |-> <<>>]

Names(entries) == {e.name : e \in ToSet(entries)}

-----------------------------------------------------------------------------
(***************************************************************************)
(* Channels: a sequence of entries [name, replaces, skips].                *)
(***************************************************************************)
Superseded(entries) == {e.replaces : e \in ToSet(entries)} \cup UNION {e.skips : e \in ToSet(entries)}

\* The entries with these names, in the order of the channel.
Retain(entries, names) ==
    LET after[n \in 0..Len(entries)] ==
            IF n = 0 THEN <<>>
            ELSE IF entries[n].name \in names THEN Append(after[n - 1], entries[n]) ELSE after[n - 1]
    IN  after[Len(entries)]

Heads(entries) == Retain(entries, Names(entries) \ Superseded(entries))

\* parseBundleSemver: 0 for a bundle that is missing or has no usable version.
Version(b) == IF b \in DOMAIN cfg.bundles THEN cfg.bundles[b].version ELSE 0

\* The highest version, the first in the channel's order among equal ones;
\* the smallest name where no version is known.
highestVersionBundle(entries) ==
    LET known == {i \in DOMAIN entries : Version(entries[i].name) # 0}
        top == Max({Version(entries[i].name) : i \in known})
    IN  IF known = {} THEN Min(Names(entries))
        ELSE entries[Min({i \in known : Version(entries[i].name) = top})].name

ReplacedBy(entries, b) ==
    LET es == {e \in ToSet(entries) : e.name = b}
    IN  IF es = {} THEN 0 ELSE (CHOOSE e \in es : TRUE).replaces

ChannelHead(entries) ==
    LET heads == Heads(entries)
    IN  IF heads = <<>> THEN Last(entries).name ELSE highestVersionBundle(heads)

\* The head and up to previous entries along the replaces chain.
channelHeadPlusN(entries, previous) ==
    LET back[i \in 0..previous] ==
            IF i = 0 THEN ChannelHead(entries) ELSE ReplacedBy(entries, back[i - 1])
    IN  IF entries = <<>> THEN {} ELSE Names(entries) \cap {back[i] : i \in 0..previous}

\* What the walk from a kept entry along the original replaces chain meets, up
\* to and including the nearest kept ancestor.
AncestorWalk(entries, kept, e) ==
    LET cur[i \in 0..Len(entries)] ==
            IF i = 0 THEN e.replaces
            ELSE IF cur[i - 1] \in kept THEN 0 ELSE ReplacedBy(entries, cur[i - 1])
    IN  {cur[i] : i \in 0..Len(entries)} \ {0, e.name}

RepairNoSkips(entries, kept, e) ==
    LET walk == AncestorWalk(entries, kept, e) \cap kept
    IN  IF e.replaces = 0 \/ e.replaces \in kept THEN e
        ELSE [e EXCEPT !.replaces = IF walk = {} THEN 0 ELSE Min(walk)]

RepairEntry(entries, kept, e) ==
    LET walk == AncestorWalk(entries, kept, e)
    IN  IF e.replaces = 0 \/ e.replaces \in kept THEN e
        ELSE [e EXCEPT !.replaces = IF walk \cap kept = {} THEN 0 ELSE Min(walk \cap kept),
                       !.skips = @ \cup (walk \ kept)]

repairChannelGraph(entries, kept) ==
    LET ks == Retain(entries, kept)
    IN  [i \in DOMAIN ks |-> RepairEntry(entries, kept, ks[i])]

\* Where several heads remain, the highest one skips the others.
mergeChannelHeads(entries) ==
    LET heads == Heads(entries)
        top == highestVersionBundle(heads)
    IN  IF Len(heads) <= 1 THEN entries
        ELSE [i \in DOMAIN entries |->
                 IF entries[i].name = top
                 THEN [entries[i] EXCEPT !.skips = @ \cup (Names(heads) \ {top})]
                 ELSE entries[i]]

-----------------------------------------------------------------------------
(***************************************************************************)
(* Includes: [name, channels, min, max, previous, bundles], where channels *)
(* gives the bounds of every channel that is named, and bundles the        *)
(* bundles that are selected by name.                                      *)
(***************************************************************************)
Bare(p) == [name |-> p, channels |-> <<>>, min |-> 0, max |-> 0, previous |-> 0, bundles |-> {}]

ChannelsOf(p) == {ch \in cfg.channels : ch.package = p}
BundlesOf(p) == {b \in DOMAIN cfg.bundles : cfg.bundles[b].package = p}

\* Companions of the requested packages, one for each request in order: the
\* first candidate that the catalog has and nobody asked for or found before.
Companions ==
    LET names == {includes[i].name : i \in DOMAIN includes}
        candidates(i) == Candidates[includes[i].name]
        free(i, found) == {k \in DOMAIN candidates(i) :
                              candidates(i)[k] \in DOMAIN cfg.packages \ (found \cup names)}
        found[i \in 0..Len(includes)] ==
            IF i = 0 THEN {}
            ELSE IF free(i, found[i - 1]) = {} THEN found[i - 1]
            ELSE found[i - 1] \cup {candidates(i)[Min(free(i, found[i - 1]))]}
    IN  found[Len(includes)]

\* The first include of a package counts.
ExplicitIncludes ==
    LET first(p) == includes[Min({i \in DOMAIN includes : includes[i].name = p})]
        names == {includes[i].name : i \in DOMAIN includes}
    IN  [p \in names \cup Companions |-> IF p \in names THEN first(p) ELSE Bare(p)]

SelectionUnknown ==
    \E p \in DOMAIN ExplicitIncludes : ~(ExplicitIncludes[p].bundles \subseteq BundlesOf(p))

\* Bounds given for the channel win over those of the package.
effectiveVersionFilter(inc, ch) ==
    LET own == IF ch \in DOMAIN inc.channels THEN inc.channels[ch] ELSE [min |-> 0, max |-> 0]
    IN  [min |-> IF own.min # 0 THEN own.min ELSE inc.min,
         max |-> IF own.max # 0 THEN own.max ELSE inc.max]

\* A bundle without a usable version matches every filter.
bundleMatchesVersionFilter(b, vf) ==
    \/ Version(b) = 0
    \/ (vf.min = 0 \/ Version(b) >= vf.min) /\ (vf.max = 0 \/ Version(b) <= vf.max)

HeadsOnly(inc) == DOMAIN inc.channels = {} /\ inc.min = 0 /\ inc.max = 0 /\ inc.bundles = {}

\* The entries of a channel that are kept; all of them in a package that is
\* only kept because another one depends on it.
SelectedEntries(ch) ==
    LET inc == explicit[ch.package]
        known == Names(ch.entries) \cap DOMAIN cfg.bundles
    IN  IF ch.package \notin DOMAIN explicit THEN known
        ELSE IF inc.bundles # {} THEN Names(ch.entries) \cap inc.bundles
        ELSE IF HeadsOnly(inc) THEN channelHeadPlusN(ch.entries, inc.previous)
        ELSE {b \in known :
                 /\ DOMAIN inc.channels = {} \/ ch.name \in DOMAIN inc.channels
                 /\ bundleMatchesVersionFilter(b, effectiveVersionFilter(inc, ch.name))}

SelectedBundles(p) ==
    IF p \notin DOMAIN explicit THEN BundlesOf(p)
    ELSE IF explicit[p].bundles # {} THEN explicit[p].bundles
    ELSE IF \A ch \in ChannelsOf(p) : ch.entries = <<>> THEN BundlesOf(p)
    ELSE UNION {SelectedEntries(ch) : ch \in ChannelsOf(p)}

Providers(gvks) ==
    {cfg.bundles[b].package : b \in {x \in DOMAIN cfg.bundles : cfg.bundles[x].provides \cap gvks # {}}}

\* Packages of the catalog that bundles require, by name or through an API.
Required(bs) ==
    LET known == bs \cap DOMAIN cfg.bundles
    IN  DOMAIN cfg.packages \cap
           (UNION {cfg.bundles[b].requires : b \in known}
            \cup Providers(UNION {cfg.bundles[b].needs : b \in known}))

-----------------------------------------------------------------------------
(***************************************************************************)
(* The steps of FilterFBC.                                                 *)
(***************************************************************************)
\* Companions and filters; without includes the catalog is returned as it is.
Expand ==
    /\ explicit' = ExplicitIncludes
    /\ pkgSet' = DOMAIN ExplicitIncludes
    /\ queue' = DOMAIN ExplicitIncludes
    /\ allowedBundles' = {}
    /\ filtered' = IF includes = <<>> THEN cfg ELSE Empty

ProcessExplicitOnly(p) ==
    LET new == IF p \in DOMAIN explicit THEN Required(SelectedBundles(p)) \ pkgSet ELSE {}
    IN  /\ p \in queue
        /\ allowedBundles' = allowedBundles \cup SelectedBundles(p)
        /\ pkgSet' = pkgSet \cup new
        /\ queue' = (queue \ {p}) \cup new
        /\ UNCHANGED <<explicit, filtered>>

\* One package of the search.  The queue starts in the order in which Go
\* iterates over a map, which is any order.
ProcessPackage(p) ==
    LET new == Required(SelectedBundles(p)) \ pkgSet
    IN  /\ p \in queue
        /\ allowedBundles' = allowedBundles \cup SelectedBundles(p)
        /\ pkgSet' = pkgSet \cup new
        /\ queue' = (queue \ {p}) \cup new
        /\ UNCHANGED <<explicit, filtered>>

KeptAnywhere(ch) == Names(ch.entries) \cap allowedBundles

\* Entries are those selected for this channel: a bundle kept as the head of
\* another channel may be history here.
KeptIn(ch) == SelectedEntries(ch)

TrimChannel(ch) ==
    LET repaired == repairChannelGraph(ch.entries, KeptIn(ch))
        byName == ch.package \in DOMAIN explicit /\ explicit[ch.package].bundles # {}
    IN  [ch EXCEPT !.entries = IF byName THEN mergeChannelHeads(repaired) ELSE repaired]

SurvivingChannels ==
    {TrimChannel(ch) : ch \in {c \in cfg.channels : c.package \in pkgSet /\ KeptIn(c) # {}}}

DefaultAsDeclared(p) == cfg.packages[p]

\* The default channel, or the first surviving one if it did not survive.
DefaultChannel(p) ==
    LET survived == {ch.name : ch \in {c \in SurvivingChannels : c.package = p}}
    IN  IF survived = {} \/ cfg.packages[p] \in survived THEN cfg.packages[p] ELSE Min(survived)

Trim ==
    /\ queue = {}
    /\ filtered' = [packages |-> [p \in pkgSet \cap DOMAIN cfg.packages |-> DefaultChannel(p)],
                    channels |-> SurvivingChannels,
                    bundles |-> [b \in allowedBundles \cap DOMAIN cfg.bundles |-> cfg.bundles[b]]]
    /\ UNCHANGED <<explicit, pkgSet, queue, allowedBundles>>
=============================================================================
