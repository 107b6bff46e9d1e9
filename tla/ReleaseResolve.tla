---------------------------- MODULE ReleaseResolve ----------------------------
(***************************************************************************)
(* How the manager turns the release channels of one ImageSet into image   *)
(* entries: the upgrade graph of each channel and architecture is fetched  *)
(* and narrowed to the wanted versions, payloads without a valid signature *)
(* are dropped, and unless the remaining payloads are the ones of the last *)
(* time, which an annotation on the ImageSet remembers, every payload is   *)
(* opened for its components.  A channel that fails keeps its entries.     *)
(*                                                                         *)
(* An image is [path, digest], <<>> for no digest; a destination is <<version, architecture,   *)
(* component>>; a version is a number, 0 for "not given" in a channel and  *)
(* for "not a version" in a graph.                                         *)
(***************************************************************************)
EXTENDS Integers, Sequences, SequencesExt, TLC

CONSTANTS
    Specs,          \* [channels, arches: sequences, kubeVirt, blocked: set of patterns]
    Histories,      \* sequences of upstreams: [<<channel, arch>> -> [nodes, edges]]
    SampleGraphs,   \* graphs on which the path search is compared with its definition
    Payloads,       \* [payload image -> [components: name -> image, disks: arch -> image]]
    PayloadOf(_, _),    \* the payload of a version for an architecture
    SignedAtFirst,  \* sets of payloads whose signature may be there from the start
    Faults,         \* which calls may fail: "graph", "signatures", "signature", "extract", "patch"
    MaxEdits, MaxFaults, MaxResolves

ASSUME ReleaseAssumption ==
    /\ \A s \in Specs : s.channels \in Seq(ToSet(s.channels))
    /\ \A S \in SignedAtFirst : S \subseteq DOMAIN Payloads

Multi == "multi"
KubeVirtName == "kube-virt-container"
NoDisk == [path |-> "", digest |-> <<>>]

VARIABLES
    history, now,   \* what upstream publishes, and how far it has got
    signed,         \* payloads whose signature is published
    spec, recollect,    \* the ImageSet and its recollect annotation
    annotations,    \* [signature of a channel -> payloads it was last resolved to]
    entries,        \* [destination -> [source, sig]]
    run,            \* the resolve under way: {} or one
    fresh,          \* the last resolve had no error, and nothing changed since it began
    edits, faults, resolves

upstreamVars == <<history, now, signed>>
vars == <<upstreamVars, spec, recollect, annotations, entries, run, fresh, edits, faults, resolves>>

NoEntries == [d \in {} |-> 0]
Init ==
    /\ history \in Histories /\ now = 1
    /\ signed \in SignedAtFirst
    /\ spec \in Specs /\ recollect = FALSE
    /\ annotations = NoEntries /\ entries = NoEntries
    /\ run = {} /\ fresh = FALSE
    /\ edits = 0 /\ faults = 0 /\ resolves = 0

-----------------------------------------------------------------------------
(***************************************************************************)
(* Choosing versions in an upgrade graph.                                  *)
(***************************************************************************)
\* Edges that are no pairs, or leave the graph, are ignored.
Edges(g) == SelectSeq(g.edges, LAMBDA e : Len(e) = 2 /\ {e[1], e[2]} \subseteq DOMAIN g.nodes)
Adjacent(g, i) == LET out == SelectSeq(Edges(g), LAMBDA e : e[1] = i)
                  IN  [k \in DOMAIN out |-> out[k][2]]

\* Mutant of Visit: a stack instead of a queue.
VisitDepthFirst(g, to, s) ==
    IF s.queue = <<>> \/ s.found THEN s
    ELSE LET curr == Head(s.queue)
             See(t, n) == IF n \in DOMAIN t.prev THEN t
                          ELSE [t EXCEPT !.prev = (n :> curr) @@ @, !.queue = <<n>> \o @]
         IN  IF curr = to THEN [s EXCEPT !.found = TRUE]
             ELSE FoldLeft(See, [s EXCEPT !.queue = Tail(@)], Adjacent(g, curr))

\* One node taken from the front of the queue of the breadth-first search.
Visit(g, to, s) ==
    IF s.queue = <<>> \/ s.found THEN s
    ELSE LET curr == Head(s.queue)
             See(t, n) == IF n \in DOMAIN t.prev THEN t
                          ELSE [t EXCEPT !.prev = (n :> curr) @@ @, !.queue = Append(@, n)]
         IN  IF curr = to THEN [s EXCEPT !.found = TRUE]
             ELSE FoldLeft(See, [s EXCEPT !.queue = Tail(@)], Adjacent(g, curr))

\* shortestPathNodes: [ok, nodes]; prev also says which nodes were visited.
shortestPathNodes(g, min, max) ==
    LET at(v) == {i \in DOMAIN g.nodes : g.nodes[i] = v}
        from == CHOOSE i \in at(min) : TRUE
        to == CHOOSE i \in at(max) : TRUE
        search[k \in Nat] ==
            IF k = 0 THEN [queue |-> <<from>>, prev |-> from :> from, found |-> FALSE]
            ELSE Visit(g, to, search[k - 1])
        last == search[Len(g.nodes)]
        path[i \in DOMAIN last.prev] ==
            IF i = from THEN <<g.nodes[i]>> ELSE Append(path[last.prev[i]], g.nodes[i])
    IN  IF at(min) = {} \/ at(max) = {} THEN [ok |-> FALSE, nodes |-> <<>>]
        ELSE IF last.found THEN [ok |-> TRUE, nodes |-> path[to]]
        ELSE [ok |-> FALSE, nodes |-> <<>>]

\* The first of the highest versions; anything else beats what is no version.
latestNode(nodes) ==
    FoldLeft(LAMBDA best, v : IF v > best THEN v ELSE best, nodes[1], Tail(nodes))

\* ResolveReleaseNodes, on a graph that was fetched: [ok, nodes].
ResolveReleaseNodes(ch, g) ==
    LET found(Test(_)) == [ok |-> TRUE, nodes |-> SelectSeq(g.nodes, Test)]
    IN  IF ch.full THEN found(LAMBDA v : TRUE)
        ELSE IF ch.min = 0 /\ ch.max # 0
             THEN [found(LAMBDA v : v = ch.max) EXCEPT !.ok = ch.max \in ToSet(g.nodes)]
        ELSE IF ch.min # 0 /\ ch.max # 0
             THEN IF ch.shortest THEN shortestPathNodes(g, ch.min, ch.max)
                  ELSE found(LAMBDA v : v # 0 /\ ch.min <= v /\ v <= ch.max)
        ELSE IF ch.min # 0 THEN found(LAMBDA v : v # 0 /\ v >= ch.min)
        ELSE IF g.nodes = <<>> THEN [ok |-> FALSE, nodes |-> <<>>]
        ELSE [ok |-> TRUE, nodes |-> <<latestNode(g.nodes)>>]

\* Mutant: one good signature vouches for the whole channel.
VerifyAny(ch, a, nodes, unavailable) ==
    IF \E v \in ToSet(nodes) : PayloadOf(v, a) \in signed \ unavailable THEN ToSet(nodes) ELSE {}

\* verifyReleaseNodes: without those whose signature could not be fetched. From
\* here on the order of the versions has no effect.
verifyReleaseNodes(ch, a, nodes, unavailable) ==
    {v \in ToSet(nodes) : ch.skipVerify \/ PayloadOf(v, a) \in signed \ unavailable}

-----------------------------------------------------------------------------
(***************************************************************************)
(* What a payload holds, and where it goes.                                *)
(***************************************************************************)
\* releaseTagFor, releasePayloadDestination, releaseComponentDestination.
Destination(v, a, component) == <<v, a, component>>

\* A blocked pattern names a repository, or one digest in it.
ImageBlocked(img, b) == img.path = b.path /\ b.digest \in {<<>>, img.digest}
Blocked(img, s) == \E b \in s.blocked : ImageBlocked(img, b)

\* The components image-references lists in the payload's last layer that has it.
ExtractComponentImages(img) == Payloads[img].components

\* ExtractKubeVirtImages: the disks of the wanted architectures.
Disks(img, arches) ==
    LET disks == Payloads[img].disks
        wanted == IF Multi \in ToSet(arches) THEN DOMAIN disks ELSE ToSet(arches)
    IN  {disks[a] : a \in wanted \cap DOMAIN disks}

\* The disks of a payload share one destination, and the map they come from has
\* no order: any of them may end up there.
DiskPicks(s, versions) ==
    LET disks(v) == IF s.kubeVirt THEN Disks(PayloadOf(v, s.arches[1]), s.arches) ELSE {}
        choices(v) == IF disks(v) = {} THEN {NoDisk} ELSE disks(v)
    IN  {f \in [versions -> UNION {choices(v) : v \in versions}] : \A v \in versions : f[v] \in choices(v)}

\* What is collected of a payload: only the payload itself if it cannot be opened.
Collected(img, disk, opened) ==
    LET inside == IF disk = NoDisk THEN ExtractComponentImages(img)
                  ELSE (KubeVirtName :> disk) @@ ExtractComponentImages(img)
    IN  ("payload" :> img) @@ IF opened THEN inside ELSE NoEntries

\* collectReleasesForArch, for one payload: [destination -> source].
collectNode(v, a, disk, opened) ==
    LET all == Collected(PayloadOf(v, a), disk, opened)
    IN  [d \in {Destination(v, a, c) : c \in DOMAIN all} |-> all[d[3]]]

\* CollectReleasesForChannel: the disks are taken from the first architecture.
\* Where architectures write the same destination, the last one counts.
CollectReleasesForChannel(s, nodes, picks, unopened) ==
    LET from(k, v) == collectNode(v, s.arches[k], IF k = 1 THEN picks[v] ELSE NoDisk,
                                  PayloadOf(v, s.arches[k]) \notin unopened)
        writers(d) == {k \in DOMAIN nodes : d[1] \in nodes[k] /\ d \in DOMAIN from(k, d[1])}
        written == UNION {UNION {DOMAIN from(k, v) : v \in nodes[k]} : k \in DOMAIN nodes}
    IN  [d \in written |-> from(Max(writers(d)), d[1])[d]]

\* ReleaseChannelSignature: the order of the architectures does not count, nor
\* does skipSignatureVerification.
ReleaseChannelSignature(ch, s) ==
    [name |-> ch.name, min |-> ch.min, max |-> ch.max, full |-> ch.full, shortest |-> ch.shortest,
     arches |-> ToSet(s.arches), kubeVirt |-> s.kubeVirt]
Signatures(s) == {ReleaseChannelSignature(s.channels[i], s) : i \in DOMAIN s.channels}

\* carryOverByOriginAndSig
carryOver(new, sig) ==
    [d \in DOMAIN new \cup {x \in DOMAIN entries : entries[x].sig = sig} |->
        IF d \in DOMAIN new THEN new[d] ELSE entries[d]]

\* mergeIntoStateWithSig: the last writer's signature counts.
mergeIntoState(new, images, sig) ==
    [d \in DOMAIN new \cup DOMAIN images |->
        IF d \in DOMAIN images THEN [source |-> images[d], sig |-> sig] ELSE new[d]]

\* The release-digest annotation of a channel: what it was last collected for.
Remember(annos, sig, payloads) == (sig :> payloads) @@ annos

-----------------------------------------------------------------------------
(***************************************************************************)
(* The world: releases appear and are signed later, the user edits the     *)
(* ImageSet or asks for everything to be collected again.                  *)
(***************************************************************************)
Publish ==
    /\ now < Len(history)
    /\ now' = now + 1 /\ fresh' = FALSE
    /\ UNCHANGED <<history, signed, spec, recollect, annotations, entries, run, edits, faults, resolves>>

Sign ==
    /\ signed # DOMAIN Payloads
    /\ signed' = DOMAIN Payloads /\ fresh' = FALSE
    /\ UNCHANGED <<history, now, spec, recollect, annotations, entries, run, edits, faults, resolves>>

Edit ==
    /\ edits < MaxEdits
    /\ edits' = edits + 1 /\ fresh' = FALSE
    /\ \/ spec' \in Specs \ {spec} /\ UNCHANGED recollect
       \/ recollect' = TRUE /\ UNCHANGED spec
    /\ UNCHANGED <<upstreamVars, annotations, entries, run, faults, resolves>>

-----------------------------------------------------------------------------
(***************************************************************************)
(* resolveImageSet, as far as it is about releases.  It works on the copy  *)
(* of the ImageSet it was given and holds no lock.                         *)
(***************************************************************************)
StartResolve ==
    /\ run = {} /\ resolves < MaxResolves
    /\ resolves' = resolves + 1
    /\ run' = {[spec |-> spec, channel |-> 1, recollect |-> recollect, new |-> NoEntries,
                annotations |-> annotations, error |-> FALSE]}
    /\ fresh' = TRUE
    /\ UNCHANGED <<upstreamVars, spec, recollect, annotations, entries, edits, faults>>

\* What may go wrong while a channel is resolved: the graphs of these
\* architectures, these signatures, or these payloads cannot be fetched.
Smooth == [down |-> {}, unavailable |-> {}, unopened |-> {}]
Failures ==
    [graph |-> {[Smooth EXCEPT !.down = {k}] : k \in 1 .. 2},
     signatures |-> {[Smooth EXCEPT !.unavailable = DOMAIN Payloads]},
     signature |-> {[Smooth EXCEPT !.unavailable = {p}] : p \in signed},
     extract |-> {[Smooth EXCEPT !.unopened = {p}] : p \in DOMAIN Payloads}]
Happenings ==
    {Smooth} \cup UNION {Failures[f] : f \in IF faults < MaxFaults THEN Faults \cap DOMAIN Failures ELSE {}}

\* The nodes of a channel for the architecture at position k, or why not.
Probe(s, ch, k, happened) ==
    LET g == ResolveReleaseNodes(ch, history[now][<<ch.name, s.arches[k]>>])
        verified == verifyReleaseNodes(ch, s.arches[k], g.nodes, happened.unavailable)
    IN  IF ~g.ok \/ k \in happened.down THEN [outcome |-> "error", nodes |-> {}]
        ELSE IF g.nodes # <<>> /\ verified = {} THEN [outcome |-> "rejected", nodes |-> {}]
        ELSE [outcome |-> "ok", nodes |-> verified]

\* Mutant: what an unreachable channel had is dropped.
KeepCachedOnly(r, sig, isError) ==
    run' = {[r EXCEPT !.channel = @ + 1, !.new = IF isError THEN @ ELSE carryOver(@, sig),
                      !.error = @ \/ isError]}

\* The channel keeps its entries; whether that is an error the caller retries.
Keep(r, sig, isError) ==
    run' = {[r EXCEPT !.channel = @ + 1, !.new = carryOver(@, sig), !.error = @ \/ isError]}

\* The channel is collected, and what it was resolved to is remembered.
Collect(r, sig, nodes, payloads, unopened) ==
    \E picks \in DiskPicks(r.spec, nodes[1]) :
       run' = {[r EXCEPT !.channel = @ + 1,
                   !.new = mergeIntoState(@, CollectReleasesForChannel(r.spec, nodes, picks, unopened), sig),
                   !.annotations = Remember(@, sig, payloads)]}

\* One iteration of the loop over the channels.
ResolveChannel ==
    \E r \in run : \E happened \in Happenings :
       LET s == r.spec
           ch == s.channels[r.channel]
           sig == ReleaseChannelSignature(ch, s)
           probes == [k \in DOMAIN s.arches |-> Probe(s, ch, k, happened)]
           nodes == [k \in DOMAIN probes |-> probes[k].nodes]
           failed == \E k \in DOMAIN probes : probes[k].outcome # "ok"
           payloads == UNION {{PayloadOf(v, s.arches[k]) : v \in nodes[k]} : k \in DOMAIN nodes}
           cached == sig \in DOMAIN r.annotations /\ r.annotations[sig] = payloads
       IN  /\ r.channel <= Len(s.channels)
           /\ faults' = faults + (IF happened = Smooth THEN 0 ELSE 1)
           /\ IF failed THEN Keep(r, sig, TRUE)
              ELSE IF payloads = {} \/ (cached /\ ~r.recollect) THEN Keep(r, sig, FALSE)
              ELSE Collect(r, sig, nodes, payloads, happened.unopened)
           /\ UNCHANGED <<upstreamVars, spec, recollect, annotations, entries, fresh, edits, resolves>>

\* filterBlockedImages
filterBlocked(new, s) == [d \in {x \in DOMAIN new : ~Blocked(new[x].source, s)} |-> new[d]]

\* Mutant: annotations of channels that were removed stay.
PruneNothing(annos, s) == annos
\* pruneObsoleteCacheAnnotations
prune(annos, s) == [g \in DOMAIN annos \cap Signatures(s) |-> annos[g]]

\* The rest of resolveImageSet; then the caller takes over the new state. A
\* failure to write the annotations is only logged.
FinishResolve ==
    \E r \in run : \E patched \in IF "patch" \in Faults /\ faults < MaxFaults THEN BOOLEAN ELSE {TRUE} :
       /\ r.channel > Len(r.spec.channels)
       /\ entries' = filterBlocked(r.new, r.spec)
       /\ IF patched
          THEN /\ annotations' = prune(r.annotations, r.spec)
               /\ recollect' = (recollect /\ ~r.recollect)
          ELSE UNCHANGED <<annotations, recollect>>
       /\ faults' = faults + (IF patched THEN 0 ELSE 1)
       /\ fresh' = (fresh /\ ~r.error)
       /\ run' = {}
       /\ UNCHANGED <<upstreamVars, spec, edits, resolves>>

Next == Publish \/ Sign \/ Edit \/ StartResolve \/ ResolveChannel \/ FinishResolve
Spec == Init /\ [][Next]_vars

-----------------------------------------------------------------------------
(***************************************************************************)
(* Properties.                                                             *)
(***************************************************************************)
\* Versions a channel asks for, without the way the code finds them.
Asked(ch, g) ==
    LET versions == ToSet(g.nodes)
    IN  IF ch.full THEN versions
        ELSE IF ch.shortest /\ ch.min # 0 /\ ch.max # 0 THEN ToSet(shortestPathNodes(g, ch.min, ch.max).nodes)
        ELSE IF ch.min = 0 /\ ch.max = 0 THEN {v \in versions : \A w \in versions : w <= v}
        ELSE {v \in versions \ {0} : (IF ch.min = 0 THEN v = ch.max ELSE v >= ch.min /\ (ch.max = 0 \/ v <= ch.max))}

\* The payloads a channel of the ImageSet selects, and what belongs to them.
SelectedBy(s, ch) == UNION {{PayloadOf(v, a) : v \in Asked(ch, history[now][<<ch.name, a>>])} : a \in ToSet(s.arches)}
Selected(s) == UNION {SelectedBy(s, s.channels[i]) : i \in DOMAIN s.channels}
Trusted(s) == UNION {LET ch == s.channels[i]
                     IN  IF ch.skipVerify THEN SelectedBy(s, ch) ELSE SelectedBy(s, ch) \cap signed : i \in DOMAIN s.channels}
Content(payloads, s) ==
    {i \in payloads \cup UNION {{Payloads[p].components[c] : c \in DOMAIN Payloads[p].components} : p \in payloads} :
        ~Blocked(i, s)}
DisksIn(payloads, s) == IF s.kubeVirt THEN UNION {Disks(p, s.arches) : p \in payloads} ELSE {}

\* A resolve that reports no error leaves what the ImageSet asks for: every
\* published and signed version it selects, with all components, each at a
\* destination of its own, and nothing it does not select, whatever was edited,
\* published, signed or unreachable before and whichever channels came from the
\* cache. (The disks of a payload share a destination.)
ResolvedExactly ==
    (run = {} /\ fresh) =>
        LET sources == {entries[d].source : d \in DOMAIN entries}
        IN  /\ Content(Trusted(spec), spec) \subseteq sources
            /\ sources \subseteq Content(Selected(spec), spec) \cup DisksIn(Selected(spec), spec)

\* An unreachable update service or signature store costs a channel nothing: an
\* image that was resolved for a channel which is still listed as it was, and
\* that the channel still asks for, is not dropped.
KeptWhileListed ==
    [][\A r \in run : run' = {} =>
          \A d \in DOMAIN entries \ DOMAIN entries' :
             \/ entries[d].sig \notin Signatures(r.spec)
             \/ entries[d].source \notin Content(Trusted(r.spec), r.spec) \cup DisksIn(Trusted(r.spec), r.spec)]_vars

\* A payload without a published signature is never queued for a channel that
\* wants signatures, and neither is anything it contains.
UnsignedNeverQueued ==
    [][\A d \in DOMAIN entries' \ DOMAIN entries :
          \/ PayloadOf(d[1], d[2]) \in signed
          \/ \E r \in run : \E i \in DOMAIN r.spec.channels :
                /\ r.spec.channels[i].skipVerify
                /\ ReleaseChannelSignature(r.spec.channels[i], r.spec) = entries'[d].sig]_vars

\* The search on one graph, against the versions reachable in so many upgrades.
FindsShortest(g) ==
    LET up == {<<g.nodes[Edges(g)[i][1]], g.nodes[Edges(g)[i][2]]>> : i \in DOMAIN Edges(g)}
        within[v \in ToSet(g.nodes), n \in Nat] ==
            IF n = 0 THEN {v}
            ELSE LET nearer == within[v, n - 1]
                 IN  nearer \cup {e[2] : e \in {x \in up : x[1] \in nearer}}
    IN  \A v, w \in ToSet(g.nodes) \ {0} :
           LET path == shortestPathNodes(g, v, w)
           IN  /\ path.ok <=> w \in within[v, Len(g.nodes)]
               /\ path.ok => /\ path.nodes[1] = v /\ Last(path.nodes) = w
                             /\ \A i \in 1 .. Len(path.nodes) - 1 : <<path.nodes[i], path.nodes[i + 1]>> \in up
                             /\ \A n \in 0 .. Len(path.nodes) - 2 : w \notin within[v, n]
SamplesRight == \A g \in SampleGraphs : FindsShortest(g)

\* shortestPath yields an upgrade path if there is one, and none is shorter, in
\* whatever the update service publishes and in every sample graph.
PathIsShortest ==
    SamplesRight /\ \A g \in {history[now][key] : key \in DOMAIN history[now]} : FindsShortest(g)
=============================================================================
