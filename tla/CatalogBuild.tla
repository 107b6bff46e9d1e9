---------------------------- MODULE CatalogBuild ----------------------------
(***************************************************************************)
(* From an upstream catalog to the filtered catalog image: the manager     *)
(* resolves the entries of one ImageSet (release channels and operator     *)
(* catalogs) through the digest cache kept in the ImageSet's annotations,  *)
(* writes the resulting entries and the digests they come from to the      *)
(* state ConfigMap, and the ImageSet controller builds a catalog from them *)
(* once nothing is pending.  Manager and controller share the ImageSet,    *)
(* its status and the ConfigMap, and write them at different times.        *)
(***************************************************************************)
EXTENDS Naturals, Sequences, FiniteSets, SequencesExt

CONSTANTS
    Order,          \* the entries of the spec: release channels, then catalogs
    Catalogs,       \* the entries that are operator catalogs
    Images,
    Specs,          \* specs a user may choose: [entry -> filter, 0 when absent]
    Content,        \* [entry -> [filter -> [digest -> images]]]
    Faults,         \* kinds of faults that may happen
    MaxEdits,       \* bound on edits and recollect requests
    MaxMoves,       \* bound on upstream publications
    MaxFaults       \* bound on faults

Entries == ToSet(Order)
Filters(e) == DOMAIN Content[e]
Digests == 1..(MaxMoves + 1)
FaultKinds == {"probe", "patch", "flush", "load", "copy", "build", "cached", "restart", "crash", "interrupt"}

ASSUME CatalogAssumption ==
    /\ Order \in Seq(Entries) /\ Catalogs \subseteq Entries /\ Specs # {} /\ Faults \subseteq FaultKinds
    /\ \A s \in Specs : DOMAIN s = Entries /\ \A e \in Entries : s[e] \in Filters(e) \cup {0}
    /\ \A e \in Entries : 0 \notin Filters(e) /\ \A k \in Filters(e), d \in Digests : Content[e][k][d] \subseteq Images
    /\ MaxEdits \in Nat /\ MaxMoves \in Nat /\ MaxFaults \in Nat

VARIABLES
    upstream,       \* [entry -> digest its tag or channel points at]
    is,             \* the ImageSet: spec, gen, observed, recollect
    cache,          \* its cache annotations: [entry -> [filter -> digest or 0]]
    due, marks,     \* poll interval expired; what no build has answered yet
    mem, memDig,    \* the manager's entries and catalog digests
    tick,           \* the manager's tick
    cm,             \* the state ConfigMap: entries and digests
    registry,       \* [image -> "absent", "present" or "refused" (given up)]
    last,           \* inputs of the last build, recorded by the controller
    ready,          \* CatalogReady is True
    job, catalog,   \* [catalog -> its build Job], [catalog -> image pushed]
    edits, moves,   \* edits and publications made
    faults          \* kinds of faults that happened

source == <<upstream, moves>>
manVars == <<mem, memDig, tick>>
ctlVars == <<last, ready, job>>
vars == <<source, is, cache, due, marks, manVars, cm, registry, ctlVars, catalog, edits, faults>>

None == [st |-> "none", perm |-> FALSE, sig |-> <<>>]
Empty == [i \in Images |-> None]
NoDigests == [e \in Entries |-> [k \in Filters(e) |-> 0]]
NoJob == [phase |-> "NotFound", k |-> 0, d |-> 0]
Idle == [pc |-> "idle"]
Sig(e, s) == <<e, s[e]>>
Fault(kind) ==
    kind \in Faults \ faults /\ Cardinality(faults) < MaxFaults /\ faults' = faults \cup {kind}
Edit == edits < MaxEdits /\ edits' = edits + 1

Init ==
    /\ upstream = [e \in Entries |-> 1]
    /\ \E s \in Specs : is = [spec |-> s, gen |-> 1, observed |-> 0, recollect |-> 0]
    /\ cache = NoDigests /\ due = FALSE /\ marks = {}
    /\ mem = Empty /\ memDig = NoDigests /\ tick = Idle
    /\ cm = [entries |-> Empty, dig |-> NoDigests]
    /\ registry = [i \in Images |-> "absent"]
    /\ last = [spec |-> <<>>, fp |-> {}] /\ ready = FALSE
    /\ job = [e \in Catalogs |-> NoJob] /\ catalog = [e \in Catalogs |-> NoJob]
    /\ edits = 0 /\ moves = 0 /\ faults = {}

-----------------------------------------------------------------------------
(***************************************************************************)
(* The user and upstream.                                                  *)
(***************************************************************************)
EditSpec(s) ==
    /\ Edit /\ s # is.spec
    /\ is' = [is EXCEPT !.spec = s, !.gen = @ + 1]
    /\ UNCHANGED <<source, cache, due, marks, manVars, cm, registry, ctlVars, catalog, faults>>
Recollect ==
    /\ Edit /\ is' = [is EXCEPT !.recollect = edits + 1]
    /\ UNCHANGED <<source, cache, due, marks, manVars, cm, registry, ctlVars, catalog, faults>>
Publish(e) ==
    /\ moves < MaxMoves /\ moves' = moves + 1
    /\ upstream' = [upstream EXCEPT ![e] = @ + 1]
    /\ UNCHANGED <<is, cache, due, marks, manVars, cm, registry, ctlVars, catalog, edits, faults>>
-----------------------------------------------------------------------------
(***************************************************************************)
(* The manager's tick: load, resolve (without the lock), merge and flush,  *)
(* status.                                                                 *)
(***************************************************************************)
ShouldResolve(view) ==
    view = Empty \/ is.recollect # 0 \/ is.gen > is.observed \/ due

CatalogDigestsOf(c) == [e \in Entries |-> IF e \in Catalogs THEN c[e] ELSE NoDigests[e]]
\* loadPartitionedState; state written before digests were recorded with it
\* adopts the annotations.
LoadedDigests == IF cm.dig = NoDigests /\ cm.entries # Empty THEN CatalogDigestsOf(cache) ELSE cm.dig
BeginTick(m, d) ==
    /\ mem' = m /\ memDig' = d
    /\ tick' = IF ShouldResolve(m)
               THEN [pc |-> "resolve", spec |-> is.spec, cache |-> cache, recollect |-> is.recollect, view |-> m]
               ELSE [pc |-> "flush", resolved |-> FALSE]
    /\ UNCHANGED <<source, is, cache, due, marks, cm, registry, ctlVars, catalog, edits>>
StartTick ==
    /\ tick.pc = "idle"
    /\ \/ mem # Empty /\ BeginTick(mem, memDig) /\ UNCHANGED faults
       \/ mem = Empty /\ BeginTick(cm.entries, LoadedDigests) /\ UNCHANGED faults
       \/ mem = Empty /\ Fault("load") /\ BeginTick(Empty, NoDigests)

\* carryOverByOriginAndSig and mergeIntoStateWithSig: what entry e adds to dst.
\* Every entry has a signature: those of versions that recorded none are left out.
CarryOver(dst, e) ==
    [i \in Images |-> IF dst[i] = None /\ tick.view[i].sig = Sig(e, tick.spec) THEN tick.view[i] ELSE dst[i]]
Merge(dst, e) ==
    [i \in Images |->
        IF i \in Content[e][tick.spec[e]][upstream[e]]
        THEN [st |-> IF tick.view[i].st = "Mirrored" THEN "Mirrored" ELSE "Pending",
              perm |-> FALSE, sig |-> Sig(e, tick.spec)]
        ELSE dst[i]]
CacheHit(e) == tick.recollect = 0 /\ tick.cache[e][tick.spec[e]] = upstream[e]

\* resolveReleaseSection and resolveOperatorSection, where the entries of bad
\* fail to probe, verify or collect and keep what they had.
Add(dst, e, bad) ==
    IF tick.spec[e] = 0 THEN dst
    ELSE IF e \in bad \/ CacheHit(e) THEN CarryOver(dst, e) ELSE Merge(dst, e)
Resolved(bad) ==
    LET after[n \in 0..Len(Order)] ==
            IF n = 0 THEN Empty ELSE Add(after[n - 1], Order[n], bad)
    IN  after[Len(Order)]
AdvancesOnError(bad) ==
    [e \in Entries |-> [k \in Filters(e) |-> IF k # tick.spec[e] THEN 0 ELSE upstream[e]]]
\* The annotations afterwards, without those of filters the spec has no more.
NewCache(bad) ==
    [e \in Entries |-> [k \in Filters(e) |->
        IF k # tick.spec[e] THEN 0 ELSE IF e \in bad THEN tick.cache[e][k] ELSE upstream[e]]]

\* resolveImageSet ends with the annotations: patchImageSetAnnotations, which
\* only removes the recollect it honoured.
ResolveWith(bad, patched) ==
    LET honoured == patched /\ tick.recollect # 0 IN
    /\ tick.pc = "resolve"
    /\ tick' = [pc |-> "flush", resolved |-> TRUE, new |-> Resolved(bad), recollect |-> tick.recollect,
                dig |-> CatalogDigestsOf(NewCache(bad)), hadError |-> bad # {}]
    /\ cache' = IF patched THEN NewCache(bad) ELSE cache
    /\ is' = IF honoured /\ is.recollect = tick.recollect THEN [is EXCEPT !.recollect = 0] ELSE is
    /\ marks' = IF honoured THEN marks \cup {"recollect"} ELSE marks
    /\ UNCHANGED <<source, due, mem, memDig, cm, registry, ctlVars, catalog, edits>>
Resolve == ResolveWith({}, TRUE) /\ UNCHANGED faults
ResolveFails ==
    \/ \E e \in Entries : tick.pc = "resolve" /\ tick.spec[e] # 0 /\ Fault("probe") /\ ResolveWith({e}, TRUE)
    \/ Fault("patch") /\ ResolveWith({}, FALSE)

\* resetFailedForRecollectLocked: a recollect gives failed images another try.
Retried(e) == IF tick.recollect # 0 /\ e.st = "Failed" THEN [e EXCEPT !.st = "Pending"] ELSE e
\* mergeResolvedIntoConsolidated keeps what is known of an image that stays.
Integrate(i) ==
    LET e == IF tick.new[i] = None THEN None
             ELSE IF mem[i] = None THEN tick.new[i] ELSE [mem[i] EXCEPT !.sig = tick.new[i].sig]
    IN  Retried(e)
FlushTo(written) ==
    /\ tick.pc = "flush"
    /\ IF tick.resolved
       THEN mem' = [i \in Images |-> Integrate(i)] /\ memDig' = tick.dig
       ELSE UNCHANGED <<mem, memDig>>
    /\ cm' = IF written THEN [entries |-> mem', dig |-> memDig'] ELSE cm
    /\ tick' = [pc |-> "status", ok |-> tick.resolved /\ ~tick.hadError]
    /\ UNCHANGED <<source, is, cache, due, marks, registry, ctlVars, catalog, edits>>
Flush == FlushTo(TRUE) /\ UNCHANGED faults
FlushFails == Fault("flush") /\ FlushTo(FALSE)

StatusWithoutGeneration ==
    /\ tick.pc = "status" /\ tick' = Idle
    /\ IF tick.ok
       THEN is' = [is EXCEPT !.observed = 1] /\ due' = FALSE /\ marks' = marks \cup {"poll"}
       ELSE UNCHANGED <<is, due, marks>>
    /\ UNCHANGED <<source, cache, mem, memDig, cm, registry, ctlVars, catalog, edits, faults>>
\* updateImageSetStatusLocked writes the generation it reads now.
WriteStatus ==
    /\ tick.pc = "status" /\ tick' = Idle
    /\ IF tick.ok
       THEN is' = [is EXCEPT !.observed = is.gen] /\ due' = FALSE /\ marks' = marks \cup {"poll"}
       ELSE UNCHANGED <<is, due, marks>>
    /\ UNCHANGED <<source, cache, mem, memDig, cm, registry, ctlVars, catalog, edits, faults>>

\* A restart is a crash when the annotations are written and the state is not.
Restart ==
    /\ Fault(IF tick.pc = "flush" /\ tick.resolved THEN "crash" ELSE "restart")
    /\ mem' = Empty /\ memDig' = NoDigests /\ tick' = Idle
    /\ UNCHANGED <<source, is, cache, due, marks, cm, registry, ctlVars, catalog, edits>>

\* A worker's report: module ManagerDispatch.
MirrorImage(i) ==
    /\ mem[i].st = "Pending"
    /\ mem' = [mem EXCEPT ![i].st = "Mirrored"] /\ registry' = [registry EXCEPT ![i] = "present"]
    /\ UNCHANGED <<source, is, cache, due, marks, memDig, tick, cm, ctlVars, catalog, edits, faults>>
ImageGivenUp(i) ==
    /\ mem[i].st = "Pending" /\ Fault("copy")
    /\ mem' = [mem EXCEPT ![i].st = "Failed", ![i].perm = TRUE]
    /\ registry' = [registry EXCEPT ![i] = "refused"]
    /\ UNCHANGED <<source, is, cache, due, marks, memDig, tick, cm, ctlVars, catalog, edits>>

-----------------------------------------------------------------------------
(***************************************************************************)
(* The ImageSet controller: reconcileCatalogBuildJobs.                     *)
(***************************************************************************)
Operators == {e \in Catalogs : is.spec[e] # 0}
Pending == {i \in Images : cm.entries[i] # None /\ cm.entries[i].st # "Mirrored" /\ ~cm.entries[i].perm}
\* loadMirrorSnapshot
Complete ==
    /\ Pending = {}
    /\ \E i \in Images : cm.entries[i] # None /\ cm.entries[i].sig[1] \in Catalogs
    /\ is.observed = is.gen
    /\ \A e \in Operators : \E i \in Images : cm.entries[i].sig = Sig(e, is.spec)

LatestDigest(e) == cache[e][is.spec[e]]
\* pinnedCatalogRef and catalogDigestsFingerprint
PinnedDigest(e) == cm.dig[e][is.spec[e]]
Fingerprint ==
    IF \E e \in Operators : PinnedDigest(e) = 0 THEN {}
    ELSE {<<e, is.spec[e], PinnedDigest(e)>> : e \in Operators}
BuildSignature == [e \in Operators |-> is.spec[e]]

Active(e) == job[e].phase = "Running"
AnyActive == \E e \in Operators : Active(e)
NeedsRebuild ==
    \/ "recollect" \in marks
    \/ last.spec \notin {<<>>, BuildSignature}
    \/ Fingerprint # {} /\ last.fp # Fingerprint /\ (last.fp # {} \/ ready)
PollForces == due /\ ~NeedsRebuild /\ "poll" \in marks /\ ~AnyActive
Rebuild == NeedsRebuild \/ PollForces

Defer == ready' = FALSE /\ UNCHANGED <<last, job, marks>>
WaitsOnlyForState ==
    \/ ~Complete /\ ~ready /\ \A e \in Operators : job[e] = NoJob
    \/ Rebuild /\ ~Complete
MustWait ==
    \/ ~Complete /\ ~ready /\ \A e \in Operators : job[e] = NoJob
    \/ Rebuild /\ (~Complete \/ AnyActive)

Record ==
    IF Complete /\ (Rebuild \/ last.spec # BuildSignature \/ (Fingerprint # {} /\ last.fp # Fingerprint))
    THEN /\ last' = [spec |-> BuildSignature, fp |-> IF Fingerprint # {} THEN Fingerprint ELSE last.fp]
         /\ marks' = IF NeedsRebuild THEN marks \ {"recollect"}
                     ELSE IF PollForces THEN marks \ {"poll"} ELSE marks
    ELSE UNCHANGED <<last, marks>>

\* The loop over the catalogs.  Jobs of a rebuild are deleted first; those in
\* stale are still in the controller's cache when it looks for them again, so
\* nothing takes their place.  The first catalog without a digest ends the loop.
Deleted == IF Rebuild THEN {e \in Operators : job[e].phase \in {"Succeeded", "Failed"}} ELSE {}
Wanted(stale) ==
    IF ready /\ ~Rebuild THEN {} ELSE {e \in Operators : job[e] = NoJob \/ e \in Deleted \ stale}
Blocked(e) == ~Complete \/ PinnedDigest(e) = 0
Before(e, f) == SelectInSeq(Order, LAMBDA x : x = e) < SelectInSeq(Order, LAMBDA x : x = f)
Reached(e, stale) == \A f \in Wanted(stale) \ {e} : Before(f, e) => ~Blocked(f)
Created(stale) == {e \in Wanted(stale) : Reached(e, stale) /\ ~Blocked(e)}
EnsureJobs(stale) ==
    job' = [e \in Catalogs |->
        IF e \in Created(stale) THEN [phase |-> "Running", k |-> is.spec[e], d |-> PinnedDigest(e)]
        ELSE IF e \in Deleted /\ Reached(e, stale) THEN NoJob ELSE job[e]]
Phase(e, stale) ==
    IF e \in Wanted(stale) THEN "Running"
    ELSE IF job[e] = NoJob THEN "Succeeded" ELSE job[e].phase

BuildWith(stale) ==
    /\ Operators # {}
    /\ IF MustWait THEN Defer
       ELSE /\ Record /\ EnsureJobs(stale)
            /\ ready' = \A e \in Operators : Phase(e, stale) = "Succeeded"
    /\ UNCHANGED <<source, is, cache, due, manVars, cm, registry, catalog, edits>>
Build == BuildWith({}) /\ UNCHANGED faults
BuildFromCache ==
    \E stale \in SUBSET Operators : stale # {} /\ stale \subseteq Deleted /\ Fault("cached") /\ BuildWith(stale)
\* The operator restarts after it recorded the build and before the new Jobs.
BuildInterrupted ==
    /\ Operators # {} /\ ~MustWait /\ Fault("interrupt") /\ Record
    /\ \/ UNCHANGED job
       \/ job' = [e \in Catalogs |-> IF e \in Deleted THEN NoJob ELSE job[e]]
    /\ UNCHANGED <<source, is, cache, due, manVars, cm, registry, ready, catalog, edits>>

-----------------------------------------------------------------------------
(***************************************************************************)
(* The build Jobs.                                                         *)
(***************************************************************************)
\* The controller has not seen the end of a Job.  Builds and reconciles take
\* less than a Job's TTL and a poll interval, of ten minutes or more each.
Unseen(e) == job[e].phase = "Succeeded" /\ ~ready /\ ~MustWait

JobSucceeds(e) ==
    /\ Active(e) /\ job' = [job EXCEPT ![e].phase = "Succeeded"] /\ catalog' = [catalog EXCEPT ![e] = job'[e]]
    /\ UNCHANGED <<source, is, cache, due, marks, manVars, cm, registry, last, ready, edits, faults>>
JobFails(e) ==
    /\ Active(e) /\ Fault("build") /\ job' = [job EXCEPT ![e].phase = "Failed"]
    /\ UNCHANGED <<source, is, cache, due, marks, manVars, cm, registry, last, ready, catalog, edits>>
JobExpires(e) ==
    /\ job[e].phase \in {"Succeeded", "Failed"} /\ ~Unseen(e) /\ job' = [job EXCEPT ![e] = NoJob]
    /\ UNCHANGED <<source, is, cache, due, marks, manVars, cm, registry, last, ready, catalog, edits, faults>>

\* pollInterval has passed since LastSuccessfulPollTime.
PollExpires ==
    /\ ~due /\ is.observed > 0 /\ due' = TRUE
    /\ \A e \in Operators : ~Active(e) /\ ~Unseen(e)
    /\ UNCHANGED <<source, is, cache, marks, manVars, cm, registry, ctlVars, catalog, edits, faults>>

-----------------------------------------------------------------------------
Manager == StartTick \/ Resolve \/ Flush \/ WriteStatus
Next ==
    \/ \E s \in Specs : EditSpec(s)
    \/ Recollect \/ PollExpires \/ \E e \in Entries : Publish(e)
    \/ Manager \/ ResolveFails \/ FlushFails \/ Restart
    \/ \E i \in Images : MirrorImage(i) \/ ImageGivenUp(i)
    \/ Build \/ BuildFromCache \/ BuildInterrupted
    \/ \E e \in Catalogs : JobSucceeds(e) \/ JobFails(e) \/ JobExpires(e)
Spec == Init /\ [][Next]_vars

\* The manager ticks, the controller reconciles on every change of what it
\* watches, workers and Jobs end, Jobs expire and time passes.
FairSpec ==
    /\ Spec /\ WF_vars(Manager) /\ WF_vars(Build) /\ WF_vars(PollExpires)
    /\ \A i \in Images : WF_vars(MirrorImage(i))
    /\ \A e \in Catalogs : WF_vars(JobSucceeds(e)) /\ WF_vars(JobExpires(e))

-----------------------------------------------------------------------------
\* A catalog never advertises an image that is not in the target registry,
\* unless the image was given up: the promise of reconcileCatalogBuildJobs.
AdvertisesOnlyMirrored ==
    \A e \in Catalogs : job[e] # NoJob =>
        \A i \in Content[e][job[e].k][job[e].d] : registry[i] # "absent"

\* The state ConfigMap never pairs a digest with the entries of another one.
DigestMatchesEntries ==
    \A e \in Catalogs : \A k \in Filters(e) :
        LET owned == {i \in Images : cm.entries[i].sig = <<e, k>>}
        IN  cm.dig[e][k] # 0 /\ owned # {} => owned = Content[e][k][cm.dig[e][k]]

\* CatalogReady means that the catalogs were built from the inputs recorded for
\* them: the result of an earlier build is never taken for the rebuild.
ReadyAsRecorded ==
    ready => \A e \in Operators :
        e \in DOMAIN last.spec => <<e, catalog[e].k, catalog[e].d>> \in last.fp /\ catalog[e].k = last.spec[e]

\* The same where the operator sees its own deletions and is not interrupted.
ReadyAsRecordedUndisturbed == faults \cap {"cached", "interrupt"} = {} => ReadyAsRecorded

\* The gate always opens again: CatalogReady comes back after every edit,
\* publication, poll and failure.
GateOpens == []<>(ready \/ Operators = {})
=============================================================================
