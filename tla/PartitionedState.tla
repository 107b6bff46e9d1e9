-------------------------- MODULE PartitionedState --------------------------
(***************************************************************************)
(* How the manager keeps its image state: one ConfigMap per ImageSet, a    *)
(* copy of a shared image in each of its owners' ConfigMaps, an index of   *)
(* the shared images and a summary for the MirrorTarget controller.  The   *)
(* writes of one flush are separate calls, each of which may fail, and the *)
(* manager may die between any two.                                        *)
(***************************************************************************)
EXTENDS Naturals, Sequences, FiniteSets, SequencesExt

CONSTANTS
    ImageSets, Dests,
    Wants,          \* the sets of images an ImageSet may resolve to
    Targets,        \* the values of spec.imageSets, each with those before it
    Legacies,       \* consolidated ConfigMaps of old: [image -> the ImageSets it refers to]
    MaxRetry,       \* bound on failures of one image
    Faults,         \* kinds of faults that may happen
    MaxFaults,      \* bound on faults
    MaxEdits        \* bound on edits and requests of the user

FaultKinds == {"write", "copy", "clear", "migrate", "load", "crash"}
ASSUME PartitionAssumption ==
    /\ "" \notin ImageSets
    /\ Wants \subseteq [ImageSets -> SUBSET Dests] /\ Targets \subseteq Seq(ImageSets)
    /\ Legacies \subseteq [Dests -> SUBSET ImageSets] /\ Faults \subseteq FaultKinds
    /\ MaxRetry \in Nat /\ MaxFaults \in Nat /\ MaxEdits \in Nat

VARIABLES
    mt, want, resync,       \* spec.imageSets; what each ImageSet needs; its force-resync annotation
    mem, owners, meta,      \* m.imageState, m.owners, m.ownerMeta
    busy, dirty, counted,   \* m.inProgress, m.stateDirty, m.summaryWritten
    pc,                     \* where the manager is in its tick
    cm, legacy,             \* the ConfigMaps: one per ImageSet, and the consolidated one
    index, summary,         \* the shared-image index and the summary
    isStatus, status,       \* counters in the statuses of the ImageSets and of the MirrorTarget
    stale,                  \* <<ImageSet, image>> asked to be copied again and not copied since
    edits, faults

user == <<mt, want, resync, edits>>
memory == <<mem, owners, meta, busy, dirty, counted>>
disk == <<cm, legacy, index, summary>>
vars == <<user, memory, pc, disk, isStatus, status, stale, faults>>

None == [st |-> "none", rc |-> 0, sig |-> ""]
Entry(st, rc, sig) == [st |-> st, rc |-> rc, sig |-> sig]
Empty == [d \in Dests |-> None]
NoOwners == [d \in Dests |-> {}]
Idle == [at |-> "idle"]
NoSummary == [names |-> <<"none">>, n |-> <<0, 0, 0>>]
Fault(kind) ==
    kind \in Faults \ faults /\ Cardinality(faults) < MaxFaults /\ faults' = faults \cup {kind}
Edit == edits < MaxEdits /\ edits' = edits + 1

\* imagestate.Counts: total, mirrored and failed.  An entry is "Failed" here when it
\* is PermanentlyFailed and not Mirrored; a failed one with retries left is "Pending".
Counts(state) ==
    LET Of(S) == Cardinality({d \in Dests : state[d] # None /\ state[d].st \in S})
    IN  <<Of({"Pending", "Failed", "Mirrored"}), Of({"Mirrored"}), Of({"Failed"})>>
Owned(is) == {d \in Dests : is \in owners[d]}
OwnerViewShared(d, is) == mem[d]
\* m.ownerView: the entry with the metadata of this owner.
OwnerView(d, is) == [mem[d] EXCEPT !.sig = IF meta[d][is] # "" THEN meta[d][is] ELSE @]
\* filterByImageSet
View(is) == [d \in Dests |-> IF d \in Owned(is) THEN OwnerView(d, is) ELSE None]

Init ==
    /\ mt \in Targets /\ want \in Wants /\ resync = {} /\ edits = 0
    /\ mem = Empty /\ owners = NoOwners /\ meta = [d \in Dests |-> [is \in ImageSets |-> ""]]
    /\ busy = {} /\ dirty = FALSE /\ counted = FALSE /\ pc = Idle
    /\ cm = [is \in ImageSets |-> Empty] /\ index = NoOwners /\ summary = NoSummary
    /\ legacy \in Legacies /\ \A d \in Dests : legacy[d] \subseteq Range(mt)
    /\ isStatus = [is \in ImageSets |-> <<0, 0, 0>>] /\ status = <<0, 0, 0>>
    /\ stale = {} /\ faults = {}

-----------------------------------------------------------------------------
(***************************************************************************)
(* The user.                                                               *)
(***************************************************************************)
EditImageSet ==
    /\ Edit /\ want' \in Wants \ {want} /\ UNCHANGED <<mt, resync>>
    /\ UNCHANGED <<memory, pc, disk, isStatus, status, stale, faults>>
AddImageSet ==
    /\ Edit /\ mt' \in Targets /\ IsStrictPrefix(mt, mt') /\ UNCHANGED <<want, resync>>
    /\ UNCHANGED <<memory, pc, disk, isStatus, status, stale, faults>>
RequestResync(is) ==
    /\ Edit /\ is \in Range(mt) \ resync /\ resync' = resync \cup {is} /\ UNCHANGED <<mt, want>>
    /\ stale' = stale \cup ({is} \X Owned(is))
    /\ UNCHANGED <<memory, pc, disk, isStatus, status, faults>>

-----------------------------------------------------------------------------
(***************************************************************************)
(* Phase A: the migration of the consolidated ConfigMap, then the load.    *)
(***************************************************************************)
StartTick ==
    /\ pc = Idle
    /\ pc' = IF mem # Empty THEN [at |-> "resync", todo |-> resync]
             ELSE IF legacy = NoOwners THEN [at |-> "load"]
             ELSE [at |-> "migrate", todo |-> UNION Range(legacy)]
    /\ UNCHANGED <<user, memory, disk, isStatus, status, stale, faults>>
MigrateExclusive(is) ==
    /\ pc.at = "migrate" /\ is \in pc.todo
    /\ cm' = [cm EXCEPT ![is] = [d \in Dests |-> IF legacy[d] = {is} THEN Entry("Mirrored", 0, is) ELSE None]]
    /\ pc' = [pc EXCEPT !.todo = @ \ {is}]
    /\ UNCHANGED <<user, memory, legacy, index, summary, isStatus, status, stale, faults>>
MigrateImageSet(is) ==
    /\ pc.at = "migrate" /\ is \in pc.todo
    /\ cm' = [cm EXCEPT ![is] = [d \in Dests |->
                IF is \in legacy[d] THEN Entry("Mirrored", 0, is) ELSE None]]
    /\ pc' = [pc EXCEPT !.todo = @ \ {is}]
    /\ UNCHANGED <<user, memory, legacy, index, summary, isStatus, status, stale, faults>>
MigrateEnd ==
    /\ pc.at = "migrate" /\ pc.todo = {}
    /\ index' = [d \in Dests |-> IF Cardinality(legacy[d]) > 1 THEN legacy[d] ELSE index[d]]
    /\ legacy' = NoOwners /\ pc' = [at |-> "load"]
    /\ UNCHANGED <<user, memory, cm, summary, isStatus, status, stale, faults>>
MigrateFails ==
    /\ pc.at = "migrate" /\ Fault("migrate") /\ pc' = [at |-> "load"]
    /\ UNCHANGED <<user, memory, disk, isStatus, status, stale>>

MergeLoadedEntry(a, b) ==
    IF a = None \/ (b # None /\ b.st = "Mirrored") THEN b
    ELSE IF b = None \/ a.st = "Mirrored" THEN a
    ELSE IF b.rc > a.rc THEN b ELSE a
\* What is loaded of an image whose copies are found in this order.
MergeLoaded(copies) ==
    LET merged[i \in 0..Len(copies)] ==
            IF i = 0 THEN None ELSE MergeLoadedEntry(merged[i - 1], copies[i])
    IN  merged[Len(copies)]
\* loadPartitionedState; the ConfigMaps of unread cannot be read and are left out.
LoadFrom(unread) ==
    LET Copy(is, d) == IF is \in unread THEN None ELSE cm[is][d] IN
    /\ pc.at = "load"
    /\ mem' = [d \in Dests |-> MergeLoaded([i \in 1..Len(mt) |-> Copy(mt[i], d)])]
    /\ owners' = [d \in Dests |-> {is \in Range(mt) : Copy(is, d) # None}]
    /\ meta' = [d \in Dests |-> [is \in ImageSets |-> IF is \in Range(mt) THEN Copy(is, d).sig ELSE ""]]
    /\ pc' = [at |-> "resync", todo |-> resync]
    /\ UNCHANGED <<user, busy, dirty, counted, disk, isStatus, status, stale>>
LoadState == LoadFrom({}) /\ UNCHANGED faults
LoadFails == Fault("load") /\ \E is \in Range(mt) : LoadFrom({is})

-----------------------------------------------------------------------------
(***************************************************************************)
(* Phase B: force-resync, then resolution.                                 *)
(***************************************************************************)
FailedOnly(is) ==
    [d \in Dests |-> IF d \in Owned(is) \ busy /\ mem[d].st = "Failed"
                     THEN Entry("Pending", 0, mem[d].sig) ELSE mem[d]]
ResetImageSetToPending(is) ==
    [d \in Dests |-> IF d \in Owned(is) \ busy THEN Entry("Pending", 0, mem[d].sig) ELSE mem[d]]
Resync(is) ==
    /\ pc.at = "resync" /\ is \in pc.todo /\ pc' = [pc EXCEPT !.todo = @ \ {is}]
    /\ mem' = ResetImageSetToPending(is) /\ dirty' = (dirty \/ mem' # mem)
    /\ \/ resync' = resync \ {is} /\ UNCHANGED faults
       \/ Fault("clear") /\ UNCHANGED resync
    /\ UNCHANGED <<mt, want, edits, owners, meta, busy, counted, disk, isStatus, status, stale>>

\* mergeResolvedIntoConsolidated and recordOwnerMetaLocked, for every ImageSet
\* in turn.  An entry takes its signature from an ImageSet that is its only
\* owner when its turn comes.
NewOwners == [d \in Dests |-> {is \in Range(mt) : d \in want[is]}]
OnlyOwner(d, k) ==
    LET before == {mt[i] : i \in 1..(k - 1)}
    IN  (owners[d] \ before) \cup (NewOwners[d] \cap before) \subseteq {mt[k]}
Signed(d, sig) ==
    LET sole == {k \in DOMAIN mt : d \in want[mt[k]] /\ OnlyOwner(d, k)}
    IN  IF sole = {} THEN sig ELSE mt[Max(sole)]
Resolve ==
    /\ pc.at = "resync" /\ pc.todo = {}
    /\ owners' = NewOwners
    /\ mem' = [d \in Dests |->
        IF NewOwners[d] = {} THEN None
        ELSE LET e == IF mem[d] = None THEN Entry("Pending", 0, "") ELSE mem[d]
             IN  [e EXCEPT !.sig = Signed(d, @)]]
    /\ meta' = [d \in Dests |-> [is \in ImageSets |-> IF is \in NewOwners[d] THEN is ELSE ""]]
    /\ dirty' = (dirty \/ mem' # mem \/ owners' # owners)
    /\ pc' = IF dirty' THEN [at |-> "flush", todo |-> Range(mt), ok |-> TRUE]
             ELSE IF ~counted THEN [at |-> "summary", ok |-> FALSE] ELSE [at |-> "status"]
    /\ UNCHANGED <<user, busy, counted, disk, isStatus, status, stale, faults>>

-----------------------------------------------------------------------------
(***************************************************************************)
(* Phase F: flushPartitionedState, one write at a time.  Phase G: statuses. *)
(***************************************************************************)
FlushOne(is) ==
    /\ pc.at = "flush" /\ is \in pc.todo
    /\ \/ cm' = [cm EXCEPT ![is] = View(is)] /\ pc' = [pc EXCEPT !.todo = @ \ {is}] /\ UNCHANGED faults
       \/ Fault("write") /\ pc' = [pc EXCEPT !.todo = @ \ {is}, !.ok = FALSE] /\ UNCHANGED cm
    /\ UNCHANGED <<user, memory, legacy, index, summary, isStatus, status, stale>>
FlushIndex ==
    /\ pc.at = "flush" /\ pc.todo = {}
    /\ \/ /\ index' = [d \in Dests |-> IF Cardinality(owners[d]) > 1 THEN owners[d] ELSE {}]
          /\ pc' = [at |-> "summary", ok |-> pc.ok] /\ UNCHANGED faults
       \/ Fault("write") /\ pc' = [at |-> "summary", ok |-> FALSE] /\ UNCHANGED index
    /\ UNCHANGED <<user, memory, cm, legacy, summary, isStatus, status, stale>>
CountedTwice == FoldLeft(LAMBDA n, is : [k \in 1..3 |-> n[k] + Counts(View(is))[k]], <<0, 0, 0>>, mt)
\* countedLocked, which has every image once.
Counted == Counts([d \in Dests |-> IF owners[d] \cap Range(mt) # {} THEN mem[d] ELSE None])
SaveSummary ==
    /\ pc.at = "summary" /\ pc' = [at |-> "status"]
    /\ \/ summary' = [names |-> mt, n |-> Counted] /\ counted' = TRUE
          /\ dirty' = (dirty /\ ~pc.ok) /\ UNCHANGED faults
       \/ Fault("write") /\ UNCHANGED <<summary, counted, dirty>>
    /\ UNCHANGED <<user, mem, owners, meta, busy, cm, legacy, index, isStatus, status, stale>>
WriteStatus ==
    /\ pc.at = "status" /\ pc' = Idle
    /\ isStatus' = [is \in ImageSets |-> IF is \in Range(mt) THEN Counts(View(is)) ELSE isStatus[is]]
    /\ UNCHANGED <<user, memory, disk, status, stale, faults>>

-----------------------------------------------------------------------------
(***************************************************************************)
(* Workers, whose reports are applied while no tick holds the lock, and    *)
(* the manager's death.                                                    *)
(***************************************************************************)
Dispatch(d) ==
    /\ pc = Idle /\ mem[d].st = "Pending" /\ d \notin busy /\ busy' = busy \cup {d}
    /\ UNCHANGED <<user, mem, owners, meta, dirty, counted, pc, disk, isStatus, status, stale, faults>>
SuccessWithoutDirty(d) ==
    /\ pc = Idle /\ d \in busy /\ busy' = busy \ {d}
    /\ mem' = IF mem[d] = None THEN mem ELSE [mem EXCEPT ![d] = Entry("Mirrored", 0, @.sig)]
    /\ stale' = {p \in stale : p[2] # d}
    /\ UNCHANGED <<user, owners, meta, dirty, counted, pc, disk, isStatus, status, faults>>
Report(d) ==
    /\ pc = Idle /\ d \in busy /\ busy' = busy \ {d}
    /\ \/ /\ mem' = IF mem[d] = None THEN mem ELSE [mem EXCEPT ![d] = Entry("Mirrored", 0, @.sig)]
          /\ stale' = {p \in stale : p[2] # d} /\ UNCHANGED faults
       \/ /\ Fault("copy") /\ UNCHANGED stale
          /\ mem' = IF mem[d] = None THEN mem
                    ELSE [mem EXCEPT ![d].rc = @ + 1, ![d].st = IF mem[d].rc + 1 >= MaxRetry THEN "Failed" ELSE "Pending"]
    /\ dirty' = (dirty \/ mem' # mem)
    /\ UNCHANGED <<user, owners, meta, counted, pc, disk, isStatus, status>>
Crash ==
    /\ Fault("crash") /\ pc' = Idle
    /\ mem' = Empty /\ owners' = NoOwners /\ meta' = [d \in Dests |-> [is \in ImageSets |-> ""]]
    /\ dirty' = FALSE /\ counted' = FALSE
    /\ UNCHANGED <<user, busy, disk, isStatus, status, stale>>

-----------------------------------------------------------------------------
(***************************************************************************)
(* The MirrorTarget controller: aggregateImageSetStatus.                   *)
(***************************************************************************)
Merged == [d \in Dests |-> FoldLeft(LAMBDA e, is : IF cm[is][d] # None THEN cm[is][d] ELSE e, None, mt)]
\* LoadSummary finds a summary, and it is of these ImageSets.
SummaryCovers(names) == summary.names = names
Aggregate ==
    /\ status' = IF SummaryCovers(mt) THEN summary.n
                 ELSE IF Merged # Empty THEN Counts(Merged)
                 ELSE FoldLeft(LAMBDA n, is : [k \in 1..3 |-> n[k] + isStatus[is][k]], <<0, 0, 0>>, mt)
    /\ UNCHANGED <<user, memory, pc, disk, isStatus, stale, faults>>

Manager ==
    \/ StartTick \/ MigrateEnd \/ LoadState \/ Resolve \/ FlushIndex \/ SaveSummary \/ WriteStatus
    \/ \E is \in ImageSets : MigrateImageSet(is) \/ Resync(is) \/ FlushOne(is)
Next ==
    \/ EditImageSet \/ AddImageSet \/ \E is \in ImageSets : RequestResync(is)
    \/ Manager \/ MigrateFails \/ LoadFails \/ Crash
    \/ \E d \in Dests : Dispatch(d) \/ Report(d)
    \/ Aggregate
Spec == Init /\ [][Next]_vars
\* The manager ticks, workers are started and report, and every change of the
\* summary or of an ImageSet's counters triggers the controller.
FairSpec ==
    /\ Spec /\ WF_vars(Manager) /\ WF_vars(Aggregate)
    /\ \A d \in Dests : SF_vars(Dispatch(d)) /\ SF_vars(Report(d))

-----------------------------------------------------------------------------
Progress(e) == [st |-> e.st, rc |-> e.rc]
Copies(d) ==
    {Progress(cm[is][d]) : is \in {x \in Range(mt) : cm[x][d] # None}}
        \cup (IF legacy[d] = {} THEN {} ELSE {[st |-> "Mirrored", rc |-> 0]})
Store == INSTANCE StateStore WITH
    None     <- Progress(None),
    live     <- [d \in Dests |-> Progress(mem[d])],
    stored   <- [d \in Dests |-> Copies(d)],
    loaded   <- mem # Empty \/ pc.at \notin {"idle", "migrate", "load"},
    impaired <- faults \cap {"migrate", "load"} # {},
    moving   <- {d \in Dests : \A is \in owners[d] : cm[is][d] = None}

\* The ConfigMaps together keep the promise of one store: a restart finds every
\* stored image with progress that was stored for it, whatever write failed.
StoreSpec == Store!Spec

\* Every ImageSet's ConfigMap carries the signatures of its own entries, also
\* for an image it shares, so that its next cache hit finds them.
OwnSignature == \A is \in ImageSets, d \in Dests : cm[is][d] # None => cm[is][d].sig = is

\* The summary describes the ConfigMaps it was written after: it counts what a
\* restart would find there, also where a crash left owners with different
\* copies of an image, unless a ConfigMap could not be read or written.
SummaryDescribesState ==
    [][summary' # summary /\ faults \cap {"write", "load"} = {} =>
         summary'.n = Counts([d \in Dests |-> MergeLoaded([i \in 1..Len(mt) |-> cm[mt[i]][d]])])]_vars

\* The MirrorTarget ends up with the counts of the manager's images, shared
\* ones counted once, however flushes, restarts and edits fell.
StatusExact == <>[](status = Counts(mem))

\* A force-resync has every image copied again, unless the manager died.
ResyncRemirrors ==
    <>("crash" \in faults) \/ <>[](\A p \in stale : p[1] \in owners[p[2]] => mem[p[2]].st = "Failed")
=============================================================================
