------------------------------ MODULE Cleanup ------------------------------
(***************************************************************************)
(* How an image leaves the target registry.  Four actors share the         *)
(* ConfigMaps of a MirrorTarget: the user edits ImageSets and              *)
(* spec.imageSets, the manager resolves them, stages orphans and flushes   *)
(* the state ConfigMaps, the MirrorTarget controller turns orphans and     *)
(* removed ImageSets into snapshots and cleanup Jobs, and the Jobs delete  *)
(* manifests.  No lock spans two of them: every step below is one actor's  *)
(* work between two API calls the others can slip in between.              *)
(***************************************************************************)
EXTENDS Naturals, FiniteSets

CONSTANTS
    ImageSets,      \* the ImageSets that may be listed in spec.imageSets
    Dests,          \* destination references
    Manifest,       \* [Dests -> manifests]: what each destination points at
    Kind,           \* [Dests -> {"tag", "digestTag", "digest"}], see repoAndDigest
    InitWant,       \* [ImageSets -> SUBSET Dests]: what each resolves to at first
    MaxEdits,       \* bound on the user's edits
    MaxFaults       \* bound on failed calls, failed Jobs and manager restarts

ASSUME CleanupAssumption ==
    /\ Kind \in [Dests -> {"tag", "digestTag", "digest"}]
    /\ InitWant \in [ImageSets -> SUBSET Dests]
    /\ MaxEdits \in Nat /\ MaxFaults \in Nat
    /\ "orphans" \notin ImageSets

VARIABLES
    spec, policy, touched, want,            \* the user's side, and resourceVersion moved
    known, pending,                         \* MirrorTarget status
    cm, index, orphans, snap,               \* ConfigMaps
    job, work,                              \* cleanup Jobs and what their pod has left
    registry,                               \* the destinations that exist
    mem, owners, mirrored, dirty,           \* manager's working set
    mpc, tick,                              \* manager: phase, and what it carries along
    cpc, c,                                 \* controller: phase, and its copy of the object
    edits, faults, readded                  \* bounds; destinations wanted anew since the start

userVars == <<spec, policy, touched, want>>
statusVars == <<known, pending>>
mgrVars == <<mem, owners, mirrored, dirty, mpc, tick>>
ctlVars == <<cpc, c>>
jobVars == <<job, work, registry>>
vars == <<userVars, statusVars, cm, index, orphans, snap, jobVars, mgrVars, ctlVars,
          edits, faults, readded>>

Names == ImageSets \cup {"orphans"}     \* what a cleanup Job can be named after
Absent == "absent"
Entry == {"Pending", "Mirrored"}
NoState == [d \in Dests |-> Absent]     \* a missing ConfigMap loads as the empty state
States == [Dests -> Entry \cup {Absent}]
In(state) == {d \in Dests : state[d] # Absent}
Only(state, D) == [d \in Dests |-> IF d \in D THEN state[d] ELSE Absent]
NoSnap == [live |-> FALSE, state |-> NoState]
IdleTick == [sets |-> {}, new |-> NoState, todo |-> {}]
IdleC == [spec |-> {}, known |-> {}, pending |-> {}, policy |-> FALSE, orphans |-> NoState,
          name |-> "orphans", shared |-> {}, todo |-> {}]

\* Destinations some listed ImageSet's spec asks for.
Wanted == UNION {want[s] : s \in spec}

Init ==
    /\ spec = ImageSets /\ policy = TRUE /\ touched = FALSE
    /\ want = InitWant
    /\ known = ImageSets /\ pending = {}
    /\ registry = UNION {want[s] : s \in ImageSets}
    /\ mem = [d \in Dests |-> IF d \in registry THEN "Mirrored" ELSE Absent]
    /\ owners = [d \in Dests |-> {s \in ImageSets : d \in want[s]}]
    /\ mirrored = registry /\ dirty = FALSE
    /\ cm = [s \in ImageSets |-> Only(mem, want[s])]
    /\ index = [d \in Dests |-> IF Cardinality(owners[d]) > 1 THEN owners[d] ELSE {}]
    /\ orphans = NoState
    /\ snap = [n \in Names |-> NoSnap]
    /\ job = [n \in Names |-> "none"] /\ work = [n \in Names |-> {}]
    /\ mpc = "idle" /\ tick = IdleTick
    /\ cpc = "idle" /\ c = IdleC
    /\ edits = 0 /\ faults = 0 /\ readded = {}

Fault == faults < MaxFaults /\ faults' = faults + 1

-----------------------------------------------------------------------------
(***************************************************************************)
(* The user.  An edit of the MirrorTarget moves its resourceVersion, so a  *)
(* status update of a copy read before it conflicts.                       *)
(***************************************************************************)
Edit == edits < MaxEdits /\ edits' = edits + 1

EditImageSet(s, d) ==
    /\ Edit
    /\ want' = [want EXCEPT ![s] = IF d \in @ THEN @ \ {d} ELSE @ \cup {d}]
    /\ readded' = IF d \in want[s] THEN readded ELSE readded \cup {d}
    /\ UNCHANGED <<spec, policy, touched, statusVars, cm, index, orphans, snap, jobVars,
                   mgrVars, ctlVars, faults>>

EditTarget(s) ==
    /\ Edit
    /\ spec' = IF s \in spec THEN spec \ {s} ELSE spec \cup {s}
    /\ readded' = IF s \in spec THEN readded ELSE readded \cup want[s]
    /\ touched' = TRUE
    /\ UNCHANGED <<policy, want, statusVars, cm, index, orphans, snap, jobVars, mgrVars,
                   ctlVars, faults>>

EditPolicy ==
    /\ Edit /\ policy' = ~policy /\ touched' = TRUE
    /\ UNCHANGED <<spec, want, statusVars, cm, index, orphans, snap, jobVars, mgrVars,
                   ctlVars, faults, readded>>

-----------------------------------------------------------------------------
(***************************************************************************)
(* The manager.  One tick: drop the owners that are no longer listed,      *)
(* merge what every ImageSet resolves to (one of them may fail to          *)
(* resolve), move entries without an owner to the orphans, flush.          *)
(***************************************************************************)
\* dropRemovedImageSetsLocked: entries whose every owner was removed are
\* forgotten, not staged as orphans: the controller reads their ConfigMap.
Dropped(S) == {d \in Dests : owners[d] # {} /\ owners[d] \cap S = {}}

\* mergeResolvedIntoConsolidated for every resolved ImageSet.
MergedOwners(S, R) ==
    [d \in Dests |-> ((owners[d] \cap S) \ R) \cup {s \in R : d \in want[s]}]

ManagerTick(S, R) ==
    LET own == MergedOwners(S, R)
        kept == [d \in Dests |-> IF d \in Dropped(S) THEN Absent ELSE mem[d]]
        cache == mirrored \ Dropped(S)
        new == {d \in Dests : kept[d] # Absent /\ own[d] = {}}
        next == [d \in Dests |->
                    IF own[d] = {} THEN Absent
                    ELSE IF kept[d] # Absent THEN kept[d]
                    ELSE IF d \in cache THEN "Mirrored" ELSE "Pending"]
    IN  /\ mpc = "idle"
        /\ mem' = next /\ owners' = own
        /\ mirrored' = cache \cup {d \in Dests : next[d] = "Mirrored"}
        /\ dirty' = (dirty \/ next # mem \/ own # owners)
        /\ mpc' = IF new # {} THEN "append" ELSE IF dirty' THEN "flush" ELSE "idle"
        /\ tick' = IF mpc' = "idle" THEN IdleTick
                   ELSE [sets |-> S, new |-> Only(kept, new), todo |-> S]
        /\ UNCHANGED <<userVars, statusVars, cm, index, orphans, snap, jobVars, ctlVars, edits,
                       readded>>

TickOK == ManagerTick(spec, spec) /\ UNCHANGED faults

\* An ImageSet whose resolve fails keeps the entries it owned.
TickResolveFails(s) ==
    /\ s \in spec /\ \E d \in Dests : (s \in owners[d]) # (d \in want[s])
    /\ ManagerTick(spec, spec \ {s}) /\ Fault

\* appendOrphans loads the ConfigMap, adds to it and saves it.
AppendOrphans ==
    /\ mpc = "append"
    /\ orphans' = [d \in Dests |-> IF tick.new[d] # Absent THEN tick.new[d] ELSE orphans[d]]
    /\ mpc' = "flush" /\ tick' = [tick EXCEPT !.new = NoState]
    /\ UNCHANGED <<userVars, statusVars, cm, index, snap, jobVars, mem, owners, mirrored, dirty,
                   ctlVars, edits, faults, readded>>

\* A failed append is a warning: the entries have left the working set.
AppendFails ==
    /\ mpc = "append" /\ Fault
    /\ mpc' = "flush" /\ tick' = [tick EXCEPT !.new = NoState]
    /\ UNCHANGED <<userVars, statusVars, cm, index, orphans, snap, jobVars, mem, owners,
                   mirrored, dirty, ctlVars, edits, readded>>

\* flushPartitionedState writes one ConfigMap per ImageSet of the spec it
\* read, in map order, and then the index of the shared destinations.
FlushState(s) ==
    /\ mpc = "flush" /\ s \in tick.todo
    /\ cm' = [cm EXCEPT ![s] = Only(mem, {d \in Dests : s \in owners[d]})]
    /\ tick' = [tick EXCEPT !.todo = @ \ {s}]
    /\ UNCHANGED <<userVars, statusVars, index, orphans, snap, jobVars, mem, owners, mirrored,
                   dirty, mpc, ctlVars, edits, faults, readded>>

FlushIndex ==
    /\ mpc = "flush" /\ tick.todo = {}
    /\ index' = [d \in Dests |-> IF Cardinality(owners[d]) > 1 THEN owners[d] ELSE {}]
    /\ dirty' = FALSE /\ mpc' = "idle" /\ tick' = IdleTick
    /\ UNCHANGED <<userVars, statusVars, cm, orphans, snap, jobVars, mem, owners, mirrored,
                   ctlVars, edits, faults, readded>>

\* A write that fails does not stop the others; the state stays dirty and the
\* next tick flushes again.
FlushFails(s) ==
    /\ mpc = "flush" /\ s \in tick.todo /\ Fault
    /\ mpc' = "idle" /\ tick' = IdleTick
    /\ \E T \in SUBSET (tick.todo \ {s}) :
          cm' = [t \in ImageSets |-> IF t \in T THEN Only(mem, {d \in Dests : t \in owners[d]})
                                     ELSE cm[t]]
    /\ UNCHANGED <<userVars, statusVars, index, orphans, snap, jobVars, mem, owners, mirrored,
                   dirty, ctlVars, edits, readded>>

\* A worker copies a pending image and its report is applied.
MirrorImage(d) ==
    /\ mpc = "idle" /\ mem[d] = "Pending"
    /\ registry' = registry \cup {d}
    /\ mem' = [mem EXCEPT ![d] = "Mirrored"] /\ mirrored' = mirrored \cup {d} /\ dirty' = TRUE
    /\ UNCHANGED <<userVars, statusVars, cm, index, orphans, snap, job, work, owners, mpc, tick,
                   ctlVars, edits, faults, readded>>

\* The drift sweep finds a Mirrored image gone.
DriftFound(d) ==
    /\ mpc = "idle" /\ mem[d] = "Mirrored" /\ d \notin registry
    /\ mem' = [mem EXCEPT ![d] = "Pending"] /\ mirrored' = mirrored \ {d} /\ dirty' = TRUE
    /\ UNCHANGED <<userVars, statusVars, cm, index, orphans, snap, jobVars, owners, mpc, tick,
                   ctlVars, edits, faults, readded>>

\* A restart at any point of a tick; loadPartitionedState prefers a Mirrored copy.
ManagerRestart ==
    /\ Fault
    /\ owners' = [d \in Dests |-> {s \in spec : cm[s][d] # Absent}]
    /\ mem' = [d \in Dests |-> IF owners'[d] = {} THEN Absent
                               ELSE IF \E s \in spec : cm[s][d] = "Mirrored" THEN "Mirrored"
                               ELSE "Pending"]
    /\ mirrored' = {} /\ dirty' = FALSE /\ mpc' = "idle" /\ tick' = IdleTick
    /\ UNCHANGED <<userVars, statusVars, cm, index, orphans, snap, jobVars, ctlVars, edits,
                   readded>>

-----------------------------------------------------------------------------
(***************************************************************************)
(* The controller: reconcileCleanup and the status update of Reconcile.    *)
(* c is the MirrorTarget it read, with the status it will write back.      *)
(***************************************************************************)
Goto(pc) == cpc' = pc

\* liveImages.needs over the state ConfigMaps of the listed ImageSets.
Live(exclude) == {d \in Dests : \E s \in c.spec \ {exclude} : cm[s][d] # Absent}
NeedsByName(live, d) == d \in live
Needs(live, d) ==
    \/ d \in live
    \/ /\ Kind[d] = "digest"
       /\ \E e \in live : Kind[e] # "tag" /\ Manifest[e] = Manifest[d]

\* createCleanupJob: a finished Job is deleted and reported as an error.
HasFailed(n) == job[n] \in {"failed", "retrying", "rerunning"}
Stale(n) == job[n] = "succeeded" \/ HasFailed(n)
CreateJob(n) ==
    IF job[n] # "none" THEN UNCHANGED <<job, work>>
    ELSE job' = [job EXCEPT ![n] = "starting"] /\ UNCHANGED work
DeleteJob(n) == job' = [job EXCEPT ![n] = "none"] /\ work' = [work EXCEPT ![n] = {}]
SetSnap(n, s) == snap' = [snap EXCEPT ![n] = [live |-> TRUE, state |-> s]]
DropSnap(n) == snap' = [snap EXCEPT ![n] = NoSnap]

\* isPendingCleanup: a Job that is gone while its snapshot remains is created
\* again, a Job with a failed pod is deleted; both stay pending.
GivesUp(n) == IF job[n] = "none" THEN snap[n].live ELSE job[n] \notin {"succeeded", "failed"}
MissesExpiry(n) == job[n] # "succeeded"
StillPending(n) == IF job[n] = "none" THEN snap[n].live ELSE job[n] # "succeeded"

\* Reconcile reads the MirrorTarget and checks every pending cleanup.
Start ==
    /\ cpc = "idle" /\ Goto("orphans") /\ touched' = FALSE
    /\ c' = [IdleC EXCEPT !.spec = spec, !.known = known, !.policy = policy,
                          !.pending = {n \in pending : StillPending(n)}, !.todo = known \ spec]
    /\ job' = [n \in Names |->
                 CASE n \in pending /\ job[n] = "none" /\ snap[n].live -> "starting"
                   [] n \in pending /\ HasFailed(n)                   -> "none"
                   [] OTHER                                           -> job[n]]
    /\ work' = [n \in Names |-> IF job'[n] = "none" THEN {} ELSE work[n]]
    /\ UNCHANGED <<spec, policy, want, statusVars, cm, index, orphans, snap, registry, mgrVars,
                   edits, faults, readded>>

\* reconcileOrphans up to the policy gate.
LoadOrphans ==
    /\ cpc = "orphans"
    /\ LET none == In(orphans) = {} \/ "orphans" \in c.pending
       IN  /\ Goto(IF none \/ ~c.policy THEN "removed" ELSE "queue")
           /\ c' = IF none \/ ~c.policy THEN c ELSE [c EXCEPT !.orphans = orphans]
           /\ orphans' = IF In(orphans) # {} /\ ~c.policy THEN NoState ELSE orphans
    /\ UNCHANGED <<userVars, statusVars, cm, index, snap, jobVars, mgrVars, edits, faults,
                   readded>>

\* Orphans that are needed again are left out; the rest become a snapshot and
\* a Job.
QueueOrphans ==
    /\ cpc = "queue"
    /\ LET gone == {d \in In(c.orphans) : ~Needs(Live("orphans"), d)}
       IN  CASE gone = {}        -> /\ Goto("clear") /\ c' = [c EXCEPT !.orphans = NoState]
                                    /\ UNCHANGED <<snap, job, work>>
             [] gone # {} /\ Stale("orphans") ->
                                    /\ Goto("removed") /\ c' = [c EXCEPT !.orphans = NoState]
                                    /\ DeleteJob("orphans") /\ DropSnap("orphans")
             [] OTHER            -> /\ Goto("clear")
                                    /\ c' = [c EXCEPT !.orphans = NoState,
                                                      !.pending = @ \cup {"orphans"}]
                                    /\ SetSnap("orphans", Only(c.orphans, gone))
                                    /\ CreateJob("orphans")
    /\ UNCHANGED <<userVars, statusVars, cm, index, orphans, registry, mgrVars, edits, faults,
                   readded>>

\* A failed snapshot or Job is logged and tried again by the next reconcile.
QueueOrphansFails ==
    /\ cpc = "queue" /\ Fault /\ Goto("removed") /\ c' = [c EXCEPT !.orphans = NoState]
    /\ \/ UNCHANGED snap
       \/ DropSnap("orphans")
    /\ UNCHANGED <<userVars, statusVars, cm, index, orphans, jobVars, mgrVars, edits, readded>>

\* The ConfigMap is deleted whatever it holds by now.
ClearOrphans ==
    /\ cpc = "clear" /\ Goto("removed")
    /\ orphans' = NoState
    /\ UNCHANGED <<userVars, statusVars, cm, index, snap, jobVars, mgrVars, c, edits, faults,
                   readded>>

\* reconcileRemovedImageSets takes each removed ImageSet once, unless it is
\* already pending.
ToPartition == IF c.policy THEN c.todo \ c.pending ELSE {}

\* partitionAndCreateCleanupJob up to the Job.
Partition(s) ==
    /\ cpc = "removed" /\ s \in ToPartition
    /\ LET shared == {d \in In(cm[s]) : Cardinality(index[d]) >= 2 \/ Needs(Live(s), d)}
           exclusive == In(cm[s]) \ shared
           here == [c EXCEPT !.name = s, !.shared = shared, !.todo = @ \ {s}]
       IN  CASE exclusive = {} -> /\ Goto("commit") /\ c' = here
                                  /\ UNCHANGED <<snap, job, work>>
             [] exclusive # {} /\ Stale(s)
                               -> /\ Goto("error") /\ UNCHANGED c
                                  /\ DeleteJob(s) /\ SetSnap(s, Only(cm[s], exclusive))
             [] OTHER          -> /\ Goto("commit") /\ c' = [here EXCEPT !.pending = @ \cup {s}]
                                  /\ SetSnap(s, Only(cm[s], exclusive)) /\ CreateJob(s)
    /\ UNCHANGED <<userVars, statusVars, cm, index, orphans, registry, mgrVars, edits, faults,
                   readded>>

PartitionFails(s) ==
    /\ cpc = "removed" /\ s \in ToPartition /\ Fault /\ Goto("error")
    /\ \/ UNCHANGED snap
       \/ DropSnap(s)
    /\ UNCHANGED <<userVars, statusVars, cm, index, orphans, jobVars, mgrVars, c, edits, readded>>

\* The rest of it: RemoveSharedRef, and the removed ImageSet's ConfigMap goes.
Commit ==
    /\ cpc = "commit" /\ Goto("removed")
    /\ index' = [d \in Dests |-> LET left == index[d] \ {c.name}
                                 IN  IF d \notin c.shared THEN index[d]
                                     ELSE IF Cardinality(left) > 1 THEN left ELSE {}]
    /\ cm' = [cm EXCEPT ![c.name] = NoState]
    /\ c' = [c EXCEPT !.shared = {}, !.name = "orphans"]
    /\ UNCHANGED <<userVars, statusVars, orphans, snap, jobVars, mgrVars, edits, faults, readded>>

\* Status().Update of the copy: it conflicts, and nothing of it is kept, when
\* the MirrorTarget was edited after it was read.
WriteStatus(k) ==
    /\ known' = IF touched THEN known ELSE k
    /\ pending' = IF touched THEN pending ELSE c.pending
    /\ cpc' = "idle" /\ c' = IdleC
    /\ UNCHANGED <<userVars, cm, index, orphans, snap, jobVars, mgrVars, edits, readded>>

\* The end of Reconcile: KnownImageSets only moves when nothing is pending.
Finish ==
    /\ cpc = "removed" /\ ToPartition = {}
    /\ WriteStatus(IF c.pending = {} THEN c.spec ELSE c.known) /\ UNCHANGED faults

\* Every early return of Reconcile with an error writes the status it has.
FinishWithError == cpc = "error" /\ WriteStatus(c.known) /\ UNCHANGED faults
LaterStepFails ==
    /\ cpc = "removed" /\ ToPartition = {} /\ c.known # c.spec
    /\ WriteStatus(c.known) /\ Fault

ControllerRestart ==
    /\ cpc # "idle" /\ Fault /\ cpc' = "idle" /\ c' = IdleC
    /\ UNCHANGED <<userVars, statusVars, cm, index, orphans, snap, jobVars, mgrVars, edits,
                   readded>>

-----------------------------------------------------------------------------
(***************************************************************************)
(* A cleanup Job's pod: cleanup.Run.  "retrying" and "rerunning" are a Job *)
(* with a failed pod behind it (status.failed > 0) whose next pod is about *)
(* to load the snapshot, or has.                                           *)
(***************************************************************************)
PodLoad(n) ==
    /\ job[n] \in {"starting", "retrying"}
    /\ job' = [job EXCEPT ![n] = IF @ = "starting" THEN "running" ELSE "rerunning"]
    /\ work' = [work EXCEPT ![n] = {d \in Dests : snap[n].state[d] = "Mirrored"}]
    /\ UNCHANGED <<userVars, statusVars, cm, index, orphans, snap, registry, mgrVars, ctlVars,
                   edits, faults, readded>>

\* DeleteManifest: a digest reference takes every tag of its manifest along.
Deletes(d) == IF Kind[d] = "digest" THEN {e \in Dests : Manifest[e] = Manifest[d]} ELSE {d}
DeleteAll(D) == registry' = registry \ UNION {Deletes(d) : d \in D}

\* Every image of the snapshot is deleted, and then the snapshot.
PodDone(n) ==
    /\ job[n] \in {"running", "rerunning"}
    /\ DeleteAll(work[n]) /\ DropSnap(n)
    /\ job' = [job EXCEPT ![n] = "succeeded"] /\ work' = [work EXCEPT ![n] = {}]
    /\ UNCHANGED <<userVars, statusVars, cm, index, orphans, mgrVars, ctlVars, edits, faults,
                   readded>>

\* Some deletion failed or the pod was lost: the snapshot stays, and the Job
\* starts another pod until its backoff limit is used up.
PodFails(n) ==
    /\ job[n] \in {"running", "rerunning"} /\ Fault
    /\ \E D \in SUBSET work[n] : DeleteAll(D)
    /\ \E st \in {"retrying", "failed"} : job' = [job EXCEPT ![n] = st]
    /\ work' = [work EXCEPT ![n] = {}]
    /\ UNCHANGED <<userVars, statusVars, cm, index, orphans, snap, mgrVars, ctlVars, edits,
                   readded>>

\* ttlSecondsAfterFinished.
JobExpires(n) ==
    /\ job[n] \in {"succeeded", "failed"} /\ DeleteJob(n)
    /\ UNCHANGED <<userVars, statusVars, cm, index, orphans, snap, registry, mgrVars, ctlVars,
                   edits, faults, readded>>

-----------------------------------------------------------------------------
User == (\E s \in ImageSets : EditTarget(s) \/ \E d \in Dests : EditImageSet(s, d)) \/ EditPolicy
Manager ==
    \/ TickOK \/ AppendOrphans \/ AppendFails \/ FlushIndex \/ ManagerRestart
    \/ \E s \in ImageSets : TickResolveFails(s) \/ FlushState(s) \/ FlushFails(s)
    \/ \E d \in Dests : MirrorImage(d) \/ DriftFound(d)
Reconcile ==
    \/ Start \/ LoadOrphans \/ QueueOrphans \/ QueueOrphansFails \/ ClearOrphans
    \/ Commit \/ Finish \/ FinishWithError \/ LaterStepFails \/ ControllerRestart
    \/ \E s \in ImageSets : Partition(s) \/ PartitionFails(s)
Job(n) == PodLoad(n) \/ PodDone(n) \/ PodFails(n) \/ JobExpires(n)
Next == User \/ Manager \/ Reconcile \/ \E n \in Names : Job(n)

Spec == Init /\ [][Next]_vars

ReconcileStep ==
    \/ Start \/ LoadOrphans \/ QueueOrphans \/ ClearOrphans
    \/ Commit \/ Finish \/ FinishWithError \/ \E s \in ImageSets : Partition(s)

\* The manager ticks every few seconds, workers and the drift sweep run on
\* their own, Reconcile is requeued for ever, and a Job's pod is run by the
\* cluster.
FairSpec ==
    /\ Spec
    /\ WF_vars(TickOK \/ AppendOrphans \/ FlushIndex \/ \E s \in ImageSets : FlushState(s))
    /\ WF_vars(\E d \in Dests : MirrorImage(d) \/ DriftFound(d))
    /\ WF_vars(ReconcileStep)
    /\ WF_vars(\E n \in Names : PodLoad(n) \/ PodDone(n))

-----------------------------------------------------------------------------
\* A cleanup Job never takes an image that some listed ImageSet has wanted all
\* along, whatever it shares with the images that go: the shared index, the live
\* state ConfigMaps and the digest rule of liveImages.needs together cover it,
\* across crashes, failed flushes and failed Jobs.
DeletesOnlyUnwanted ==
    [][\A d \in registry \ registry' : d \in Wanted => d \in readded]_vars

\* A cleanup leaves status.pendingCleanup only when its Job has consumed the
\* snapshot, or while the removal is still there to be detected again.
CleanupNotAbandoned ==
    [][\A n \in pending \ pending' : ~snap[n].live \/ n \in known' \ spec]_vars

\* Once the edits and faults stop, every pending cleanup ends, KnownImageSets
\* catches up with spec.imageSets, and whatever is wanted is in the registry,
\* an image that a Job deleted after it was added back included.
CleanupSettles == <>[](pending = {} /\ known = spec /\ Wanted \subseteq registry)
=============================================================================
