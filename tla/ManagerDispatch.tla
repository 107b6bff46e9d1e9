-------------------------- MODULE ManagerDispatch --------------------------
(***************************************************************************)
(* How the manager of one MirrorTarget gets images mirrored: the reconcile *)
(* loop, the worker pods it starts, the status API the workers report to,  *)
(* and what survives a crash of the manager.                               *)
(*                                                                         *)
(* The goroutines of the manager share its state under the mutex m.mu.  An *)
(* action is what one goroutine does without releasing or waiting for the  *)
(* mutex, so the interleavings are those of the code: worker reports are   *)
(* queued while a tick holds the mutex, and the mutex is free while pods   *)
(* are listed and deleted, while an annotation is cleared and while an     *)
(* ImageSet is resolved.                                                   *)
(*                                                                         *)
(* One ImageSet is modelled, so `owned' is the set of destinations with an *)
(* owner.  The ticker and the urgentFlush channel only decide when a tick  *)
(* starts; here it may start at any time.                                  *)
(***************************************************************************)
EXTENDS ImageLifecycle, Sequences, FiniteSets

CONSTANTS
    Dests,           \* the destination references
    BundleImages,    \* those that hold an operator bundle (IsBundleImage)
    Pods,            \* the names of worker pods
    NoDest, NoPod,   \* "no destination" and "no pod"
    Concurrency,     \* spec.concurrency
    BatchSize,       \* spec.batchSize
    StatusAttempts,  \* how often a worker sends one report
    PollEnabled,     \* spec.pollInterval is not "0"
    Events,          \* the outside events that may happen, see below
    MaxEvents,       \* bound: how many of them happen
    MaxEdits         \* bound: how many times the ImageSet's spec is edited

(***************************************************************************)
(* Events:                                                                 *)
(*   "crash"        the manager process dies and is restarted              *)
(*   "syncFails"    listing the pods at startup fails                      *)
(*   "podDies"      a worker pod ends as Failed or its object disappears   *)
(*   "podStuck"     a worker pod stays Pending past workerPendingTimeout   *)
(*   "reportLost"   a status request does not reach the manager            *)
(*   "ackLost"      a status request is handled, its answer is lost        *)
(*   "apiFails"     a Kubernetes call of a tick fails                      *)
(*   "deleteFails"  deleting a worker pod fails                            *)
(*   "resync"       the user sets the force-resync annotation              *)
(*   "recollect"    the user sets the recollect annotation                 *)
(*   "readd"        an edit brings an image back that was dropped before   *)
(***************************************************************************)
EventKinds == {"crash", "syncFails", "podDies", "podStuck", "reportLost",
               "ackLost", "apiFails", "deleteFails", "resync", "recollect",
               "readd"}

ASSUME DispatchAssumption ==
    /\ NoDest \notin Dests /\ NoPod \notin Pods
    /\ BundleImages \subseteq Dests
    /\ IsFiniteSet(Dests) /\ IsFiniteSet(Pods)
    /\ Concurrency \in Nat \ {0} /\ BatchSize \in Nat \ {0}
    /\ StatusAttempts \in Nat \ {0} /\ PollEnabled \in BOOLEAN
    /\ Events \subseteq EventKinds
    /\ MaxEvents \in Nat /\ MaxEdits \in Nat

VARIABLES
    (* outside the manager process *)
    wanted,       \* the destinations the ImageSet's spec resolves to
    dropped,      \* every destination an edit ever removed from wanted
    gen,          \* the ImageSet's metadata.generation
    observedGen,  \* its status.observedGeneration
    pollDue,      \* pollInterval has passed since status.lastSuccessfulPollTime
    annotations,  \* "resync" and "recollect", when set on the ImageSet
    persisted,    \* the ImageSet's <name>-images ConfigMap
    orphans,      \* destinations staged in the orphans ConfigMap
    registry,     \* the images present in the target registry
    pods,         \* the worker pods and the workers in them
    (* m's fields *)
    up,           \* the process runs
    mu,           \* who holds m.mu
    imageState, owned, mirrored, inProgress, stateDirty,
    statusQueue,
    (* locals of the goroutine that holds m.mu, and of the reconcile loop *)
    queued,       \* drainStatusQueueLocked: the reports still to apply
    rpc,          \* where the reconcile loop is
    snapshot,     \* cleanupFinishedWorkers: m.inProgress when it started
    finished,     \* ... and the verdict on the pod of each destination
    doomed,       \* ... and the pods it is going to delete
    tick,         \* what this tick read of the ImageSet
    pending,      \* reconcile: the images collected for dispatch
    budget        \* outside events left

podVars == <<pods, registry>>
specVars == <<wanted, dropped, gen, observedGen, pollDue, annotations>>
memVars == <<imageState, owned, mirrored, inProgress, stateDirty>>
tickVars == <<rpc, snapshot, finished, doomed, tick, pending>>
queueVars == <<statusQueue, queued, mu>>
vars == <<specVars, persisted, orphans, podVars, up, queueVars, memVars,
          tickVars, budget>>

-----------------------------------------------------------------------------
(* Types *)

PodPhase == {"absent", "Pending", "Stuck", "Running", "Succeeded", "Failed"}

Worker == [phase : PodPhase,
           batch : SUBSET Dests,          \* the destinations annotation
           todo : SUBSET Dests,           \* RunBatch: items not yet begun
           cur : Dests \cup {NoDest},     \* the item it is at
           step : {"next", "copy", "report", "acking"},
           err : Errors \cup {NoError},   \* the result it reports for cur
           tries : Nat,                   \* failed sends of that report
           acked : SUBSET Dests]          \* reports this manager answered 200

NoWorker == [phase |-> "absent", batch |-> {}, todo |-> {}, cur |-> NoDest,
             step |-> "next", err |-> NoError, tries |-> 0, acked |-> {}]

NewWorker(B) == [NoWorker EXCEPT !.phase = "Pending", !.batch = B, !.todo = B]

\* A pod that has ended: nothing of its worker is left.
Ended(w, phase) == [w EXCEPT !.phase = phase, !.todo = {}, !.cur = NoDest,
                             !.step = "next", !.err = NoError, !.tries = 0]

Report == [pod : Pods, dest : Dests, err : Errors \cup {NoError}]

Live(p) == pods[p].phase \in {"Pending", "Stuck", "Running"}

ReconcileStep == {"down", "idle", "listing", "applying", "resetting",
                  "deleting", "starting", "loading", "clearing", "resolving",
                  "processing", "dispatching", "flushing"}

Verdict == {"none", "missing", "Failed", "Succeeded"}

Tick == [gen : Nat, want : SUBSET Dests, notes : SUBSET {"resync", "recollect"},
         resolved : BOOLEAN]

NoTick == [gen |-> 0, want |-> {}, notes |-> {}, resolved |-> FALSE]

OutsideTypeOK ==
    /\ wanted \in SUBSET Dests /\ dropped \in SUBSET Dests
    /\ gen \in Nat /\ observedGen \in Nat /\ pollDue \in BOOLEAN
    /\ annotations \in SUBSET {"resync", "recollect"}
    /\ persisted \in [Dests -> Entry \cup {NoEntry}]
    /\ orphans \in SUBSET Dests /\ registry \in SUBSET Dests
    /\ budget \in Nat

PodsTypeOK == pods \in [Pods -> Worker]

MemTypeOK ==
    /\ up \in BOOLEAN /\ stateDirty \in BOOLEAN
    /\ imageState \in [Dests -> Entry \cup {NoEntry}]
    /\ owned \in SUBSET Dests /\ mirrored \in SUBSET Dests
    /\ inProgress \in [Dests -> Pods \cup {NoPod}]

QueueTypeOK ==
    /\ mu \in {"free", "reconcile", "handler"}
    /\ statusQueue \in Seq(Report) /\ queued \in Seq(Report)

TickTypeOK ==
    /\ rpc \in ReconcileStep
    /\ snapshot \in [Dests -> Pods \cup {NoPod}]
    /\ finished \in [Dests -> Verdict]
    /\ doomed \in SUBSET Pods /\ pending \in SUBSET Dests
    /\ tick \in Tick

(* One type invariant: every variable holds a value the Go declarations and
   the phases of reconcile allow. *)
TypeOK == OutsideTypeOK /\ PodsTypeOK /\ MemTypeOK /\ QueueTypeOK /\ TickTypeOK

Init ==
    /\ wanted \in SUBSET Dests /\ wanted # {} /\ dropped = {}
    /\ gen = 1 /\ observedGen = 0 /\ pollDue = PollEnabled
    /\ annotations = {}
    /\ persisted = [d \in Dests |-> NoEntry]
    /\ orphans = {} /\ registry = {}
    /\ pods = [p \in Pods |-> NoWorker]
    /\ up = TRUE /\ mu = "free" /\ stateDirty = FALSE
    /\ imageState = [d \in Dests |-> NoEntry]
    /\ owned = {} /\ mirrored = {}
    /\ inProgress = [d \in Dests |-> NoPod]
    /\ statusQueue = <<>> /\ queued = <<>>
    /\ rpc = "idle"
    /\ snapshot = [d \in Dests |-> NoPod]
    /\ finished = [d \in Dests |-> "none"]
    /\ doomed = {} /\ pending = {} /\ tick = NoTick
    /\ budget = MaxEvents

\* An outside event of this kind happens now.
Event(kind) == kind \in Events /\ budget > 0 /\ budget' = budget - 1

-----------------------------------------------------------------------------
(* The user and the registry *)

\* The spec is edited, so that it resolves to W.
EditSpec(W) ==
    /\ W # wanted /\ gen <= MaxEdits
    /\ \/ W \cap dropped = {} /\ UNCHANGED budget
       \/ W \cap dropped # {} /\ Event("readd")
    /\ wanted' = W /\ gen' = gen + 1
    /\ dropped' = dropped \cup (wanted \ W)
    /\ UNCHANGED <<observedGen, pollDue, annotations, persisted, orphans,
                   podVars, up, queueVars, memVars, tickVars>>

Annotate(note) ==
    /\ Event(note) /\ note \notin annotations
    /\ annotations' = annotations \cup {note}
    /\ UNCHANGED <<wanted, dropped, gen, observedGen, pollDue, persisted,
                   orphans, podVars, up, queueVars, memVars, tickVars>>

\* The MirrorTarget controller's cleanup Job deletes a staged orphan.
CleanupOrphan(d) ==
    /\ d \in orphans
    /\ orphans' = orphans \ {d} /\ registry' = registry \ {d}
    /\ UNCHANGED <<specVars, persisted, pods, up, queueVars, memVars,
                   tickVars, budget>>

\* Time passes: the retry time of a failed image is reached.  A worker sends
\* one report for at most StatusAttempts * StatusTimeout plus the pauses
\* (34 s), the shortest backoff is 54 s: no worker is still sending the report
\* of that failure.
BackoffElapses(d) ==
    /\ imageState[d].backingOff
    /\ \A p \in Pods : ~(pods[p].cur = d /\ pods[p].step \in {"report", "acking"})
    /\ imageState' = [imageState EXCEPT ![d].backingOff = FALSE]
    /\ UNCHANGED <<specVars, persisted, orphans, podVars, up, queueVars, owned,
                   mirrored, inProgress, stateDirty, tickVars, budget>>

\* Time passes: the poll interval is over.
PollElapses ==
    /\ PollEnabled /\ ~pollDue
    /\ pollDue' = TRUE
    /\ UNCHANGED <<wanted, dropped, gen, observedGen, annotations, persisted,
                   orphans, podVars, up, queueVars, memVars, tickVars, budget>>

-----------------------------------------------------------------------------
(* Worker pods: Worker.RunBatch and StatusClient *)

workerFrame == <<specVars, persisted, orphans, up, memVars, tickVars>>

PodStart(p) ==
    /\ pods[p].phase \in {"Pending", "Stuck"}
    /\ pods' = [pods EXCEPT ![p].phase = "Running"]
    /\ UNCHANGED <<workerFrame, queueVars, registry, budget>>

PodGetsStuck(p) ==
    /\ pods[p].phase = "Pending" /\ Event("podStuck")
    /\ pods' = [pods EXCEPT ![p].phase = "Stuck"]
    /\ UNCHANGED <<workerFrame, queueVars, registry>>

\* The pod fails (evicted, out of memory, past its deadline) or is deleted by
\* someone else.
PodDies(p) ==
    /\ Live(p) /\ Event("podDies")
    /\ \/ pods' = [pods EXCEPT ![p] = Ended(@, "Failed")]
       \/ pods' = [pods EXCEPT ![p] = NoWorker]
    /\ UNCHANGED <<workerFrame, queueVars, registry>>

PodFinishes(p) ==
    /\ pods[p].phase = "Running" /\ pods[p].step = "next" /\ pods[p].todo = {}
    /\ pods' = [pods EXCEPT ![p] = Ended(@, "Succeeded")]
    /\ UNCHANGED <<workerFrame, queueVars, registry, budget>>

\* queuedSuccess: the status queue holds a successful report for d.
QueuedSuccess(d) ==
    \E i \in DOMAIN statusQueue :
        statusQueue[i].dest = d /\ statusQueue[i].err = NoError

\* handleShouldMirror answers 410 Gone.
Gone(d) ==
    /\ up
    /\ \/ QueuedSuccess(d)
       \/ mu = "free" /\ imageState[d].state \in {"Absent", "Mirrored"}

\* ShouldMirror is true unless the manager answers 410: an unreachable or busy
\* manager is taken for a yes.
BeginItem(p, d) ==
    /\ pods[p].phase = "Running" /\ pods[p].step = "next" /\ d \in pods[p].todo
    /\ ~Gone(d)
    /\ pods' = [pods EXCEPT ![p].todo = @ \ {d}, ![p].cur = d, ![p].step = "copy"]
    /\ UNCHANGED <<workerFrame, queueVars, registry, budget>>

\* The answer 410 arrives, or is lost and the item is begun all the same.
SkipItem(p, d) ==
    /\ pods[p].phase = "Running" /\ pods[p].step = "next" /\ d \in pods[p].todo
    /\ Gone(d)
    /\ \/ /\ pods' = [pods EXCEPT ![p].todo = @ \ {d}]
          /\ UNCHANGED budget
       \/ /\ Event("reportLost")
          /\ pods' = [pods EXCEPT ![p].todo = @ \ {d}, ![p].cur = d,
                                  ![p].step = "copy"]
    /\ UNCHANGED <<workerFrame, queueVars, registry>>

\* Mutant: the copy is reported as a success without the verification.
CopyUnverified(p) ==
    /\ pods[p].phase = "Running" /\ pods[p].step = "copy"
    /\ \E landed \in {{}, {pods[p].cur}} : registry' = registry \cup landed
    /\ pods' = [pods EXCEPT ![p].step = "report", ![p].err = NoError]
    /\ UNCHANGED <<workerFrame, queueVars, budget>>

\* MirrorOne and MirrorChartOne up to the report: the copy and the
\* verification succeed, or the item fails, possibly after its copy landed.
CopyItem(p) ==
    /\ pods[p].phase = "Running" /\ pods[p].step = "copy"
    /\ \/ /\ registry' = registry \cup {pods[p].cur}
          /\ pods' = [pods EXCEPT ![p].step = "report", ![p].err = NoError]
       \/ \E e \in Errors, landed \in {{}, {pods[p].cur}} :
          /\ registry' = registry \cup landed
          /\ pods' = [pods EXCEPT ![p].step = "report", ![p].err = e]
    /\ UNCHANGED <<workerFrame, queueVars, budget>>

\* The worker is done with its current item.
NextItem(w) == [w EXCEPT !.cur = NoDest, !.step = "next", !.err = NoError,
                         !.tries = 0]

\* Mutant: the item is let go of before its report is repeated.
RetryWithoutItem(w) ==
    IF w.tries + 1 < StatusAttempts
    THEN [NextItem(w) EXCEPT !.step = "report", !.tries = w.tries + 1]
    ELSE NextItem(w)

\* One send of a report did not return 200: Report tries again or gives up.
SendFailed(w) ==
    IF w.tries + 1 < StatusAttempts
    THEN [w EXCEPT !.step = "report", !.tries = @ + 1]
    ELSE NextItem(w)

\* handleStatusUpdate: the report is queued; if nobody holds m.mu the handler
\* takes it and swaps the queue out to drain it, otherwise the holder or a
\* later tick will.
DeliverReport(p) ==
    LET r == [pod |-> p, dest |-> pods[p].cur, err |-> pods[p].err]
        q == Append(statusQueue, r)
    IN  /\ up /\ pods[p].phase = "Running" /\ pods[p].step = "report"
        /\ \/ mu = "free" /\ mu' = "handler" /\ queued' = q /\ statusQueue' = <<>>
           \/ mu # "free" /\ statusQueue' = q /\ UNCHANGED <<mu, queued>>
        /\ pods' = [pods EXCEPT ![p].step = "acking"]
        /\ UNCHANGED <<workerFrame, registry, budget>>

Acknowledged(w) == [NextItem(w) EXCEPT !.acked = @ \cup {w.cur}]

\* The handler answers 200 once it is through with its drain.
AckReport(p) ==
    /\ pods[p].step = "acking" /\ mu # "handler"
    /\ pods' = [pods EXCEPT ![p] = Acknowledged(@)]
    /\ UNCHANGED <<workerFrame, queueVars, registry, budget>>

LoseAck(p) ==
    /\ pods[p].step = "acking" /\ Event("ackLost")
    /\ pods' = [pods EXCEPT ![p] = SendFailed(@)]
    /\ UNCHANGED <<workerFrame, queueVars, registry>>

\* The request fails: lost on the way, or no manager is running.
LoseReport(p) ==
    /\ pods[p].phase = "Running" /\ pods[p].step = "report"
    /\ \/ up /\ Event("reportLost")
       \/ ~up /\ UNCHANGED budget
    /\ pods' = [pods EXCEPT ![p] = SendFailed(@)]
    /\ UNCHANGED <<workerFrame, queueVars, registry>>

-----------------------------------------------------------------------------
(* drainStatusQueueLocked and applyStatusLocked *)

\* Mutant: the flag is never taken back.
FlagStays(S) == mirrored

\* delete(m.mirrored, dest), wherever an entry leaves the state Mirrored.
Unflag(S) == mirrored \ S

\* Mutant: a report counts only if its pod is the one m.inProgress names.
ApplyTrackedOnly ==
    /\ queued # <<>>
    /\ LET r == Head(queued)
           st == IF r.err = NoError THEN "Mirrored" ELSE "Failed"
       IN  IF inProgress[r.dest] = r.pod
           THEN /\ imageState' = [imageState EXCEPT ![r.dest] =
                                     SetImageState(@, st, r.err)]
                /\ inProgress' = [inProgress EXCEPT ![r.dest] = NoPod]
           ELSE UNCHANGED <<imageState, inProgress>>
    /\ queued' = Tail(queued) /\ stateDirty' = TRUE
    /\ mu' = IF mu = "handler" /\ Len(queued) = 1 THEN "free" ELSE mu
    /\ UNCHANGED <<specVars, persisted, orphans, podVars, up, statusQueue,
                   owned, mirrored, tickVars, budget>>

\* One queued report is applied.  A success sets the fast-path flag of a known
\* destination only.  The pod that sent the report is not compared with the
\* pod m.inProgress names.
ApplyStatus ==
    /\ queued # <<>>
    /\ LET r == Head(queued)
           e == imageState[r.dest]
           st == IF r.err = NoError THEN "Mirrored" ELSE "Failed"
       IN  /\ imageState' = [imageState EXCEPT ![r.dest] =
                                SetImageState(e, st, r.err)]
           /\ mirrored' = IF st = "Mirrored"
                          THEN mirrored \cup {d \in {r.dest} : e.state # "Absent"}
                          ELSE Unflag({d \in {r.dest} : ChangesState(e, st, r.err)})
           /\ stateDirty' = (stateDirty \/ ChangesState(e, st, r.err))
           /\ inProgress' = [inProgress EXCEPT ![r.dest] = NoPod]
    /\ queued' = Tail(queued)
    /\ mu' = IF mu = "handler" /\ Len(queued) = 1 THEN "free" ELSE mu
    /\ UNCHANGED <<specVars, persisted, orphans, podVars, up, statusQueue,
                   owned, tickVars, budget>>

\* The reconcile loop takes m.mu and swaps the queue out.
LockAndDrain ==
    /\ mu = "free" /\ mu' = "reconcile"
    /\ queued' = statusQueue /\ statusQueue' = <<>>

-----------------------------------------------------------------------------
(* reconcile: cleanupFinishedWorkers *)

tickFrame == <<persisted, orphans, registry, up>>

CleanupSnapshot ==
    /\ rpc = "idle" /\ mu = "free"
    /\ snapshot' = inProgress /\ rpc' = "listing"
    /\ UNCHANGED <<specVars, tickFrame, pods, queueVars, memVars, finished,
                   doomed, tick, pending, budget>>

\* Mutants: a pod that is merely Pending counts as stuck; a pod that is gone
\* from the listing is overlooked.
JudgePendingStuck(p) ==
    CASE p = NoPod -> "none"
      [] p # NoPod /\ pods[p].phase = "absent" -> "missing"
      [] p # NoPod /\ pods[p].phase \in {"Pending", "Stuck", "Failed"} -> "Failed"
      [] p # NoPod /\ pods[p].phase = "Succeeded" -> "Succeeded"
      [] OTHER -> "none"

OverlookMissing(p) ==
    CASE p # NoPod /\ pods[p].phase \in {"Stuck", "Failed"} -> "Failed"
      [] p # NoPod /\ pods[p].phase = "Succeeded" -> "Succeeded"
      [] OTHER -> "none"

\* The verdict on the pod a destination was in progress on, from the listing.
JudgePod(p) ==
    CASE p = NoPod -> "none"
      [] p # NoPod /\ pods[p].phase = "absent" -> "missing"
      [] p # NoPod /\ pods[p].phase \in {"Stuck", "Failed"} -> "Failed"
      [] p # NoPod /\ pods[p].phase = "Succeeded" -> "Succeeded"
      [] OTHER -> "none"

\* The pods are listed.  Finished pods are deleted whether tracked or not;
\* stuck ones only when they are tracked.
CleanupList ==
    /\ rpc = "listing"
    /\ finished' = [d \in Dests |-> JudgePod(snapshot[d])]
    /\ doomed' = {p \in Pods : \/ pods[p].phase \in {"Succeeded", "Failed"}
                               \/ /\ pods[p].phase = "Stuck"
                                  /\ \E d \in Dests : snapshot[d] = p}
    /\ rpc' = IF \A d \in Dests : JudgePod(snapshot[d]) = "none"
              THEN "deleting" ELSE "applying"
    /\ UNCHANGED <<specVars, tickFrame, pods, queueVars, memVars, snapshot,
                   tick, pending, budget>>

CleanupListFails ==
    /\ rpc = "listing" /\ Event("apiFails")
    /\ rpc' = "starting" /\ snapshot' = [d \in Dests |-> NoPod]
    /\ UNCHANGED <<specVars, tickFrame, pods, queueVars, memVars, finished,
                   doomed, tick, pending>>

CleanupLock ==
    /\ rpc = "applying" /\ LockAndDrain /\ rpc' = "resetting"
    /\ UNCHANGED <<specVars, tickFrame, pods, memVars, snapshot, finished,
                   doomed, tick, pending, budget>>

\* Mutant: the second look at m.inProgress is left out.
NoSecondLook(d) == finished[d] # "none"

\* The destinations that are still in progress on the pod that was judged.
StillThere(d) == finished[d] # "none" /\ inProgress[d] = snapshot[d]

ResetByCleanup(d) == /\ StillThere(d) /\ finished[d] = "Failed"
                     /\ ChangesState(imageState[d], "Pending", NoError)

CleanupApply ==
    /\ rpc = "resetting" /\ mu = "reconcile" /\ queued = <<>>
    /\ inProgress' = [d \in Dests |->
                        IF StillThere(d) THEN NoPod ELSE inProgress[d]]
    /\ imageState' = [d \in Dests |->
                        IF ResetByCleanup(d)
                        THEN SetImageState(imageState[d], "Pending", NoError)
                        ELSE imageState[d]]
    /\ mirrored' = Unflag({d \in Dests : ResetByCleanup(d)})
    /\ stateDirty' = (stateDirty \/ \E d \in Dests : ResetByCleanup(d))
    /\ mu' = "free" /\ rpc' = "deleting"
    /\ UNCHANGED <<specVars, tickFrame, pods, statusQueue, queued, owned,
                   snapshot, finished, doomed, tick, pending, budget>>

\* The doomed pods are deleted; the result of a delete call is ignored.
CleanupDelete(kept) ==
    /\ rpc = "deleting"
    /\ \/ kept = {} /\ UNCHANGED budget
       \/ kept # {} /\ Event("deleteFails")
    /\ pods' = [p \in Pods |-> IF p \in doomed \ kept THEN NoWorker ELSE pods[p]]
    /\ rpc' = "starting" /\ doomed' = {}
    /\ snapshot' = [d \in Dests |-> NoPod]
    /\ finished' = [d \in Dests |-> "none"]
    /\ UNCHANGED <<specVars, tickFrame, queueVars, memVars, tick, pending>>

-----------------------------------------------------------------------------
(* reconcile: Phases A to H *)

ReconcileLock ==
    /\ rpc = "starting" /\ LockAndDrain /\ rpc' = "loading"
    /\ UNCHANGED <<specVars, tickFrame, pods, memVars, snapshot, finished,
                   doomed, tick, pending, budget>>

\* Getting the MirrorTarget or listing the ImageSets fails: the tick is over.
ReconcileReadFails ==
    /\ rpc = "loading" /\ mu = "reconcile" /\ queued = <<>> /\ Event("apiFails")
    /\ mu' = "free" /\ rpc' = "idle"
    /\ UNCHANGED <<specVars, tickFrame, pods, statusQueue, queued, memVars,
                   snapshot, finished, doomed, tick, pending>>

\* shouldResolve, for the ImageSet as this tick read it.
ShouldResolve(own, t) ==
    own = {} \/ "recollect" \in t.notes \/ t.gen > observedGen \/ pollDue

\* What follows when the force-resync annotation is dealt with: the ImageSet is
\* resolved with m.mu released, or the tick goes on.
GoOn(own, t) ==
    IF ShouldResolve(own, t)
    THEN rpc' = "resolving" /\ mu' = "free"
    ELSE rpc' = "processing" /\ mu' = "reconcile"

NothingLoaded == [d \in Dests |-> NoEntry]

\* Phase A, and Phase B up to the first release of m.mu.  The state is loaded
\* whenever it is empty; when the ConfigMap cannot be read, the tick goes on
\* with nothing loaded.
ReconcileLoad(found) ==
    LET empty == \A d \in Dests : imageState[d].state = "Absent"
        base == IF empty THEN found ELSE imageState
        own == IF empty THEN {d \in Dests : found[d].state # "Absent"} ELSE owned
        t == [gen |-> gen, want |-> wanted, notes |-> annotations,
              resolved |-> FALSE]
        Resets(d) == /\ "resync" \in annotations
                     /\ d \in own /\ inProgress[d] = NoPod
                     /\ base[d].state # "Absent"
                     /\ base[d] # [NewEntry EXCEPT !.permanentlyFailed =
                                       base[d].permanentlyFailed]
    IN  /\ rpc = "loading" /\ mu = "reconcile" /\ queued = <<>>
        /\ \/ found = persisted /\ UNCHANGED budget
           \/ empty /\ found = NothingLoaded /\ Event("apiFails")
        /\ imageState' = [d \in Dests |->
                            IF Resets(d) THEN FreshCycle(base[d]) ELSE base[d]]
        /\ mirrored' = Unflag({d \in Dests : Resets(d)})
        /\ stateDirty' = (stateDirty \/ \E d \in Dests : Resets(d))
        /\ owned' = own /\ tick' = t
        /\ IF "resync" \in annotations
           THEN rpc' = "clearing" /\ mu' = "free"
           ELSE GoOn(own, t)
        /\ UNCHANGED <<specVars, tickFrame, pods, statusQueue, queued,
                       inProgress, snapshot, finished, doomed, pending>>

\* clearForceResyncAnnotation, whose failure is only logged.
ClearResync ==
    /\ rpc = "clearing" /\ mu = "free"
    /\ \/ annotations' = annotations \ {"resync"} /\ UNCHANGED budget
       \/ Event("apiFails") /\ UNCHANGED annotations
    /\ GoOn(owned, tick)
    /\ UNCHANGED <<wanted, dropped, gen, observedGen, pollDue, tickFrame, pods,
                   statusQueue, queued, memVars, snapshot, finished, doomed,
                   tick, pending>>

\* resolveImageSet returns and the result is merged: new destinations are
\* added, known ones keep their life cycle, dropped ones lose their owner.  The
\* resolve drops the recollect annotation itself (a failure is only logged).
\* The result differs from the present entries unless those are the wanted ones
\* and each is Mirrored or as good as new.
ResolveDone ==
    LET Recycled(d) == /\ "recollect" \in tick.notes
                       /\ d \in tick.want /\ inProgress[d] = NoPod
                       /\ imageState[d].state = "Failed"
        Same(d) == \/ imageState[d].state = "Mirrored"
                   \/ imageState[d] \in {[NewEntry EXCEPT !.permanentlyFailed = pf] :
                                             pf \in BOOLEAN}
    IN  /\ rpc = "resolving" /\ mu = "free"
        /\ \/ /\ annotations' = annotations \ (tick.notes \cap {"recollect"})
              /\ UNCHANGED budget
           \/ /\ "recollect" \in tick.notes /\ Event("apiFails")
              /\ UNCHANGED annotations
        /\ imageState' = [d \in Dests |->
                CASE d \in tick.want /\ imageState[d].state = "Absent" -> NewEntry
                  [] Recycled(d) -> FreshCycle(imageState[d])
                  [] OTHER -> imageState[d]]
        /\ owned' = tick.want
        /\ tick' = [tick EXCEPT !.resolved = TRUE]
        /\ stateDirty' = (stateDirty \/ owned = {} \/ owned # tick.want
                            \/ \E d \in tick.want : ~Same(d))
        /\ mu' = "reconcile" /\ rpc' = "processing"
        /\ UNCHANGED <<wanted, dropped, gen, observedGen, pollDue, tickFrame,
                       pods, statusQueue, queued, mirrored, inProgress,
                       snapshot, finished, doomed, pending>>

\* resolveImageSet returns an error: nothing is merged or recorded.
ResolveFails ==
    /\ rpc = "resolving" /\ mu = "free" /\ Event("apiFails")
    /\ mu' = "reconcile" /\ rpc' = "processing"
    /\ UNCHANGED <<specVars, tickFrame, pods, statusQueue, queued, memVars,
                   snapshot, finished, doomed, tick, pending>>

\* Phase D.  Entries without an owner are staged as orphans (a failure to
\* write that ConfigMap is only logged) and leave the working set, but their
\* fast-path flag stays.
ProcessEntries ==
    LET orphaned == {d \in Dests : imageState[d].state # "Absent"} \ owned
    IN  /\ rpc = "processing" /\ mu = "reconcile"
        /\ \/ orphans' = orphans \cup orphaned /\ UNCHANGED budget
           \/ orphaned # {} /\ Event("apiFails") /\ UNCHANGED orphans
        /\ imageState' = [d \in Dests |->
                IF d \in orphaned THEN NoEntry
                ELSE ProcessEntry(imageState[d], d \in mirrored /\ d \in owned)]
        /\ mirrored' = mirrored \cup {d \in owned : imageState[d].state = "Mirrored"}
        /\ pending' = {d \in owned : /\ imageState[d].state = "Pending"
                                     /\ d \notin mirrored
                                     /\ inProgress[d] = NoPod}
        /\ stateDirty' = (stateDirty \/ orphaned # {} \/
                            \E d \in owned : imageState'[d] # imageState[d])
        /\ rpc' = "dispatching"
        /\ UNCHANGED <<specVars, persisted, registry, up, pods, queueVars,
                       owned, inProgress, snapshot, finished, doomed, tick>>

\* Mutant: only pods that run count, not those still to be scheduled.
RunningPods == {p \in Pods : pods[p].phase = "Running"}

\* activePods: the pods m.inProgress names.
ActivePods == {inProgress[d] : d \in Dests} \ {NoPod}

\* The next BatchSize images of pendingImages, bundle images first.
Batches ==
    {B \in SUBSET pending :
        /\ B # {}
        /\ \/ Cardinality(B) = BatchSize
           \/ B = pending /\ Cardinality(B) < BatchSize
        /\ B \ BundleImages # {} => pending \cap BundleImages \subseteq B}

\* A pod name nothing refers to: generated names are never used twice, so a
\* name may stand for another pod once the last trace of the first is gone.
FreshPod(p) ==
    /\ pods[p].phase = "absent"
    /\ p \notin ActivePods
    /\ \A i \in DOMAIN statusQueue : statusQueue[i].pod # p
    /\ \A i \in DOMAIN queued : queued[i].pod # p

\* Phase E, one batch: startWorkerBatch creates the pod.
StartBatch(B, p) ==
    /\ rpc = "dispatching" /\ mu = "reconcile"
    /\ Cardinality(ActivePods) < Concurrency
    /\ B \in Batches /\ FreshPod(p)
    /\ pods' = [pods EXCEPT ![p] = NewWorker(B)]
    /\ inProgress' = [d \in Dests |-> IF d \in B THEN p ELSE inProgress[d]]
    /\ pending' = pending \ B
    /\ UNCHANGED <<specVars, tickFrame, queueVars, imageState, owned, mirrored,
                   stateDirty, rpc, snapshot, finished, doomed, tick, budget>>

\* Creating the pod fails (or the model has no pod name left): this batch has
\* to wait for another tick.
StartBatchFails(B) ==
    /\ rpc = "dispatching" /\ mu = "reconcile"
    /\ Cardinality(ActivePods) < Concurrency
    /\ B \in Batches
    /\ \/ Event("apiFails")
       \/ (\A p \in Pods : ~FreshPod(p)) /\ UNCHANGED budget
    /\ pending' = pending \ B
    /\ UNCHANGED <<specVars, tickFrame, pods, queueVars, memVars, rpc, snapshot,
                   finished, doomed, tick>>

\* Mutant: the queue is emptied, its reports are not applied.
EndWithoutDrain ==
    /\ rpc = "dispatching" /\ mu = "reconcile"
    /\ pending = {} \/ Cardinality(ActivePods) >= Concurrency
    /\ statusQueue' = <<>>
    /\ pending' = {} /\ rpc' = "flushing"
    /\ UNCHANGED <<specVars, tickFrame, pods, queued, mu, memVars, snapshot,
                   finished, doomed, tick, budget>>

\* Phase E is over; Phase F begins by draining the queue once more.
EndDispatch ==
    /\ rpc = "dispatching" /\ mu = "reconcile"
    /\ pending = {} \/ Cardinality(ActivePods) >= Concurrency
    /\ queued' = statusQueue /\ statusQueue' = <<>>
    /\ pending' = {} /\ rpc' = "flushing"
    /\ UNCHANGED <<specVars, tickFrame, pods, mu, memVars, snapshot, finished,
                   doomed, tick, budget>>

\* Phase F writes the ConfigMap (saved), Phase G the status (recorded): a
\* resolve is recorded whether or not the write before it succeeded, and with
\* the generation the ImageSet has by now.
Flush(saved, recorded) ==
    /\ rpc = "flushing" /\ mu = "reconcile" /\ queued = <<>>
    /\ saved \/ stateDirty
    /\ recorded \/ tick.resolved
    /\ IF saved /\ recorded THEN UNCHANGED budget ELSE Event("apiFails")
    /\ persisted' = IF saved /\ stateDirty
                    THEN [d \in Dests |-> IF d \in owned THEN imageState[d]
                                          ELSE NoEntry]
                    ELSE persisted
    /\ stateDirty' = ~saved
    /\ IF recorded /\ tick.resolved
       THEN observedGen' = gen /\ pollDue' = FALSE
       ELSE UNCHANGED <<observedGen, pollDue>>
    /\ mu' = "free" /\ rpc' = "idle" /\ tick' = NoTick
    /\ UNCHANGED <<wanted, dropped, gen, annotations, orphans, registry, up,
                   pods, statusQueue, queued, imageState, owned, mirrored,
                   inProgress, snapshot, finished, doomed, pending>>

-----------------------------------------------------------------------------
(* Crash and restart of the manager *)

Crash ==
    /\ up /\ Event("crash")
    /\ up' = FALSE /\ mu' = "free" /\ rpc' = "down"
    /\ imageState' = [d \in Dests |-> NoEntry]
    /\ owned' = {} /\ mirrored' = {} /\ stateDirty' = FALSE
    /\ inProgress' = [d \in Dests |-> NoPod]
    /\ statusQueue' = <<>> /\ queued' = <<>>
    /\ snapshot' = [d \in Dests |-> NoPod]
    /\ finished' = [d \in Dests |-> "none"]
    /\ doomed' = {} /\ pending' = {} /\ tick' = NoTick
    /\ pods' = [p \in Pods |->
                  IF pods[p].step = "acking"
                  THEN [SendFailed(pods[p]) EXCEPT !.acked = {}]
                  ELSE [pods[p] EXCEPT !.acked = {}]]
    /\ UNCHANGED <<specVars, persisted, orphans, registry>>

\* syncInProgressFromPods: every destination in the annotation of a live pod
\* is taken to be in progress there (a later pod of the listing overrides an
\* earlier one), finished pods are deleted.
SyncFromPods(ip) ==
    /\ \A d \in Dests :
         LET running == {p \in Pods : Live(p) /\ d \in pods[p].batch}
         IN  ip[d] \in (IF running = {} THEN {NoPod} ELSE running)
    /\ inProgress' = ip
    /\ pods' = [p \in Pods |-> IF Live(p) THEN pods[p] ELSE NoWorker]
    /\ UNCHANGED budget

Restart(ip) ==
    /\ rpc = "down"
    /\ \/ SyncFromPods(ip)
       \/ /\ ip = inProgress /\ Event("syncFails")
          /\ UNCHANGED <<inProgress, pods>>
    /\ up' = TRUE /\ rpc' = "idle"
    /\ UNCHANGED <<specVars, persisted, orphans, registry, queueVars,
                   imageState, owned, mirrored, stateDirty, snapshot, finished,
                   doomed, tick, pending>>

-----------------------------------------------------------------------------
(* The specification *)

OutsideStep ==
    \/ \E W \in SUBSET Dests : EditSpec(W)
    \/ \E note \in {"resync", "recollect"} : Annotate(note)
    \/ PollElapses

WorkerStep(p) ==
    \/ PodStart(p)
    \/ PodFinishes(p)
    \/ \E d \in Dests : BeginItem(p, d) \/ SkipItem(p, d)
    \/ CopyItem(p)
    \/ DeliverReport(p)
    \/ AckReport(p)

WorkerFault(p) == PodGetsStuck(p) \/ PodDies(p) \/ LoseAck(p) \/ LoseReport(p)

ReconcileStepDone ==
    \/ CleanupSnapshot \/ CleanupList \/ CleanupListFails \/ CleanupLock
    \/ CleanupApply
    \/ \E kept \in SUBSET doomed : CleanupDelete(kept)
    \/ ReconcileLock \/ ReconcileReadFails
    \/ \E found \in {persisted, NothingLoaded} : ReconcileLoad(found)
    \/ ClearResync
    \/ ResolveDone \/ ResolveFails \/ ProcessEntries
    \/ \E B \in SUBSET Dests, p \in Pods : StartBatch(B, p)
    \/ \E B \in SUBSET Dests : StartBatchFails(B)
    \/ EndDispatch
    \/ \E saved, recorded \in BOOLEAN : Flush(saved, recorded)

RestartStep == \E ip \in [Dests -> Pods \cup {NoPod}] : Restart(ip)

Next ==
    \/ OutsideStep
    \/ \E d \in Dests : CleanupOrphan(d)
    \/ \E d \in Dests : BackoffElapses(d)
    \/ \E p \in Pods : WorkerStep(p)
    \/ \E p \in Pods : WorkerFault(p)
    \/ ApplyStatus
    \/ ReconcileStepDone
    \/ Crash
    \/ RestartStep

Spec == Init /\ [][Next]_vars

\* The processes the code keeps running: the loop of Run, the handlers and
\* drains, every worker pod, the restart of the manager's Deployment, and the
\* clock.  The user, the faults and the cleanup Job promise nothing.
Fairness ==
    /\ WF_vars(ReconcileStepDone)
    /\ WF_vars(ApplyStatus)
    /\ WF_vars(RestartStep)
    /\ \A p \in Pods : WF_vars(WorkerStep(p))
    /\ \A p \in Pods : WF_vars(~up /\ LoseReport(p))
    /\ \A d \in Dests : WF_vars(BackoffElapses(d))
    /\ WF_vars(PollElapses)

FairSpec == Spec /\ Fairness

-----------------------------------------------------------------------------
(* Properties *)

Queued(r) == \/ \E i \in DOMAIN statusQueue : statusQueue[i] = r
             \/ \E i \in DOMAIN queued : queued[i] = r

(* A report that was answered with 200 is never forgotten: while the manager
   still has the image in progress on the pod that sent it, the report is
   waiting to be applied.  So cleanupFinishedWorkers, which drains the queue
   before it acts, never takes the pod's end for a missing report. *)
AckedNotLost ==
    \A p \in Pods, d \in Dests :
        d \in pods[p].acked /\ inProgress[d] = p
            => \E err \in Errors \cup {NoError} :
                   Queued([pod |-> p, dest |-> d, err |-> err])

\* The images the worker in pod p is still going to copy, or is copying.
Working(p) ==
    IF Live(p)
    THEN pods[p].todo \cup {d \in {pods[p].cur} : pods[p].step = "copy"}
    ELSE {}

(* No image is being mirrored, or about to be, by two worker pods at once:
   Phase E only dispatches what m.inProgress does not name. *)
NoDoubleDispatch ==
    \A p, q \in Pods : p # q => Working(p) \cap Working(q) = {}

(* At most Concurrency pods have work to do: the default of one keeps Quay
   from corrupting concurrent uploads of one blob. *)
WithinConcurrency ==
    Cardinality({p \in Pods : Working(p) # {}}) <= Concurrency

(* What the manager calls Mirrored is in the target registry, as long as the
   ImageSet asks for it: reports, restarts and orphan cleanup included. *)
MirroredPresent ==
    \A d \in wanted : imageState[d].state = "Mirrored" => d \in registry

(* Phase D's defensive sync never turns an entry into Mirrored that nobody has
   confirmed: the fast-path flag of a known entry is set only while the entry
   is Mirrored. *)
NoUncheckedFlip ==
    [][rpc = "processing" =>
          \A d \in wanted : imageState[d].state # "Mirrored"
                               => imageState'[d].state # "Mirrored"]_vars

(* A success report that is applied takes effect: an image the ImageSet asks
   for, and that is recorded in the ImageSet's ConfigMap, becomes Mirrored.
   The report was answered with 200, so the worker will not send it again. *)
ReportsTakeEffect ==
    [][queued # <<>> /\ queued' = Tail(queued) /\ up' =>
          \A d \in wanted :
              /\ Head(queued).dest = d /\ Head(queued).err = NoError
              /\ persisted[d].state # "Absent"
              => imageState'[d].state = "Mirrored"]_vars

(* cleanupFinishedWorkers returns an image to Pending only if no result of it
   is known: never one that is Mirrored, never one that was given up. *)
CleanupKeepsResults ==
    [][rpc = "resetting" /\ rpc' = "deleting" =>
          \A d \in Dests : imageState[d].state \in {"Mirrored", "Failed"}
                              => imageState'[d] = imageState[d]]_vars

(* An image whose retry budget is used up is not dispatched again until a
   recollect or a force-resync gives it a fresh cycle. *)
NoDispatchPastBudget ==
    [][\A d \in Dests :
          rpc = "dispatching" /\ inProgress'[d] \notin {NoPod, inProgress[d]}
              => imageState[d].retryCount < MaxRetries]_vars

(* Every image the ImageSet asks for is in the end Mirrored or given up, and
   stays so: no report, skip, dead pod, failed call or restart leaves it
   Pending for ever. *)
EverythingSettles ==
    \A d \in Dests :
        <>[](d \in wanted => \/ imageState[d].state = "Mirrored"
                             \/ imageState[d].permanentlyFailed)

=============================================================================
