----------------------------- MODULE DriftSweep -----------------------------
(***************************************************************************)
(* The drift sweep of the manager: a background goroutine that checks every *)
(* Mirrored and every permanently failed image against the target registry, *)
(* the upstream tag and the signature at the destination, while ticks,      *)
(* worker reports, resolves and restarts change the same entries.           *)
(*                                                                         *)
(* A check reads the entry under m.mu, talks to the registries without it,  *)
(* and applies what it learnt under m.mu again.  Everything a tick does     *)
(* from Phase C on happens under m.mu, so it is one action here; how pods   *)
(* are tracked and reports queued is the subject of ManagerDispatch, of     *)
(* which this module keeps that an image is dispatched, copied, reported.   *)
(***************************************************************************)
EXTENDS ImageLifecycle, FiniteSets

CONSTANTS
    Dests,       \* the destination references
    Sources,     \* the sources the spec may name for a destination
    Digests,     \* the contents a tag may point to
    NoDigest,    \* no content, no digest
    SweepSlots,  \* driftSweepConcurrency
    Events,      \* the outside events that may happen, see below
    MaxEvents,   \* bound: how many of them happen
    MaxFailures  \* bound: an image that has failed this often is swept no more

(***************************************************************************)
(* Events:                                                                 *)
(*   "moves"      an upstream tag moves                                    *)
(*   "lost"       an image disappears from the target registry             *)
(*   "copyFails"  a worker reports an error                                *)
(*   "podDies"    a worker ends without a report                           *)
(*   "probeFails" a request of a check fails, or runs into its timeout     *)
(*   "apiFails"   a flush or a dispatch fails                              *)
(*   "edit"       the spec drops an image or changes its source            *)
(*   "resync"     the user forces a resync                                 *)
(*   "restart"    the manager crashes and is started again                 *)
(*   "signing"    an image is signed at its destination, or loses that     *)
(*   "require"    requireSignedImages is switched                          *)
(***************************************************************************)
EventKinds == {"moves", "lost", "copyFails", "podDies", "probeFails",
               "apiFails", "edit", "resync", "restart", "signing", "require"}

ASSUME SweepAssumption ==
    /\ NoDigest \notin Digests \cup Sources
    /\ Sources # {} /\ Digests # {}
    /\ SweepSlots \in Nat \ {0}
    /\ Events \subseteq EventKinds /\ MaxEvents \in Nat /\ MaxFailures \in Nat

VARIABLES
    (* outside the manager *)
    tagged,      \* the additional images that are referenced by a tag; the
                 \* others are pinned to a digest by source and destination
    wanted,      \* the source the spec names for a destination, or NoDigest
    upstream,    \* the content each source has for a destination now
    registry,    \* the content at each destination of the target registry
    signed,      \* the destinations with a valid signature
    required,    \* spec.mirror.requireSignedImages
    persisted,   \* the ImageSet's <name>-images ConfigMap
    job,         \* the worker that is at a destination
    (* m's fields *)
    imageState, owned, mirrored, stateDirty,
    (* the sweep *)
    due,         \* checkExistInterval has passed since m.lastDriftCheck
    sweep,       \* m.driftSweepRunning and the locals of runDriftSweep
    check,       \* the checkDriftAttempt goroutine of each destination
    budget       \* outside events left

outsideVars == <<tagged, wanted, upstream, registry, signed, required>>
memVars == <<imageState, owned, mirrored, stateDirty>>
sweepVars == <<due, sweep, check>>
vars == <<outsideVars, persisted, job, memVars, sweepVars, budget>>

-----------------------------------------------------------------------------
(* Types *)

Content == Digests \cup {NoDigest}

\* An entry with the fields the drift check reads and writes.
Image == [state : EntryState, lastError : Errors \cup {NoError},
          retryCount : Nat, permanentlyFailed : BOOLEAN, backingOff : BOOLEAN,
          source : Sources, sourceDigest : Content, verified : BOOLEAN]

NewImage(s) == [state |-> "Pending", lastError |-> NoError, retryCount |-> 0,
                permanentlyFailed |-> FALSE, backingOff |-> FALSE,
                source |-> s, sourceDigest |-> NoDigest, verified |-> FALSE]

NoImage == NoEntry

\* The worker at a destination: it copies from the source it was given, then
\* reports what it finds at the destination.
Job == [at : {"none", "copy", "report"}, source : Sources \cup {NoDigest},
        found : Content, err : Errors \cup {NoError}]

NoJob == [at |-> "none", source |-> NoDigest, found |-> NoDigest, err |-> NoError]

Answer == {"unknown", "yes", "no", "error"}

Check == [at : {"none", "begin", "probe", "digest", "signature", "apply"},
          snap : Image \cup {NoImage}, needsSignature : BOOLEAN,
          exists : Answer, digest : Content, valid : Answer]

NoCheck == [at |-> "none", snap |-> NoImage, needsSignature |-> FALSE,
            exists |-> "unknown", digest |-> NoDigest, valid |-> "unknown"]

\* pass is 0 while no sweep runs; todo is what the pass has not begun.
Sweep == [pass : 0..2, todo : SUBSET Dests, timedOut : SUBSET Dests,
          required : BOOLEAN]

NoSweep == [pass |-> 0, todo |-> {}, timedOut |-> {}, required |-> FALSE]

(* One type invariant: entries, workers, checks and the sweep hold values the
   Go declarations and the order of their steps allow. *)
TypeOK ==
    /\ tagged \in SUBSET Dests
    /\ wanted \in [Dests -> Sources \cup {NoDigest}]
    /\ upstream \in [Dests -> [Sources -> Digests]]
    /\ registry \in [Dests -> Content]
    /\ signed \in SUBSET Dests /\ required \in BOOLEAN
    /\ persisted \in [Dests -> Image \cup {NoImage}]
    /\ job \in [Dests -> Job]
    /\ imageState \in [Dests -> Image \cup {NoImage}]
    /\ owned \in SUBSET Dests /\ mirrored \in SUBSET Dests
    /\ stateDirty \in BOOLEAN /\ due \in BOOLEAN
    /\ sweep \in Sweep /\ check \in [Dests -> Check]
    /\ budget \in Nat

Known(d) == imageState[d].state # "Absent"

Init ==
    /\ tagged \in SUBSET Dests
    /\ upstream \in [Dests -> [Sources -> Digests]]
    /\ \A d \in Dests \ tagged : \A s, t \in Sources : upstream[d][s] = upstream[d][t]
    /\ registry = [d \in Dests |-> NoDigest]
    /\ signed = {} /\ required \in BOOLEAN
    /\ wanted \in [Dests -> Sources]
    /\ imageState = [d \in Dests |-> NewImage(wanted[d])]
    /\ persisted = imageState
    /\ job = [d \in Dests |-> NoJob]
    /\ owned = Dests /\ mirrored = {} /\ stateDirty = FALSE
    /\ due = TRUE /\ sweep = NoSweep
    /\ check = [d \in Dests |-> NoCheck]
    /\ budget = MaxEvents

Event(kind) == kind \in Events /\ budget > 0 /\ budget' = budget - 1

-----------------------------------------------------------------------------
(* Outside the manager *)

TagMoves(d) ==
    /\ d \in tagged /\ Event("moves")
    /\ \E s \in Sources, g \in Digests :
          /\ g # upstream[d][s]
          /\ upstream' = [upstream EXCEPT ![d] = [@ EXCEPT ![s] = g]]
    /\ UNCHANGED <<tagged, wanted, registry, signed, required, persisted, job, memVars,
                   sweepVars>>

ImageLost(d) ==
    /\ registry[d] # NoDigest /\ Event("lost")
    /\ registry' = [registry EXCEPT ![d] = NoDigest]
    /\ UNCHANGED <<tagged, wanted, upstream, signed, required, persisted, job,
                   memVars, sweepVars>>

Signing(d) ==
    /\ d \notin tagged /\ Event("signing")
    /\ signed' = IF d \in signed THEN signed \ {d} ELSE signed \cup {d}
    /\ UNCHANGED <<tagged, wanted, upstream, registry, required, persisted, job,
                   memVars, sweepVars>>

Require ==
    /\ Event("require") /\ required' = ~required
    /\ UNCHANGED <<tagged, wanted, upstream, registry, signed, persisted, job,
                   memVars, sweepVars>>

\* The spec drops an image, or names another source for a tag.
Edit(d, s) ==
    /\ wanted[d] \in Sources \ {s} /\ (s = NoDigest \/ d \in tagged)
    /\ Event("edit")
    /\ wanted' = [wanted EXCEPT ![d] = s]
    /\ UNCHANGED <<tagged, upstream, registry, signed, required, persisted, job,
                   memVars, sweepVars>>

BackoffElapses(d) ==
    /\ imageState[d].backingOff /\ job[d].at # "report"
    /\ imageState' = [imageState EXCEPT ![d].backingOff = FALSE]
    /\ UNCHANGED <<outsideVars, persisted, job, owned, mirrored, stateDirty,
                   sweepVars, budget>>

\* Time passes: the next sweep is due.
IntervalElapses ==
    /\ ~due /\ due' = TRUE
    /\ UNCHANGED <<outsideVars, persisted, job, memVars, sweep, check, budget>>

-----------------------------------------------------------------------------
(* The worker of an image, and its report *)

\* What source s has for d when it is read.
Holds(d, s) == {upstream[d][x] : x \in Sources \cap {s}}

\* MirrorOne: the copy is verified, or an error is to be reported, possibly
\* although the copy landed.
WorkerCopies(d) ==
    /\ job[d].at = "copy"
    /\ \E g \in Holds(d, job[d].source) :
         \/ /\ registry' = [registry EXCEPT ![d] = g]
            /\ job' = [job EXCEPT ![d].at = "report", ![d].found = g]
            /\ UNCHANGED budget
         \/ \E e \in Errors, landed \in {g, registry[d]} :
            /\ Event("copyFails")
            /\ registry' = [registry EXCEPT ![d] = landed]
            /\ job' = [job EXCEPT ![d].at = "report", ![d].err = e]
    /\ UNCHANGED <<tagged, wanted, upstream, signed, required, persisted, memVars,
                   sweepVars>>

\* applyStatusLocked: a success records the digest found at the destination as
\* the baseline of a tag-referenced image.
WorkerReports(d) ==
    LET e == imageState[d]
        r == job[d]
        st == IF r.err = NoError THEN "Mirrored" ELSE "Failed"
        f == SetImageState(e, st, r.err)
    IN  /\ r.at = "report"
        /\ job' = [job EXCEPT ![d] = NoJob]
        /\ imageState' = [imageState EXCEPT ![d] =
                IF st = "Mirrored" /\ Known(d) /\ d \in tagged
                THEN [f EXCEPT !.sourceDigest = r.found] ELSE f]
        /\ mirrored' = IF st = "Mirrored"
                       THEN mirrored \cup {x \in {d} : Known(d)}
                       ELSE mirrored \ {x \in {d} : ChangesState(e, st, r.err)}
        /\ stateDirty' = (stateDirty \/ imageState'[d] # e
                            \/ (st = "Mirrored" /\ Known(d) /\ d \in tagged))
        /\ UNCHANGED <<outsideVars, persisted, owned, sweepVars, budget>>

\* cleanupFinishedWorkers for a pod that failed without a report.
WorkerDies(d) ==
    LET e == imageState[d]
    IN  /\ job[d].at # "none" /\ Event("podDies")
        /\ job' = [job EXCEPT ![d] = NoJob]
        /\ imageState' = [imageState EXCEPT ![d] = SetImageState(e, "Pending", NoError)]
        /\ mirrored' = mirrored \ {x \in {d} : ChangesState(e, "Pending", NoError)}
        /\ stateDirty' = (stateDirty \/ ChangesState(e, "Pending", NoError))
        /\ UNCHANGED <<outsideVars, persisted, owned, sweepVars>>

-----------------------------------------------------------------------------
(* The reconcile loop *)

\* Phase B: a resolve takes the owner of what the spec leaves out, and gives
\* the entries the sources the spec names.  An entry keeps its life cycle, its
\* baseline included (mergeResolvedIntoConsolidated).
Resolve ==
    LET gone == {d \in owned : wanted[d] = NoDigest}
        moved == {d \in owned \ gone : wanted[d] # imageState[d].source}
    IN  /\ gone \cup moved # {}
        /\ imageState' = [d \in Dests |->
                            IF d \in moved
                            THEN [imageState[d] EXCEPT !.source = wanted[d]]
                            ELSE imageState[d]]
        /\ owned' = owned \ gone /\ stateDirty' = TRUE
        /\ UNCHANGED <<outsideVars, persisted, job, mirrored, sweepVars, budget>>

\* resetImageSetToPendingLocked: images a worker is at, and those that are as
\* good as new, are left alone.
Resynced(d) ==
    /\ d \in owned /\ Known(d) /\ job[d].at = "none"
    /\ ~(/\ imageState[d].state = "Pending" /\ imageState[d].retryCount = 0
         /\ imageState[d].lastError = NoError /\ ~imageState[d].verified)

ForceResync ==
    /\ Event("resync")
    /\ imageState' = [d \in Dests |->
                        IF Resynced(d)
                        THEN [FreshCycle(imageState[d]) EXCEPT !.verified = FALSE]
                        ELSE imageState[d]]
    /\ mirrored' = mirrored \ {d \in Dests : Resynced(d)}
    /\ stateDirty' = (stateDirty \/ \E d \in Dests : Resynced(d))
    /\ UNCHANGED <<outsideVars, persisted, job, owned, sweepVars>>

\* Mutant: permanently failed images are not checked again.
MirroredOnly(e) == e.state = "Mirrored"

\* What startDriftSweepLocked has to check.
Sweepable(e) == e.state = "Mirrored" \/ (e.state = "Failed" /\ e.permanentlyFailed)

\* Phase C: a sweep starts when one is due, none runs and there is something
\* to check; the requirement is the one this tick read.
StartSweep ==
    LET dests == {d \in Dests : /\ Sweepable(imageState[d])
                                /\ imageState[d].retryCount < MaxFailures}
    IN  IF due /\ sweep.pass = 0
        THEN /\ due' = FALSE
             /\ sweep' = IF dests = {} THEN sweep
                         ELSE [pass |-> 1, todo |-> dests, timedOut |-> {},
                               required |-> required]
        ELSE UNCHANGED <<due, sweep>>

\* Phases C to F of one tick.  Every pending image is dispatched unless the
\* pod cannot be created; the flush may fail.
Tick(started, saved) ==
    LET next == [d \in Dests |-> IF d \in owned
                                 THEN ProcessEntry(imageState[d], d \in mirrored)
                                 ELSE NoImage]
        ready == {d \in owned : next[d].state = "Pending" /\ job[d].at = "none"
                                /\ imageState[d].state = "Pending"}
        dirty == stateDirty \/ next # imageState
    IN  /\ \/ started /\ (saved \/ dirty)
           \/ ~started /\ saved /\ ready # {}
        /\ IF started /\ saved THEN UNCHANGED budget ELSE Event("apiFails")
        /\ StartSweep
        /\ imageState' = next
        /\ mirrored' = mirrored \cup {d \in owned : imageState[d].state = "Mirrored"}
        /\ job' = [d \in Dests |->
                     IF started /\ d \in ready
                     THEN [NoJob EXCEPT !.at = "copy", !.source = next[d].source]
                     ELSE job[d]]
        /\ persisted' = IF saved THEN next ELSE persisted
        /\ stateDirty' = (dirty /\ ~saved)
        /\ UNCHANGED <<outsideVars, owned, check>>

\* The process dies and the next one loads what was flushed; it begins with a
\* sweep, and it knows the workers from their pods.
Restart ==
    /\ Event("restart")
    /\ imageState' = persisted
    /\ owned' = {d \in Dests : persisted[d].state # "Absent"}
    /\ mirrored' = {} /\ stateDirty' = FALSE
    /\ due' = TRUE /\ sweep' = NoSweep
    /\ check' = [d \in Dests |-> NoCheck]
    /\ UNCHANGED <<outsideVars, persisted, job>>

-----------------------------------------------------------------------------
(* The sweep *)

InFlight == {d \in Dests : check[d].at # "none"}

sweepFrame == <<outsideVars, persisted, job>>

\* runDriftPass starts the next goroutine once a slot is free.
BeginCheck(d) ==
    /\ d \in sweep.todo /\ Cardinality(InFlight) < SweepSlots
    /\ sweep' = [sweep EXCEPT !.todo = @ \ {d}]
    /\ check' = [check EXCEPT ![d] = [NoCheck EXCEPT !.at = "begin"]]
    /\ UNCHANGED <<sweepFrame, memVars, due, budget>>

\* checkDriftAttempt up to its first release of m.mu.
TakeSnapshot(d) ==
    /\ check[d].at = "begin"
    /\ check' = [check EXCEPT ![d] =
            IF d \in owned /\ Sweepable(imageState[d])
            THEN [@ EXCEPT !.at = "probe", !.snap = imageState[d],
                           !.needsSignature = /\ ~imageState[d].verified
                                              /\ sweep.required]
            ELSE NoCheck]
    /\ UNCHANGED <<sweepFrame, memVars, due, sweep, budget>>

Recovering(c) == c.snap.state = "Failed"

\* checkExistNoLock: the registry answers.
Probe(d) ==
    LET c == check[d]
        present == registry[d] # NoDigest
    IN  /\ c.at = "probe"
        /\ check' = [check EXCEPT ![d].exists = IF present THEN "yes" ELSE "no",
                                  ![d].at = IF present /\ ~Recovering(c)
                                            THEN "digest" ELSE "apply"]
        /\ UNCHANGED <<sweepFrame, memVars, due, sweep, budget>>

\* The probe fails.  A timeout of the first pass is put off to the second
\* pass, any other error is a result.
ProbeFails(d) ==
    /\ check[d].at = "probe" /\ Event("probeFails")
    /\ \/ /\ sweep.pass = 1
          /\ sweep' = [sweep EXCEPT !.timedOut = @ \cup {d}]
          /\ check' = [check EXCEPT ![d] = NoCheck]
       \/ /\ check' = [check EXCEPT ![d].exists = "error", ![d].at = "apply"]
          /\ UNCHANGED sweep
    /\ UNCHANGED <<sweepFrame, memVars, due>>

Moved(c, g) == g # NoDigest /\ c.snap.sourceDigest \notin {NoDigest, g}

\* sourceDigestNoLock, which skips images without a tag and gives nothing when
\* the source cannot be read.
LookUpDigest(d) ==
    LET c == check[d]
    IN  /\ c.at = "digest"
        /\ \E g \in {NoDigest} \cup IF d \in tagged THEN Holds(d, c.snap.source)
                                    ELSE {} :
            /\ IF d \in tagged /\ g = NoDigest THEN Event("probeFails")
               ELSE UNCHANGED budget
            /\ check' = [check EXCEPT ![d].digest = g,
                            ![d].at = IF c.needsSignature /\ ~Moved(c, g)
                                      THEN "signature" ELSE "apply"]
        /\ UNCHANGED <<sweepFrame, memVars, due, sweep>>

\* signatureErrNoLock: a destination without a digest is not checked; a
\* signature that cannot be fetched counts as none.
LookUpSignature(d) ==
    /\ check[d].at = "signature"
    /\ \E v \in IF d \in tagged THEN {"unknown"} ELSE {"yes", "no"} :
        /\ IF v = "unknown" \/ (v = "yes") = (d \in signed) THEN UNCHANGED budget
           ELSE v = "no" /\ Event("probeFails")
        /\ check' = [check EXCEPT ![d].valid = v, ![d].at = "apply"]
    /\ UNCHANGED <<sweepFrame, memVars, due, sweep>>

\* The entry is no longer the one the check was made for.
Stale(d) == \/ ~Known(d)
            \/ imageState[d].state # check[d].snap.state
            \/ imageState[d].permanentlyFailed # check[d].snap.permanentlyFailed
            \/ imageState[d].source # check[d].snap.source

\* A permanently failed image: found in the target it is Mirrored, missing it
\* gets a fresh retry window.
Recover(e, c) ==
    CASE c.exists = "yes" -> [e EXCEPT !.state = "Mirrored", !.lastError = NoError]
      [] c.exists = "no" -> [e EXCEPT !.state = "Pending", !.retryCount = 0,
                                      !.backingOff = FALSE]
      [] OTHER -> e

ApplySignature(e, c) ==
    IF e.verified \/ c.valid = "unknown" THEN {e}
    ELSE IF c.valid = "yes" THEN {[e EXCEPT !.verified = TRUE]}
    ELSE {RecordFailure([e EXCEPT !.state = "Failed", !.lastError = err]) :
              err \in Errors}

\* Mutant: the moved tag becomes the baseline, but is not copied.
VerifyRecordsOnly(e, c) ==
    LET seen == IF c.digest = NoDigest THEN e ELSE [e EXCEPT !.sourceDigest = c.digest]
    IN  CASE c.exists = "error" -> {e}
          [] c.exists = "no" -> {FreshCycle(e)}
          [] OTHER -> ApplySignature(seen, c)

\* A Mirrored image: missing it is copied again, and so it is when its tag has
\* moved; the digest that was seen is the new baseline either way.
Verify(e, c) ==
    LET seen == IF c.digest = NoDigest THEN e ELSE [e EXCEPT !.sourceDigest = c.digest]
        drifted == c.digest # NoDigest /\ e.sourceDigest \notin {NoDigest, c.digest}
    IN  CASE c.exists = "error" -> {e}
          [] c.exists = "no" -> {FreshCycle(e)}
          [] c.exists = "yes" /\ drifted -> {FreshCycle(seen)}
          [] OTHER -> ApplySignature(seen, c)

\* Mutant: the flag outlives the state Mirrored.
FlagsNotReset(d, f, c) ==
    IF f.state = "Mirrored" THEN mirrored \cup {d} ELSE mirrored

\* The fast-path flags after d's entry became f: resetMirroredLocked, and the
\* assignments to m.mirrored[dest].
Flags(d, f, c) ==
    CASE Recovering(c) /\ c.exists = "error" -> mirrored
      [] f.state = "Mirrored" -> mirrored \cup {d}
      [] OTHER -> mirrored \ {d}

ApplyCheck(d) ==
    LET c == check[d]
        e == imageState[d]
    IN  /\ c.at = "apply"
        /\ check' = [check EXCEPT ![d] = NoCheck]
        /\ IF Stale(d) THEN UNCHANGED <<imageState, mirrored, stateDirty>>
           ELSE \E f \in IF Recovering(c) THEN {Recover(e, c)} ELSE Verify(e, c) :
                  /\ imageState' = [imageState EXCEPT ![d] = f]
                  /\ mirrored' = Flags(d, f, c)
                  /\ stateDirty' = (stateDirty \/ f # e)
        /\ UNCHANGED <<sweepFrame, owned, due, sweep, budget>>

\* All goroutines of a pass are done: timed-out checks get a second pass.
EndPass ==
    /\ sweep.pass # 0 /\ sweep.todo = {} /\ InFlight = {}
    /\ sweep' = IF sweep.timedOut = {} THEN NoSweep
                ELSE [sweep EXCEPT !.pass = 2, !.todo = sweep.timedOut,
                                   !.timedOut = {}]
    /\ UNCHANGED <<sweepFrame, memVars, due, check, budget>>

-----------------------------------------------------------------------------
(* The specification *)

CheckStep(d) ==
    BeginCheck(d) \/ TakeSnapshot(d) \/ Probe(d) \/ LookUpDigest(d)
        \/ LookUpSignature(d) \/ ApplyCheck(d)

WorkerStep(d) == WorkerCopies(d) \/ WorkerReports(d)

OutsideStep(d) == TagMoves(d) \/ ImageLost(d) \/ Signing(d) \/ WorkerDies(d)
                      \/ ProbeFails(d)
                      \/ \E s \in Sources \cup {NoDigest} : Edit(d, s)

Next ==
    \/ \E d \in Dests : \/ OutsideStep(d) \/ WorkerStep(d) \/ CheckStep(d)
                        \/ BackoffElapses(d)
    \/ Require \/ IntervalElapses \/ Resolve \/ ForceResync \/ Restart \/ EndPass
    \/ \E started, saved \in BOOLEAN : Tick(started, saved)

Spec == Init /\ [][Next]_vars

\* The loop of Run ticks, a spec is resolved again when it has changed or the
\* poll interval has passed, a sweep's goroutines and the workers run to their
\* end, and time passes.
Fairness ==
    /\ WF_vars(Tick(TRUE, TRUE)) /\ WF_vars(Resolve)
    /\ WF_vars(EndPass) /\ WF_vars(IntervalElapses)
    /\ \A d \in Dests : /\ WF_vars(WorkerStep(d)) /\ WF_vars(CheckStep(d))
                        /\ WF_vars(BackoffElapses(d))

FairSpec == Spec /\ Fairness

-----------------------------------------------------------------------------
(* Properties *)

(* The fast-path flag m.mirrored is set only for entries that are Mirrored:
   otherwise Phase D would call an image Mirrored that the sweep, a report or
   a resync has just found to be missing, outdated, unsigned or failed. *)
FlagMeansMirrored ==
    \A d \in mirrored \cap owned : imageState[d].state = "Mirrored"

\* What the source of a known image holds now.
Current(d) == upstream[d][imageState[d].source]

(* The sweep never loses sight of drift: when the baseline of a Mirrored image
   is what its source holds now, then that is what the target registry holds,
   unless the image was lost there. It stands for images that were never given
   up and have the source the spec names: neither the baseline that is recorded
   before the copy, nor a stale check, a late report, a changed source or a
   restart hides drift.  (A failed flush and a crash together can, once the tag
   has moved away and back: the saved entry is then older than the last copy.) *)
DriftStaysVisible ==
    \A d \in tagged \cap owned :
        /\ imageState[d].state = "Mirrored" /\ ~imageState[d].permanentlyFailed
        /\ imageState[d].source = wanted[d]
        /\ imageState[d].sourceDigest = Current(d)
        => registry[d] \in {Current(d), NoDigest}

(* The mirror converges: once the outside world is quiet, every image in the
   spec is in the target registry and Mirrored from the source the spec names,
   with the content that source has now unless the image was once given up; or
   its signature check fails sweep after sweep, up to the bound. *)
MirrorConverges ==
    \A d \in Dests :
        <>[](d \in owned /\ imageState[d].retryCount < MaxFailures
                => /\ imageState[d].state = "Mirrored"
                   /\ imageState[d].source = wanted[d]
                   /\ registry[d] # NoDigest
                   /\ \/ imageState[d].permanentlyFailed
                      \/ registry[d] = Current(d))

=============================================================================
