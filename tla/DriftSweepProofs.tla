-------------------------- MODULE DriftSweepProofs --------------------------
(***************************************************************************)
(* Theorems about DriftSweep, for every set of destinations, sources and   *)
(* contents, every retry budget and any number of outside events.          *)
(***************************************************************************)
EXTENDS DriftSweep, TLAPS

-----------------------------------------------------------------------------
(* The operators on entries keep the type of an entry *)

ImageOrNone == Image \cup {NoImage}

\* An entry is not the absence of one.
LEMMA ImageIsKnown ==
    ASSUME NEW e \in Image
    PROVE  e.state # "Absent" /\ e # NoImage
  BY DEF Image, EntryState, NoImage, NoEntry

\* A lookup that finds a state finds an entry.
LEMMA KnownIsImage ==
    ASSUME NEW e \in ImageOrNone, e.state # "Absent"
    PROVE  e \in Image
  BY DEF ImageOrNone, NoImage, NoEntry

\* recordFailureLocked keeps an entry an entry, in the state it is in.
LEMMA RecordFailureKeeps ==
    ASSUME NEW e \in Image
    PROVE  RecordFailure(e) \in Image /\ RecordFailure(e).state = e.state
  <1>1. (e.permanentlyFailed \/ e.retryCount + 1 >= MaxRetries) \in BOOLEAN
    OBVIOUS
  <1>2. e.retryCount + 1 \in Nat
    BY DEF Image
  <1>3. QED
    BY <1>1, <1>2 DEF RecordFailure, Image

\* setImageStateLocked gives a known entry the state it is called with, and
\* leaves an unknown one unknown.
LEMMA SetImageStateSets ==
    ASSUME NEW e \in ImageOrNone, NEW st \in EntryState,
           NEW err \in Errors \cup {NoError}
    PROVE  /\ SetImageState(e, st, err) \in ImageOrNone
           /\ e \in Image => /\ SetImageState(e, st, err) \in Image
                             /\ SetImageState(e, st, err).state = st
           /\ ~ChangesState(e, st, err) => SetImageState(e, st, err) = e
  <1>1. CASE e = NoImage
    <2>1. ~ChangesState(e, st, err)
      BY <1>1 DEF ChangesState, NoImage, NoEntry
    <2>2. e \notin Image
      BY <1>1, ImageIsKnown
    <2>3. QED
      BY <1>1, <2>1, <2>2 DEF SetImageState, ImageOrNone
  <1>2. CASE e \in Image
    <2> DEFINE f == [e EXCEPT !.state = st, !.lastError = err]
    <2>1. f \in Image /\ f.state = st
      BY <1>2 DEF Image
    <2>2. RecordFailure(f) \in Image /\ RecordFailure(f).state = st
      BY <2>1, RecordFailureKeeps
    <2>3. /\ [f EXCEPT !.backingOff = FALSE] \in Image
          /\ [f EXCEPT !.backingOff = FALSE].state = st
      BY <2>1 DEF Image
    <2>4. ~ChangesState(e, st, err) => e.state = st
      BY <1>2, ImageIsKnown DEF ChangesState
    <2> HIDE DEF f
    <2>5. QED
      BY <1>2, <2>2, <2>3, <2>4 DEF SetImageState, ImageOrNone, f
  <1>3. QED
    BY <1>1, <1>2 DEF ImageOrNone

\* A fresh retry cycle leaves an entry Pending.
LEMMA FreshCycleKeeps ==
    ASSUME NEW e \in Image
    PROVE  FreshCycle(e) \in Image /\ FreshCycle(e).state = "Pending"
  BY DEF FreshCycle, Image, EntryState

\* Phase D keeps an entry an entry, and one that is Mirrored Mirrored.
LEMMA ProcessEntryKeeps ==
    ASSUME NEW e \in Image, NEW flagged \in BOOLEAN
    PROVE  /\ ProcessEntry(e, flagged) \in Image
           /\ e.state = "Mirrored" => ProcessEntry(e, flagged) = e
  <1>1. e.state = "Mirrored" => ProcessEntry(e, flagged) = e
    BY DEF ProcessEntry
  <1>2. CASE e.state # "Mirrored" /\ flagged
    <2>1. ProcessEntry(e, flagged) = [e EXCEPT !.state = "Mirrored"]
      BY <1>2 DEF ProcessEntry
    <2>2. QED
      BY <1>1, <2>1 DEF Image, EntryState
  <1>3. CASE e.state = "Failed" /\ ~flagged
    <2>1. RetryOrGiveUp(e) \in Image
      BY DEF RetryOrGiveUp, Image, EntryState
    <2>2. ProcessEntry(e, flagged) = RetryOrGiveUp(e)
      BY <1>3 DEF ProcessEntry
    <2>3. QED
      BY <1>1, <2>1, <2>2
  <1>4. CASE e.state \notin {"Mirrored", "Failed"} /\ ~flagged
    BY <1>1, <1>4 DEF ProcessEntry
  <1>5. QED
    BY <1>1, <1>2, <1>3, <1>4

\* What a check makes of an entry is an entry.
LEMMA RecoverKeeps ==
    ASSUME NEW e \in Image, NEW c
    PROVE  Recover(e, c) \in Image
  BY DEF Recover, Image, EntryState

LEMMA VerifyKeeps ==
    ASSUME NEW e \in Image, NEW c \in Check, NEW f \in Verify(e, c)
    PROVE  f \in Image
  <1> DEFINE seen == IF c.digest = NoDigest THEN e
                     ELSE [e EXCEPT !.sourceDigest = c.digest]
  <1>1. seen \in Image
    BY DEF Image, Check, Content
  <1>2. ASSUME NEW g \in ApplySignature(seen, c) PROVE g \in Image
    <2>1. [seen EXCEPT !.verified = TRUE] \in Image
      BY <1>1 DEF Image
    <2>2. ASSUME NEW err \in Errors
          PROVE  RecordFailure([seen EXCEPT !.state = "Failed", !.lastError = err])
                     \in Image
      <3>1. [seen EXCEPT !.state = "Failed", !.lastError = err] \in Image
        BY <1>1 DEF Image, EntryState
      <3>2. QED
        BY <3>1, RecordFailureKeeps
    <2> HIDE DEF seen
    <2>3. QED
      BY <1>1, <1>2, <2>1, <2>2 DEF ApplySignature
  <1>3. FreshCycle(e) \in Image /\ FreshCycle(seen) \in Image
    BY <1>1, FreshCycleKeeps
  <1> HIDE DEF seen
  <1>4. Verify(e, c) \subseteq {e, FreshCycle(e), FreshCycle(seen)}
                                  \cup ApplySignature(seen, c)
    BY DEF Verify, seen
  <1>5. QED
    BY <1>2, <1>3, <1>4

-----------------------------------------------------------------------------
(* Types *)

\* A destination that has an owner has an entry.
OwnedKnown == \A d \in owned : imageState[d] \in Image

TypeInv == TypeOK /\ OwnedKnown

LEMMA TypeInit == Init => TypeInv
  <1> SUFFICES ASSUME Init PROVE TypeInv
    OBVIOUS
  <1>1. \A s \in Sources : NewImage(s) \in Image
    BY DEF NewImage, Image, EntryState, Content
  <1>2. imageState \in [Dests -> Image]
    BY <1>1 DEF Init
  <1>3. NoJob \in Job /\ NoCheck \in Check /\ NoSweep \in Sweep
    BY DEF NoJob, Job, NoCheck, Check, NoSweep, Sweep, Content, Answer
  <1>4. QED
    BY <1>2, <1>3, SweepAssumption
    DEF Init, TypeInv, TypeOK, OwnedKnown, Content

(* The inductive invariant: types, and the flags that are set *)

FlagInv == TypeInv /\ FlagMeansMirrored

\* A step that leaves the entries, the owners and the flags alone.
LEMMA MemoryKept ==
    ASSUME FlagInv, TypeOK', UNCHANGED <<imageState, owned, mirrored>>
    PROVE  FlagInv'
  BY DEF FlagInv, TypeInv, OwnedKnown, FlagMeansMirrored

\* A step of the outside world: registries, signatures, time.
LEMMA OutsideKeeps ==
    ASSUME FlagInv, NEW d \in Dests,
           \/ TagMoves(d) \/ ImageLost(d) \/ Signing(d)
           \/ \E s \in Sources \cup {NoDigest} : Edit(d, s)
    PROVE  FlagInv'
  <1>1. budget' \in Nat
    BY DEF FlagInv, TypeInv, TypeOK, TagMoves, ImageLost, Signing, Edit, Event
  <1>2. upstream' \in [Dests -> [Sources -> Digests]]
    <2>1. CASE TagMoves(d)
      <3>1. PICK s \in Sources, g \in Digests :
              upstream' = [upstream EXCEPT ![d] = [@ EXCEPT ![s] = g]]
        BY <2>1 DEF TagMoves
      <3>2. upstream \in [Dests -> [Sources -> Digests]]
        BY DEF FlagInv, TypeInv, TypeOK
      <3>3. [upstream[d] EXCEPT ![s] = g] \in [Sources -> Digests]
        BY <3>2
      <3>4. QED
        BY <3>1, <3>2, <3>3
    <2>2. CASE ~TagMoves(d)
      BY <2>2 DEF FlagInv, TypeInv, TypeOK, ImageLost, Signing, Edit
    <2>3. QED
      BY <2>1, <2>2
  <1>3. wanted' \in [Dests -> Sources \cup {NoDigest}]
    BY DEF FlagInv, TypeInv, TypeOK, TagMoves, ImageLost, Signing, Edit
  <1>4. registry' \in [Dests -> Content] /\ signed' \in SUBSET Dests
    BY DEF FlagInv, TypeInv, TypeOK, TagMoves, ImageLost, Signing, Edit, Content
  <1>5. UNCHANGED <<tagged, required, persisted, job, memVars, sweepVars>>
    BY DEF TagMoves, ImageLost, Signing, Edit
  <1>6. TypeOK' /\ UNCHANGED <<imageState, owned, mirrored>>
    BY <1>1, <1>2, <1>3, <1>4, <1>5 DEF FlagInv, TypeInv, TypeOK, memVars, sweepVars
  <1>7. QED
    BY <1>6, MemoryKept

\* The requirement is switched, or time passes.
LEMMA SwitchKeeps ==
    ASSUME FlagInv, Require \/ IntervalElapses
    PROVE  FlagInv'
  <1>1. budget' \in Nat
    BY DEF Require, IntervalElapses, Event, FlagInv, TypeInv, TypeOK
  <1>2. TypeOK' /\ UNCHANGED <<imageState, owned, mirrored>>
    BY <1>1 DEF Require, IntervalElapses, FlagInv, TypeInv, TypeOK, memVars,
                sweepVars, outsideVars
  <1>3. QED
    BY <1>2, MemoryKept

LEMMA BackoffKeeps ==
    ASSUME FlagInv, NEW d \in Dests, BackoffElapses(d)
    PROVE  FlagInv'
  <1> DEFINE e == imageState[d]
  <1> DEFINE f == [e EXCEPT !.backingOff = FALSE]
  <1>1. e \in ImageOrNone /\ e # NoImage
    BY DEF FlagInv, TypeInv, TypeOK, ImageOrNone, BackoffElapses, NoImage, NoEntry
  <1>2. f \in Image /\ f.state = e.state
    BY <1>1 DEF ImageOrNone, Image
  <1>3. imageState' = [imageState EXCEPT ![d] = f]
    BY DEF BackoffElapses, FlagInv, TypeInv, TypeOK
  <1> HIDE DEF f
  <1>4. TypeOK'
    BY <1>2, <1>3 DEF FlagInv, TypeInv, TypeOK, BackoffElapses, outsideVars,
                       sweepVars
  <1>5. OwnedKnown' /\ FlagMeansMirrored'
    BY <1>2, <1>3 DEF FlagInv, TypeInv, TypeOK, OwnedKnown, FlagMeansMirrored,
                       BackoffElapses
  <1>6. QED
    BY <1>4, <1>5 DEF FlagInv, TypeInv

LEMMA WorkerCopiesKeeps ==
    ASSUME FlagInv, NEW d \in Dests, WorkerCopies(d)
    PROVE  FlagInv'
  <1>1. PICK g \in Digests :
          \/ /\ registry' = [registry EXCEPT ![d] = g]
             /\ job' = [job EXCEPT ![d].at = "report", ![d].found = g]
             /\ UNCHANGED budget
          \/ \E e \in Errors, landed \in {g, registry[d]} :
             /\ Event("copyFails")
             /\ registry' = [registry EXCEPT ![d] = landed]
             /\ job' = [job EXCEPT ![d].at = "report", ![d].err = e]
    <2>1. \A s : Holds(d, s) \subseteq Digests
      BY DEF Holds, FlagInv, TypeInv, TypeOK
    <2>2. QED
      BY <2>1 DEF WorkerCopies
  <1>2. budget' \in Nat
    BY <1>1 DEF FlagInv, TypeInv, TypeOK, Event
  <1>3. registry' \in [Dests -> Content]
    BY <1>1 DEF FlagInv, TypeInv, TypeOK, Content
  <1>4. job' \in [Dests -> Job]
    <2> DEFINE copied == [job[d] EXCEPT !.at = "report", !.found = g]
    <2> DEFINE failed(e) == [job[d] EXCEPT !.at = "report", !.err = e]
    <2>1. job \in [Dests -> Job]
      BY DEF FlagInv, TypeInv, TypeOK
    <2>2. copied \in Job /\ \A e \in Errors : failed(e) \in Job
      BY <2>1 DEF Job, Content
    <2>3. \/ job' = [job EXCEPT ![d] = copied]
          \/ \E e \in Errors : job' = [job EXCEPT ![d] = failed(e)]
      BY <1>1, <2>1
    <2> HIDE DEF copied, failed
    <2>4. QED
      BY <2>1, <2>2, <2>3
  <1>5. TypeOK' /\ UNCHANGED <<imageState, owned, mirrored>>
    BY <1>2, <1>3, <1>4 DEF FlagInv, TypeInv, TypeOK, WorkerCopies, memVars,
                             sweepVars
  <1>6. QED
    BY <1>5, MemoryKept

\* applyStatusLocked sets the flag with the state Mirrored and takes it back
\* with any other.
LEMMA WorkerReportsKeeps ==
    ASSUME FlagInv, NEW d \in Dests, WorkerReports(d)
    PROVE  FlagInv'
  <1> DEFINE e == imageState[d]
  <1> DEFINE r == job[d]
  <1> DEFINE st == IF r.err = NoError THEN "Mirrored" ELSE "Failed"
  <1> DEFINE f == SetImageState(e, st, r.err)
  <1> DEFINE g == IF st = "Mirrored" /\ Known(d) /\ d \in tagged
                  THEN [f EXCEPT !.sourceDigest = r.found] ELSE f
  <1>1. e \in ImageOrNone /\ r \in Job /\ NoJob \in Job
    BY DEF FlagInv, TypeInv, TypeOK, ImageOrNone, NoJob, Job, Content
  <1>2. st \in EntryState /\ r.err \in Errors \cup {NoError} /\ r.found \in Content
    BY <1>1 DEF EntryState, Job
  <1> HIDE DEF r, st
  <1>3. /\ f \in ImageOrNone
        /\ e \in Image => f \in Image /\ f.state = st
        /\ ~ChangesState(e, st, r.err) => f = e
    BY <1>1, <1>2, SetImageStateSets
  <1> HIDE DEF f
  <1>4. Known(d) => e \in Image
    BY <1>1, KnownIsImage DEF Known
  <1>5. /\ g \in ImageOrNone
        /\ e \in Image => g \in Image /\ g.state = st
        /\ st # "Mirrored" /\ ~ChangesState(e, st, r.err) => g = e
    BY <1>2, <1>3, <1>4 DEF ImageOrNone, Image
  <1>6. imageState' = [imageState EXCEPT ![d] = g]
    BY DEF WorkerReports, r, st, f, FlagInv, TypeInv, TypeOK
  <1> HIDE DEF g
  <1>7. TypeOK'
    <2>1. mirrored' \in SUBSET Dests /\ stateDirty' \in BOOLEAN
      BY DEF WorkerReports, FlagInv, TypeInv, TypeOK
    <2>2. job' \in [Dests -> Job]
      BY <1>1 DEF WorkerReports, FlagInv, TypeInv, TypeOK
    <2>3. imageState' \in [Dests -> ImageOrNone]
      BY <1>5, <1>6 DEF FlagInv, TypeInv, TypeOK, ImageOrNone
    <2>4. QED
      BY <2>1, <2>2, <2>3 DEF WorkerReports, FlagInv, TypeInv, TypeOK,
                              ImageOrNone, outsideVars, sweepVars
  <1>8. OwnedKnown'
    BY <1>5, <1>6 DEF OwnedKnown, WorkerReports, FlagInv, TypeInv, TypeOK
  <1>9. FlagMeansMirrored'
    <2> SUFFICES ASSUME NEW x \in mirrored' \cap owned'
                 PROVE  imageState'[x].state = "Mirrored"
      BY DEF FlagMeansMirrored
    <2>1. owned' = owned /\ x \in Dests
      BY DEF WorkerReports, FlagInv, TypeInv, TypeOK
    <2>2. CASE x # d
      BY <1>6, <2>1, <2>2 DEF WorkerReports, FlagInv, TypeInv, TypeOK,
                              FlagMeansMirrored
    <2>3. CASE x = d /\ st = "Mirrored"
      BY <1>5, <1>6, <2>1, <2>3 DEF FlagInv, TypeInv, TypeOK, OwnedKnown
    <2>4. CASE x = d /\ st # "Mirrored"
      <3>1. mirrored' = mirrored \ {y \in {d} : ChangesState(e, st, r.err)}
        BY <2>4 DEF WorkerReports, st, r
      <3>2. x \in mirrored /\ ~ChangesState(e, st, r.err)
        BY <2>4, <3>1
      <3>3. QED
        BY <1>5, <1>6, <2>1, <2>4, <3>2 DEF FlagInv, TypeInv, TypeOK,
                                            FlagMeansMirrored
    <2>5. QED
      BY <2>2, <2>3, <2>4
  <1>10. QED
    BY <1>7, <1>8, <1>9 DEF FlagInv, TypeInv

LEMMA WorkerDiesKeeps ==
    ASSUME FlagInv, NEW d \in Dests, WorkerDies(d)
    PROVE  FlagInv'
  <1> DEFINE e == imageState[d]
  <1> DEFINE f == SetImageState(e, "Pending", NoError)
  <1>1. e \in ImageOrNone /\ NoJob \in Job /\ budget' \in Nat
    BY DEF FlagInv, TypeInv, TypeOK, ImageOrNone, NoJob, Job, Content,
           WorkerDies, Event
  <1>2. /\ f \in ImageOrNone
        /\ e \in Image => f \in Image /\ f.state = "Pending"
        /\ ~ChangesState(e, "Pending", NoError) => f = e
    BY <1>1, SetImageStateSets DEF EntryState
  <1>3. /\ imageState' = [imageState EXCEPT ![d] = f]
        /\ mirrored' = mirrored \ {x \in {d} : ChangesState(e, "Pending", NoError)}
        /\ owned' = owned
    BY DEF WorkerDies, FlagInv, TypeInv, TypeOK
  <1> HIDE DEF f
  <1>4. stateDirty' \in BOOLEAN
    BY DEF WorkerDies, FlagInv, TypeInv, TypeOK, ChangesState
  <1>5. TypeOK'
    <2>1. imageState' \in [Dests -> ImageOrNone]
      BY <1>2, <1>3 DEF FlagInv, TypeInv, TypeOK, ImageOrNone
    <2>2. QED
      BY <1>1, <1>3, <1>4, <2>1 DEF WorkerDies, FlagInv, TypeInv, TypeOK,
                                    ImageOrNone, outsideVars, sweepVars
  <1>6. OwnedKnown' /\ FlagMeansMirrored'
    BY <1>2, <1>3 DEF FlagInv, TypeInv, TypeOK, OwnedKnown, FlagMeansMirrored
  <1>7. QED
    BY <1>5, <1>6 DEF FlagInv, TypeInv

\* A resolve takes owners away and changes sources, and no state.
LEMMA ResolveKeeps ==
    ASSUME FlagInv, Resolve
    PROVE  FlagInv'
  <1> DEFINE gone == {d \in owned : wanted[d] = NoDigest}
  <1> DEFINE moved == {d \in owned \ gone : wanted[d] # imageState[d].source}
  <1> DEFINE F(d) == [imageState[d] EXCEPT !.source = wanted[d]]
  <1>1. ASSUME NEW d \in moved
        PROVE  F(d) \in Image /\ F(d).state = imageState[d].state
    <2>1. imageState[d] \in Image /\ wanted[d] \in Sources
      BY DEF FlagInv, TypeInv, TypeOK, OwnedKnown
    <2>2. QED
      BY <2>1 DEF Image
  <1>2. /\ imageState' = [d \in Dests |-> IF d \in moved THEN F(d) ELSE imageState[d]]
        /\ owned' = owned \ gone /\ mirrored' = mirrored
    BY DEF Resolve
  <1> HIDE DEF F, moved, gone
  <1>3. imageState' \in [Dests -> ImageOrNone]
    BY <1>1, <1>2 DEF FlagInv, TypeInv, TypeOK, ImageOrNone
  <1>4. TypeOK'
    BY <1>2, <1>3 DEF Resolve, FlagInv, TypeInv, TypeOK, ImageOrNone, outsideVars,
                      sweepVars
  <1>5. OwnedKnown' /\ FlagMeansMirrored'
    BY <1>1, <1>2 DEF FlagInv, TypeInv, TypeOK, OwnedKnown, FlagMeansMirrored
  <1>6. QED
    BY <1>4, <1>5 DEF FlagInv, TypeInv

LEMMA ForceResyncKeeps ==
    ASSUME FlagInv, ForceResync
    PROVE  FlagInv'
  <1> DEFINE F(d) == [FreshCycle(imageState[d]) EXCEPT !.verified = FALSE]
  <1>1. ASSUME NEW d \in Dests, Resynced(d) PROVE F(d) \in Image
    <2>1. imageState[d] \in Image
      BY <1>1 DEF Resynced, FlagInv, TypeInv, OwnedKnown
    <2>2. FreshCycle(imageState[d]) \in Image
      BY <2>1, FreshCycleKeeps
    <2>3. QED
      BY <2>2 DEF Image
  <1>2. /\ imageState' = [d \in Dests |-> IF Resynced(d) THEN F(d)
                                                  ELSE imageState[d]]
        /\ mirrored' = mirrored \ {d \in Dests : Resynced(d)}
        /\ owned' = owned
    BY DEF ForceResync
  <1> HIDE DEF F
  <1>3. budget' \in Nat /\ stateDirty' \in BOOLEAN
    BY DEF ForceResync, FlagInv, TypeInv, TypeOK, Event
  <1>4. imageState' \in [Dests -> ImageOrNone]
    BY <1>1, <1>2 DEF FlagInv, TypeInv, TypeOK, ImageOrNone
  <1>5. TypeOK'
    BY <1>2, <1>3, <1>4 DEF ForceResync, FlagInv, TypeInv, TypeOK, ImageOrNone,
                            outsideVars, sweepVars
  <1>6. OwnedKnown' /\ FlagMeansMirrored'
    BY <1>1, <1>2 DEF FlagInv, TypeInv, TypeOK, OwnedKnown, FlagMeansMirrored
  <1>7. QED
    BY <1>5, <1>6 DEF FlagInv, TypeInv

\* Phase D sets flags for Mirrored entries only, and the flags that are set
\* change no entry.
LEMMA TickKeeps ==
    ASSUME FlagInv, NEW started \in BOOLEAN, NEW saved \in BOOLEAN,
           Tick(started, saved)
    PROVE  FlagInv'
  <1> DEFINE next == [d \in Dests |->
                        IF d \in owned THEN ProcessEntry(imageState[d], d \in mirrored)
                        ELSE NoImage]
  <1>1. ASSUME NEW d \in owned
        PROVE  /\ next[d] \in Image
               /\ imageState[d].state = "Mirrored" => next[d] = imageState[d]
    <2>1. d \in Dests /\ imageState[d] \in Image /\ (d \in mirrored) \in BOOLEAN
      BY DEF FlagInv, TypeInv, TypeOK, OwnedKnown
    <2>2. next[d] = ProcessEntry(imageState[d], d \in mirrored)
      BY <2>1
    <2> HIDE DEF next
    <2>3. QED
      BY <2>1, <2>2, ProcessEntryKeeps
  <1>2. next \in [Dests -> ImageOrNone]
    BY <1>1 DEF ImageOrNone
  <1>3. imageState' = next /\ persisted' \in {next, persisted} /\ owned' = owned
    BY DEF Tick
  <1>4. mirrored' = mirrored \cup {d \in owned : imageState[d].state = "Mirrored"}
    BY DEF Tick
  <1>5. job' \in [Dests -> Job]
    <2> DEFINE ready == {d \in owned : /\ next[d].state = "Pending"
                                       /\ job[d].at = "none"
                                       /\ imageState[d].state = "Pending"}
    <2> DEFINE J(d) == [NoJob EXCEPT !.at = "copy", !.source = next[d].source]
    <2>1. job' = [d \in Dests |-> IF started /\ d \in ready THEN J(d) ELSE job[d]]
      BY DEF Tick
    <2>2. ASSUME NEW d \in owned PROVE J(d) \in Job
      <3>1. next[d].source \in Sources
        BY <1>1 DEF Image
      <3>2. QED
        BY <3>1 DEF NoJob, Job, Content
    <2> HIDE DEF next, J
    <2>3. QED
      BY <2>1, <2>2 DEF FlagInv, TypeInv, TypeOK
  <1> HIDE DEF next
  <1>6. due' \in BOOLEAN /\ sweep' \in Sweep
    <2> DEFINE dests == {d \in Dests : /\ Sweepable(imageState[d])
                                       /\ imageState[d].retryCount < MaxFailures}
    <2> DEFINE begun == [pass |-> 1, todo |-> dests, timedOut |-> {},
                         required |-> required]
    <2>1. IF due /\ sweep.pass = 0
          THEN due' = FALSE /\ sweep' = IF dests = {} THEN sweep ELSE begun
          ELSE UNCHANGED <<due, sweep>>
      BY DEF Tick, StartSweep
    <2>2. dests \in SUBSET Dests
      OBVIOUS
    <2> HIDE DEF dests
    <2>3. begun \in Sweep
      BY <2>2 DEF FlagInv, TypeInv, TypeOK, Sweep
    <2> HIDE DEF begun
    <2>4. due \in BOOLEAN /\ sweep \in Sweep
      BY DEF FlagInv, TypeInv, TypeOK
    <2>5. CASE due /\ sweep.pass = 0
      BY <2>1, <2>3, <2>4, <2>5
    <2>6. CASE ~(due /\ sweep.pass = 0)
      BY <2>1, <2>4, <2>6
    <2>7. QED
      BY <2>5, <2>6
  <1>7. budget' \in Nat /\ stateDirty' \in BOOLEAN
    <2>1. IF started /\ saved THEN UNCHANGED budget ELSE Event("apiFails")
      BY DEF Tick
    <2>2. budget' \in Nat
      BY <2>1 DEF FlagInv, TypeInv, TypeOK, Event
    <2>3. stateDirty' = ((stateDirty \/ next # imageState) /\ ~saved)
      BY DEF Tick, next
    <2>4. stateDirty' \in BOOLEAN
      BY <2>3
    <2>5. QED
      BY <2>2, <2>4
  <1>8. TypeOK'
    BY <1>2, <1>3, <1>4, <1>5, <1>6, <1>7 DEF Tick, FlagInv, TypeInv, TypeOK,
        ImageOrNone, outsideVars
  <1>9. OwnedKnown'
    BY <1>1, <1>3 DEF OwnedKnown
  <1>10. FlagMeansMirrored'
    BY <1>1, <1>3, <1>4 DEF FlagInv, FlagMeansMirrored
  <1>11. QED
    BY <1>8, <1>9, <1>10 DEF FlagInv, TypeInv

LEMMA RestartKeeps ==
    ASSUME FlagInv, Restart
    PROVE  FlagInv'
  <1>1. NoCheck \in Check /\ NoSweep \in Sweep /\ budget' \in Nat
    BY DEF NoCheck, Check, NoSweep, Sweep, Content, Answer, Restart, FlagInv,
           TypeInv, TypeOK, Event
  <1>2. TypeOK'
    BY <1>1 DEF Restart, FlagInv, TypeInv, TypeOK, outsideVars
  <1>3. OwnedKnown'
    <2> SUFFICES ASSUME NEW d \in Dests, persisted[d].state # "Absent"
                 PROVE  persisted[d] \in Image
      BY DEF OwnedKnown, Restart
    <2>1. persisted[d] \in ImageOrNone
      BY DEF FlagInv, TypeInv, TypeOK, ImageOrNone
    <2>2. QED
      BY <2>1, KnownIsImage
  <1>4. FlagMeansMirrored'
    BY DEF Restart, FlagMeansMirrored
  <1>5. QED
    BY <1>2, <1>3, <1>4 DEF FlagInv, TypeInv

\* The steps of a check that only read: they change the sweep and the check.
LEMMA ReadingKeeps ==
    ASSUME FlagInv, NEW d \in Dests,
           BeginCheck(d) \/ TakeSnapshot(d) \/ Probe(d) \/ ProbeFails(d)
               \/ LookUpDigest(d) \/ LookUpSignature(d)
    PROVE  FlagInv'
  <1> DEFINE c == check[d]
  <1>1. /\ c \in Check /\ NoCheck \in Check /\ sweep \in Sweep
        /\ check \in [Dests -> Check] /\ budget \in Nat /\ due \in BOOLEAN
        /\ imageState[d] \in Image \cup {NoImage}
    BY DEF FlagInv, TypeInv, TypeOK, NoCheck, Check, Content, Answer
  <1>2. check' \in [Dests -> Check] /\ sweep' \in Sweep /\ budget' \in Nat
    <2>1. CASE BeginCheck(d)
      <3>1. [NoCheck EXCEPT !.at = "begin"] \in Check
        BY <1>1 DEF Check
      <3>2. [sweep EXCEPT !.todo = @ \ {d}] \in Sweep
        BY <1>1 DEF Sweep
      <3>3. QED
        BY <1>1, <2>1, <3>1, <3>2 DEF BeginCheck
    <2>2. CASE TakeSnapshot(d)
      <3> DEFINE need == ~imageState[d].verified /\ sweep.required
      <3> DEFINE b == [c EXCEPT !.at = "probe", !.snap = imageState[d],
                                !.needsSignature = need]
      <3>1. need \in BOOLEAN
        OBVIOUS
      <3>2. check' = [check EXCEPT ![d] = IF d \in owned /\ Sweepable(imageState[d])
                                          THEN b ELSE NoCheck]
        BY <1>1, <2>2 DEF TakeSnapshot
      <3>3. sweep' = sweep /\ budget' = budget
        BY <2>2 DEF TakeSnapshot
      <3> HIDE DEF need
      <3>4. b \in Check
        BY <1>1, <3>1 DEF Check
      <3> HIDE DEF b
      <3>5. QED
        BY <1>1, <3>2, <3>3, <3>4
    <2>3. CASE Probe(d)
      <3>1. ASSUME NEW a \in {"digest", "apply"}, NEW x \in {"yes", "no"}
            PROVE  [c EXCEPT !.exists = x, !.at = a] \in Check
        BY <1>1 DEF Check, Answer
      <3>2. PICK a \in {"digest", "apply"}, x \in {"yes", "no"} :
              check' = [check EXCEPT ![d] = [c EXCEPT !.exists = x, !.at = a]]
        BY <1>1, <2>3 DEF Probe
      <3>3. sweep' = sweep /\ budget' = budget
        BY <2>3 DEF Probe
      <3>4. [c EXCEPT !.exists = x, !.at = a] \in Check
        BY <3>1
      <3>5. QED
        BY <1>1, <3>2, <3>3, <3>4
    <2>4. CASE ProbeFails(d)
      <3>1. [c EXCEPT !.exists = "error", !.at = "apply"] \in Check
        BY <1>1 DEF Check, Answer
      <3>2. [sweep EXCEPT !.timedOut = @ \cup {d}] \in Sweep
        BY <1>1 DEF Sweep
      <3>3. budget' \in Nat
        BY <1>1, <2>4 DEF ProbeFails, Event
      <3>4. \/ /\ sweep' = [sweep EXCEPT !.timedOut = @ \cup {d}]
               /\ check' = [check EXCEPT ![d] = NoCheck]
            \/ /\ check' = [check EXCEPT ![d] =
                              [c EXCEPT !.exists = "error", !.at = "apply"]]
               /\ sweep' = sweep
        BY <1>1, <2>4 DEF ProbeFails
      <3>5. QED
        BY <1>1, <3>1, <3>2, <3>3, <3>4
    <2>5. CASE LookUpDigest(d)
      <3>1. PICK g \in Content :
              /\ IF d \in tagged /\ g = NoDigest THEN Event("probeFails")
                 ELSE UNCHANGED budget
              /\ check' = [check EXCEPT ![d].digest = g,
                             ![d].at = IF c.needsSignature /\ ~Moved(c, g)
                                       THEN "signature" ELSE "apply"]
        <4>1. \A s : Holds(d, s) \subseteq Content
          BY DEF Holds, FlagInv, TypeInv, TypeOK, Content
        <4>2. NoDigest \in Content
          BY DEF Content
        <4>3. QED
          BY <2>5, <4>1, <4>2 DEF LookUpDigest
      <3>2. ASSUME NEW a \in {"signature", "apply"}
            PROVE  [c EXCEPT !.digest = g, !.at = a] \in Check
        BY <1>1 DEF Check
      <3>3. PICK a \in {"signature", "apply"} :
              check' = [check EXCEPT ![d] = [c EXCEPT !.digest = g, !.at = a]]
        BY <1>1, <3>1
      <3>4. budget' \in Nat
        BY <1>1, <3>1 DEF Event
      <3>5. sweep' = sweep
        BY <2>5 DEF LookUpDigest
      <3>6. QED
        BY <1>1, <3>2, <3>3, <3>4, <3>5
    <2>6. CASE LookUpSignature(d)
      <3>1. PICK v \in {"unknown", "yes", "no"} :
              /\ budget' = budget \/ Event("probeFails")
              /\ check' = [check EXCEPT ![d].valid = v, ![d].at = "apply"]
        BY <2>6 DEF LookUpSignature
      <3>2. [c EXCEPT !.valid = v, !.at = "apply"] \in Check
        BY <1>1 DEF Check, Answer
      <3>3. check' = [check EXCEPT ![d] = [c EXCEPT !.valid = v, !.at = "apply"]]
        BY <1>1, <3>1
      <3>4. budget' \in Nat
        BY <1>1, <3>1 DEF Event
      <3>5. sweep' = sweep
        BY <2>6 DEF LookUpSignature
      <3>6. QED
        BY <1>1, <3>2, <3>3, <3>4, <3>5
    <2>7. QED
      BY <2>1, <2>2, <2>3, <2>4, <2>5, <2>6
  <1>3. UNCHANGED <<outsideVars, persisted, job, memVars, due>>
    BY DEF BeginCheck, TakeSnapshot, Probe, ProbeFails, LookUpDigest,
           LookUpSignature, sweepFrame
  <1>4. TypeOK' /\ UNCHANGED <<imageState, owned, mirrored>>
    BY <1>2, <1>3 DEF FlagInv, TypeInv, TypeOK, outsideVars, memVars
  <1>5. QED
    BY <1>4, MemoryKept

LEMMA EndPassKeeps ==
    ASSUME FlagInv, EndPass
    PROVE  FlagInv'
  <1>1. sweep \in Sweep /\ NoSweep \in Sweep
    BY DEF FlagInv, TypeInv, TypeOK, Sweep, NoSweep
  <1>2. [sweep EXCEPT !.pass = 2, !.todo = sweep.timedOut, !.timedOut = {}] \in Sweep
    <2>1. sweep.timedOut \in SUBSET Dests /\ 2 \in 0..2
      BY <1>1 DEF Sweep
    <2>2. QED
      BY <1>1, <2>1 DEF Sweep
  <1>3. sweep' \in Sweep
    BY <1>1, <1>2 DEF EndPass
  <1>4. TypeOK' /\ UNCHANGED <<imageState, owned, mirrored>>
    BY <1>3 DEF EndPass, FlagInv, TypeInv, TypeOK, sweepFrame, outsideVars, memVars
  <1>5. QED
    BY <1>4, MemoryKept

\* The verdict of a check is applied to an entry that is still in the state it
\* was checked in, and the flag follows the state the verdict gives it.
LEMMA ApplyCheckKeeps ==
    ASSUME FlagInv, NEW d \in Dests, ApplyCheck(d)
    PROVE  FlagInv'
  <1> DEFINE c == check[d]
  <1> DEFINE e == imageState[d]
  <1>1. check' = [check EXCEPT ![d] = NoCheck]
    BY DEF ApplyCheck
  <1>2. check' \in [Dests -> Check] /\ c \in Check
    <2>1. NoCheck \in Check
      BY DEF NoCheck, Check, Content, Answer
    <2>2. QED
      BY <1>1, <2>1 DEF FlagInv, TypeInv, TypeOK
  <1>3. UNCHANGED <<outsideVars, persisted, job, owned, due, sweep, budget>>
    BY DEF ApplyCheck, sweepFrame
  <1>4. CASE Stale(d)
    <2>1. UNCHANGED <<imageState, mirrored, stateDirty>>
      BY <1>4 DEF ApplyCheck
    <2>2. TypeOK' /\ UNCHANGED <<imageState, owned, mirrored>>
      BY <1>2, <1>3, <2>1 DEF FlagInv, TypeInv, TypeOK, outsideVars
    <2>3. QED
      BY <2>2, MemoryKept
  <1>5. CASE ~Stale(d)
    <2>1. e \in Image
      <3>1. e \in ImageOrNone /\ e.state # "Absent"
        BY <1>5 DEF Stale, Known, FlagInv, TypeInv, TypeOK, ImageOrNone
      <3>2. QED
        BY <3>1, KnownIsImage
    <2>2. PICK f \in IF Recovering(c) THEN {Recover(e, c)} ELSE Verify(e, c) :
            /\ imageState' = [imageState EXCEPT ![d] = f]
            /\ mirrored' = Flags(d, f, c)
            /\ stateDirty' = (stateDirty \/ f # e)
      BY <1>5 DEF ApplyCheck
    <2>3. f \in Image
      BY <1>2, <2>1, <2>2, RecoverKeeps, VerifyKeeps
    <2>4. Recovering(c) /\ c.exists = "error" => f = e
      BY <2>2 DEF Recover
    <2>5. /\ mirrored' \subseteq mirrored \cup {d}
          /\ d \in mirrored' => f.state = "Mirrored" \/ (f = e /\ d \in mirrored)
      BY <2>2, <2>4 DEF Flags
    <2>6. stateDirty' \in BOOLEAN
      BY <2>2
    <2>7. TypeOK'
      BY <1>2, <1>3, <2>2, <2>3, <2>5, <2>6 DEF FlagInv, TypeInv, TypeOK, outsideVars
    <2>8. OwnedKnown' /\ FlagMeansMirrored'
      BY <1>3, <2>2, <2>3, <2>5 DEF FlagInv, TypeInv, TypeOK, OwnedKnown,
                                    FlagMeansMirrored
    <2>9. QED
      BY <2>7, <2>8 DEF FlagInv, TypeInv
  <1>6. QED
    BY <1>4, <1>5

-----------------------------------------------------------------------------
(* The theorems *)

LEMMA FlagInvHolds == Spec => []FlagInv
  <1>1. Init => FlagInv
    BY TypeInit DEF FlagInv, FlagMeansMirrored, Init
  <1>2. FlagInv /\ [Next]_vars => FlagInv'
    <2> SUFFICES ASSUME FlagInv, [Next]_vars PROVE FlagInv'
      OBVIOUS
    <2>1. CASE UNCHANGED vars
      BY <2>1 DEF vars, outsideVars, memVars, sweepVars, FlagInv, TypeInv, TypeOK,
                  OwnedKnown, FlagMeansMirrored
    <2>2. ASSUME NEW d \in Dests, OutsideStep(d) PROVE FlagInv'
      BY <2>2, OutsideKeeps, WorkerDiesKeeps, ReadingKeeps
      DEF OutsideStep
    <2>3. ASSUME NEW d \in Dests, WorkerStep(d) PROVE FlagInv'
      BY <2>3, WorkerCopiesKeeps, WorkerReportsKeeps DEF WorkerStep
    <2>4. ASSUME NEW d \in Dests, CheckStep(d) PROVE FlagInv'
      BY <2>4, ReadingKeeps, ApplyCheckKeeps DEF CheckStep
    <2>5. ASSUME NEW d \in Dests, BackoffElapses(d) PROVE FlagInv'
      BY <2>5, BackoffKeeps
    <2>6. CASE Require \/ IntervalElapses \/ Resolve
      BY <2>6, SwitchKeeps, ResolveKeeps
    <2>7. CASE ForceResync \/ Restart \/ EndPass
      BY <2>7, ForceResyncKeeps, RestartKeeps, EndPassKeeps
    <2>8. ASSUME NEW started \in BOOLEAN, NEW saved \in BOOLEAN,
                 Tick(started, saved)
          PROVE  FlagInv'
      BY <2>8, TickKeeps
    <2>9. QED
      BY <2>1, <2>2, <2>3, <2>4, <2>5, <2>6, <2>7, <2>8 DEF Next
  <1>3. QED
    BY <1>1, <1>2, PTL DEF Spec

(* Type correctness of the drift sweep: entries, workers, checks and the sweep
   only ever hold values the Go types and the order of their steps allow. *)
THEOREM SweepTypeCorrect == Spec => []TypeOK
  <1>1. FlagInv => TypeOK
    BY DEF FlagInv, TypeInv
  <1>2. QED
    BY FlagInvHolds, <1>1, PTL

(* m.mirrored is set only for Mirrored entries, in every interleaving of the
   sweep's unlocked checks (checkDriftAttempt) with ticks, reports, resolves,
   forced resyncs and restarts. *)
THEOREM FlagsMeanMirrored == Spec => []FlagMeansMirrored
  <1>1. FlagInv => FlagMeansMirrored
    BY DEF FlagInv
  <1>2. QED
    BY FlagInvHolds, <1>1, PTL

-----------------------------------------------------------------------------
(***************************************************************************)
(* The baseline tells the truth.  DriftStaysVisible is not inductive: that *)
(* no copy is under way while an entry is Mirrored, what a report is about *)
(* to record, and that the saved entries are as good as those in memory,   *)
(* which a restart brings back, have to be known as well.                  *)
(***************************************************************************)

\* A check that got past its snapshot was made for a Mirrored or a given-up
\* image, and past its probe it has an answer.
CheckInv ==
    \A d \in Dests :
        /\ check[d].at \notin {"none", "begin"} => Sweepable(check[d].snap)
        /\ check[d].at \notin {"none", "begin", "probe"} => check[d].exists # "unknown"

\* What a worker is going to report is what it left at the destination.
ReportInv ==
    \A d \in tagged :
        job[d].at = "report" /\ job[d].err = NoError
            => job[d].found # NoDigest /\ registry[d] \in {job[d].found, NoDigest}

\* The baseline of a Mirrored entry is what the registry holds, if anything,
\* and no worker is about to change that.
Truthful(e, d) ==
    e.state = "Mirrored" /\ ~e.permanentlyFailed
        => /\ job[d].at = "none" /\ e.sourceDigest # NoDigest
           /\ registry[d] \in {e.sourceDigest, NoDigest}

MemoryTruthful == \A d \in tagged : Truthful(imageState[d], d)
SavedTruthful == \A d \in tagged : Truthful(persisted[d], d)

BaselineInv ==
    /\ CheckInv /\ ReportInv /\ MemoryTruthful
    /\ "apiFails" \notin Events => SavedTruthful

LEMMA BaselineInit == Init => BaselineInv
  <1> SUFFICES ASSUME Init PROVE BaselineInv
    OBVIOUS
  <1>1. \A d \in Dests : /\ check[d].at = "none" /\ job[d].at = "none"
                         /\ imageState[d].state = "Pending" /\ persisted[d].state = "Pending"
    BY DEF Init, NoCheck, NoJob, NewImage
  <1>2. tagged \subseteq Dests
    BY DEF Init
  <1>3. QED
    BY <1>1, <1>2 DEF BaselineInv, CheckInv, ReportInv, MemoryTruthful, SavedTruthful, Truthful

\* The snapshot is taken of an image that is to be swept, and then kept.
LEMMA ChecksKeep ==
    ASSUME FlagInv, CheckInv, Next
    PROVE  CheckInv'
  <1>1. check \in [Dests -> Check]
    BY DEF FlagInv, TypeInv, TypeOK
  <1>2. NoCheck.at = "none"
    BY DEF NoCheck
  <1>3. CASE UNCHANGED check \/ Restart
    BY <1>2, <1>3 DEF CheckInv, Restart, Sweepable
  <1>4. ASSUME NEW d \in Dests,
               BeginCheck(d) \/ TakeSnapshot(d) \/ Probe(d) \/ ProbeFails(d)
                  \/ LookUpDigest(d) \/ LookUpSignature(d) \/ ApplyCheck(d)
        PROVE  CheckInv'
    <2>1. \A x \in Dests : x # d => check'[x] = check[x]
      BY <1>1, <1>4 DEF BeginCheck, TakeSnapshot, Probe, ProbeFails, LookUpDigest,
                        LookUpSignature, ApplyCheck
    <2>2. CASE BeginCheck(d)
      <3>1. check'[d].at = "begin"
        BY <1>1, <2>2 DEF BeginCheck, NoCheck
      <3>2. QED
        BY <2>1, <3>1 DEF CheckInv, Sweepable
    <2>3. CASE TakeSnapshot(d)
      <3>1. \/ check'[d] = NoCheck
            \/ /\ Sweepable(imageState[d])
               /\ check'[d] = [check[d] EXCEPT !.at = "probe", !.snap = imageState[d],
                                  !.needsSignature = ~imageState[d].verified /\ sweep.required]
        BY <1>1, <2>3 DEF TakeSnapshot
      <3>2. \/ check'[d].at = "none"
            \/ check'[d].at = "probe" /\ Sweepable(check'[d].snap)
        BY <1>1, <1>2, <3>1 DEF Check
      <3>3. QED
        BY <2>1, <3>2 DEF CheckInv, Sweepable
    <2>4. CASE Probe(d) \/ ProbeFails(d) \/ LookUpDigest(d) \/ LookUpSignature(d)
      <3>1. /\ check[d].at \in {"probe", "digest", "signature"}
            /\ check'[d].at = "none" \/ check'[d].snap = check[d].snap
            /\ \/ check'[d].at = "none" \/ check'[d].exists \in {"yes", "no", "error"}
               \/ check[d].at # "probe" /\ check'[d].exists = check[d].exists
        <4>1. CASE Probe(d) \/ ProbeFails(d)
          BY <1>1, <1>2, <4>1 DEF Probe, ProbeFails, Check
        <4>2. CASE LookUpDigest(d) \/ LookUpSignature(d)
          <5>1. \/ \E g, a : check' = [check EXCEPT ![d].digest = g, ![d].at = a]
                \/ \E v : check' = [check EXCEPT ![d].valid = v, ![d].at = "apply"]
            BY <4>2 DEF LookUpDigest, LookUpSignature
          <5>2. check'[d].snap = check[d].snap /\ check'[d].exists = check[d].exists
            BY <1>1, <5>1 DEF Check
          <5>3. QED
            BY <4>2, <5>2 DEF LookUpDigest, LookUpSignature
        <4>3. QED
          BY <2>4, <4>1, <4>2
      <3>2. QED
        BY <2>1, <3>1 DEF CheckInv, Sweepable
    <2>5. CASE ApplyCheck(d)
      <3>1. check'[d].at = "none"
        BY <1>1, <1>2, <2>5 DEF ApplyCheck
      <3>2. QED
        BY <2>1, <3>1 DEF CheckInv, Sweepable
    <2>6. QED
      BY <1>4, <2>2, <2>3, <2>4, <2>5
  <1>5. QED
    BY <1>3, <1>4 DEF Next, OutsideStep, WorkerStep, CheckStep, TagMoves, ImageLost, Signing,
        WorkerDies, Edit, WorkerCopies, WorkerReports, BackoffElapses, Require, IntervalElapses,
        Resolve, ForceResync, EndPass, Tick, sweepVars

\* Steps that leave the entries and the workers alone, and at most lose an
\* image.
LEMMA BaselineKept ==
    ASSUME BaselineInv, CheckInv', UNCHANGED <<tagged, imageState, persisted, job>>,
           \A d \in tagged : registry'[d] \in {registry[d], NoDigest}
    PROVE  BaselineInv'
  BY DEF BaselineInv, ReportInv, MemoryTruthful, SavedTruthful, Truthful

\* Steps that change entries in memory and stop workers.
LEMMA BaselineMoved ==
    ASSUME BaselineInv, CheckInv', UNCHANGED <<tagged, registry, persisted>>,
           \A d \in tagged : job'[d].at = "none" \/ job'[d] = job[d],
           \A d \in tagged : Truthful(imageState[d], d) => Truthful(imageState[d], d)'
    PROVE  BaselineInv'
  <1>1. ReportInv' /\ MemoryTruthful'
    BY DEF BaselineInv, ReportInv, MemoryTruthful
  <1>2. ASSUME SavedTruthful PROVE SavedTruthful'
    <2>1. ASSUME NEW d \in tagged PROVE Truthful(persisted[d], d)'
      <3>1. Truthful(persisted[d], d)
        BY <1>2, <2>1 DEF SavedTruthful
      <3>2. job'[d].at = "none" \/ job'[d] = job[d]
        BY <2>1
      <3>3. QED
        BY <3>1, <3>2 DEF Truthful
    <2>2. QED
      BY <2>1 DEF SavedTruthful
  <1>3. QED
    BY <1>1, <1>2 DEF BaselineInv

\* A worker is only at an image that is not Mirrored, neither in memory nor in
\* the ConfigMap.
LEMMA WorkerCopiesTruly ==
    ASSUME FlagInv, BaselineInv, CheckInv', NEW d \in Dests, WorkerCopies(d)
    PROVE  BaselineInv'
  <1>1. /\ UNCHANGED <<tagged, imageState, persisted>> /\ job[d].at = "copy"
        /\ tagged \subseteq Dests /\ job \in [Dests -> Job]
        /\ registry \in [Dests -> Content]
    BY DEF WorkerCopies, memVars, FlagInv, TypeInv, TypeOK
  <1>2. \A x \in Dests : x # d => job'[x] = job[x] /\ registry'[x] = registry[x]
    BY <1>1 DEF WorkerCopies
  <1>3. job'[d].err = NoError
          => job'[d].found # NoDigest /\ registry'[d] = job'[d].found
    <2>1. \A g \in Holds(d, job[d].source) : g # NoDigest
      BY SweepAssumption DEF Holds, FlagInv, TypeInv, TypeOK
    <2>2. PICK g \in Holds(d, job[d].source) :
             \/ /\ registry' = [registry EXCEPT ![d] = g]
                /\ job' = [job EXCEPT ![d].at = "report", ![d].found = g]
             \/ \E e \in Errors : job' = [job EXCEPT ![d].at = "report", ![d].err = e]
      BY DEF WorkerCopies
    <2>3. CASE /\ registry' = [registry EXCEPT ![d] = g]
               /\ job' = [job EXCEPT ![d].at = "report", ![d].found = g]
      BY <1>1, <2>1, <2>3 DEF Job
    <2>4. ASSUME NEW e \in Errors, job' = [job EXCEPT ![d].at = "report", ![d].err = e]
          PROVE  job'[d].err # NoError
      BY <1>1, <2>4, ErrorsAssumption DEF Job
    <2>5. QED
      BY <2>2, <2>3, <2>4
  <1>4. ReportInv'
    BY <1>1, <1>2, <1>3 DEF BaselineInv, ReportInv
  <1>5. MemoryTruthful' /\ (SavedTruthful => SavedTruthful')
    BY <1>1, <1>2 DEF BaselineInv, MemoryTruthful, SavedTruthful, Truthful
  <1>6. QED
    BY <1>4, <1>5 DEF BaselineInv

\* A success records as baseline what the worker left at the destination.
LEMMA WorkerReportsTruly ==
    ASSUME FlagInv, BaselineInv, CheckInv', NEW d \in Dests, WorkerReports(d)
    PROVE  BaselineInv'
  <1> DEFINE e == imageState[d]
             r == job[d]
             st == IF r.err = NoError THEN "Mirrored" ELSE "Failed"
             f == SetImageState(e, st, r.err)
             g == IF st = "Mirrored" /\ Known(d) /\ d \in tagged
                  THEN [f EXCEPT !.sourceDigest = r.found] ELSE f
  <1>1. /\ e \in ImageOrNone /\ r \in Job /\ r.at = "report"
        /\ imageState \in [Dests -> ImageOrNone] /\ job \in [Dests -> Job]
        /\ tagged \subseteq Dests
    BY DEF FlagInv, TypeInv, TypeOK, ImageOrNone, WorkerReports
  <1>2. /\ UNCHANGED <<tagged, registry, persisted>> /\ job' = [job EXCEPT ![d] = NoJob]
        /\ imageState' = [imageState EXCEPT ![d] = g]
    BY DEF WorkerReports, outsideVars
  <1>3. NoJob.at = "none"
    BY DEF NoJob
  <1>4. ASSUME d \in tagged PROVE Truthful(imageState[d], d)'
    <2>1. st \in EntryState /\ r.err \in Errors \cup {NoError}
      BY <1>1 DEF EntryState, Job
    <2>2. /\ f \in ImageOrNone /\ (e \in Image => f \in Image /\ f.state = st)
          /\ ~ChangesState(e, st, r.err) => f = e
      <3> HIDE DEF e, st, r
      <3>1. QED
        BY <1>1, <2>1, SetImageStateSets DEF e, r
    <2>3. CASE e \in Image /\ st = "Mirrored"
      <3>1. Known(d)
        BY <2>3, ImageIsKnown DEF Known
      <3>2. g = [f EXCEPT !.sourceDigest = r.found]
        BY <1>4, <2>3, <3>1
      <3> HIDE DEF f, st
      <3>3. g.sourceDigest = r.found
        BY <2>2, <2>3, <3>2 DEF Image
      <3>4. r.found # NoDigest /\ registry[d] \in {r.found, NoDigest}
        BY <1>1, <1>4, <2>3 DEF BaselineInv, ReportInv, st
      <3> HIDE DEF g
      <3>5. QED
        BY <1>1, <1>2, <1>3, <3>3, <3>4 DEF Truthful
    <2>4. CASE e \in Image /\ st = "Failed"
      <3>1. g = f /\ f.state = "Failed"
        BY <2>2, <2>4
      <3> HIDE DEF g, f
      <3>2. QED
        BY <1>1, <1>2, <3>1 DEF Truthful
    <2>5. CASE e = NoImage
      <3>1. ~Known(d) /\ ~ChangesState(e, st, r.err)
        BY <2>5 DEF Known, ChangesState, NoImage, NoEntry
      <3>2. g = NoImage
        BY <2>2, <2>5, <3>1
      <3> HIDE DEF g, f
      <3>3. QED
        BY <1>1, <1>2, <3>2 DEF Truthful, NoImage, NoEntry
    <2>6. QED
      BY <1>1, <2>3, <2>4, <2>5 DEF ImageOrNone
  <1>5. \A x \in tagged : x # d => imageState'[x] = imageState[x] /\ job'[x] = job[x]
    BY <1>1, <1>2
  <1>6. \A x \in tagged : Truthful(imageState[x], x) => Truthful(imageState[x], x)'
    BY <1>2, <1>4, <1>5 DEF Truthful
  <1>7. \A x \in tagged : job'[x].at = "none" \/ job'[x] = job[x]
    BY <1>1, <1>2, <1>3
  <1>8. QED
    BY <1>2, <1>6, <1>7, BaselineMoved

LEMMA WorkerDiesTruly ==
    ASSUME FlagInv, BaselineInv, CheckInv', NEW d \in Dests, WorkerDies(d)
    PROVE  BaselineInv'
  <1> DEFINE f == SetImageState(imageState[d], "Pending", NoError)
  <1>1. /\ imageState \in [Dests -> ImageOrNone] /\ job \in [Dests -> Job] /\ tagged \subseteq Dests
    BY DEF FlagInv, TypeInv, TypeOK, ImageOrNone
  <1>2. /\ UNCHANGED <<tagged, registry, persisted>> /\ job' = [job EXCEPT ![d] = NoJob]
        /\ imageState' = [imageState EXCEPT ![d] = f]
    BY DEF WorkerDies, outsideVars
  <1>3. f.state # "Mirrored"
    <2>1. /\ imageState[d] \in Image => f.state = "Pending"
          /\ ~ChangesState(imageState[d], "Pending", NoError) => f = imageState[d]
      BY <1>1, SetImageStateSets DEF EntryState
    <2>2. imageState[d] = NoImage
            => /\ ~ChangesState(imageState[d], "Pending", NoError)
               /\ imageState[d].state = "Absent"
      BY DEF ChangesState, NoImage, NoEntry
    <2> HIDE DEF f
    <2>3. QED
      BY <1>1, <2>1, <2>2 DEF ImageOrNone
  <1> HIDE DEF f
  <1>4. Truthful(imageState[d], d)'
    BY <1>1, <1>2, <1>3 DEF Truthful
  <1>5. \A x \in tagged : x # d => imageState'[x] = imageState[x] /\ job'[x] = job[x]
    BY <1>1, <1>2
  <1>6. \A x \in tagged : Truthful(imageState[x], x) => Truthful(imageState[x], x)'
    BY <1>2, <1>4, <1>5 DEF Truthful
  <1>7. \A x \in tagged : job'[x].at = "none" \/ job'[x] = job[x]
    BY <1>1, <1>2 DEF NoJob
  <1>8. QED
    BY <1>2, <1>6, <1>7, BaselineMoved

\* Steps that leave the baseline of an entry alone, or make it one to copy.
LEMMA EntriesTruly ==
    ASSUME BaselineInv, CheckInv', UNCHANGED <<tagged, registry, persisted, job>>,
           \A d \in tagged :
              \/ imageState'[d].state # "Mirrored"
              \/ /\ imageState[d].state = "Mirrored"
                 /\ imageState'[d].permanentlyFailed = imageState[d].permanentlyFailed
                 /\ imageState'[d].sourceDigest = imageState[d].sourceDigest
    PROVE  BaselineInv'
  <1>1. \A d \in tagged : Truthful(imageState[d], d) => Truthful(imageState[d], d)'
    BY DEF Truthful
  <1>2. QED
    BY <1>1, BaselineMoved

LEMMA ResolveTruly ==
    ASSUME FlagInv, BaselineInv, CheckInv', Resolve
    PROVE  BaselineInv'
  <1> DEFINE moved == {d \in owned \ {x \in owned : wanted[x] = NoDigest} :
                          wanted[d] # imageState[d].source}
  <1>1. /\ UNCHANGED <<tagged, registry, persisted, job>> /\ tagged \subseteq Dests
        /\ imageState' = [d \in Dests |-> IF d \in moved
                                          THEN [imageState[d] EXCEPT !.source = wanted[d]]
                                          ELSE imageState[d]]
    BY DEF Resolve, outsideVars, FlagInv, TypeInv, TypeOK
  <1>2. \A d \in moved : imageState[d] \in Image
    BY DEF FlagInv, TypeInv, OwnedKnown
  <1> HIDE DEF moved
  <1>3. ASSUME NEW d \in tagged
        PROVE  /\ imageState'[d].state = imageState[d].state
               /\ imageState'[d].permanentlyFailed = imageState[d].permanentlyFailed
               /\ imageState'[d].sourceDigest = imageState[d].sourceDigest
    BY <1>1, <1>2, <1>3 DEF Image
  <1>4. QED
    BY <1>1, <1>3, EntriesTruly

LEMMA ForceResyncTruly ==
    ASSUME FlagInv, BaselineInv, CheckInv', ForceResync
    PROVE  BaselineInv'
  <1> DEFINE F(d) == [FreshCycle(imageState[d]) EXCEPT !.verified = FALSE]
  <1>1. /\ UNCHANGED <<tagged, registry, persisted, job>> /\ tagged \subseteq Dests
        /\ imageState' = [d \in Dests |-> IF Resynced(d) THEN F(d) ELSE imageState[d]]
    BY DEF ForceResync, outsideVars, FlagInv, TypeInv, TypeOK
  <1>2. ASSUME NEW d \in Dests, Resynced(d) PROVE F(d).state = "Pending"
    <2>1. imageState[d] \in Image
      BY <1>2 DEF Resynced, FlagInv, TypeInv, OwnedKnown
    <2>2. FreshCycle(imageState[d]) \in Image /\ FreshCycle(imageState[d]).state = "Pending"
      BY <2>1, FreshCycleKeeps
    <2>3. QED
      BY <2>2 DEF Image
  <1> HIDE DEF F
  <1>3. \A d \in tagged : imageState'[d].state = "Pending" \/ imageState'[d] = imageState[d]
    BY <1>1, <1>2
  <1>4. QED
    BY <1>1, <1>3, EntriesTruly

LEMMA BackoffTruly ==
    ASSUME FlagInv, BaselineInv, CheckInv', NEW d \in Dests, BackoffElapses(d)
    PROVE  BaselineInv'
  <1>1. /\ UNCHANGED <<tagged, registry, persisted, job>> /\ tagged \subseteq Dests
        /\ imageState \in [Dests -> ImageOrNone] /\ imageState[d].backingOff
        /\ imageState' = [imageState EXCEPT ![d] = [imageState[d] EXCEPT !.backingOff = FALSE]]
    BY DEF BackoffElapses, outsideVars, FlagInv, TypeInv, TypeOK, ImageOrNone
  <1>2. imageState[d] \in Image
    BY <1>1 DEF ImageOrNone, NoImage, NoEntry
  <1>3. ASSUME NEW x \in tagged
        PROVE  /\ imageState'[x].state = imageState[x].state
               /\ imageState'[x].permanentlyFailed = imageState[x].permanentlyFailed
               /\ imageState'[x].sourceDigest = imageState[x].sourceDigest
    BY <1>1, <1>2 DEF Image
  <1>4. QED
    BY <1>1, <1>3, EntriesTruly

\* A Mirrored image that stays Mirrored keeps its baseline, if it has one.
LEMMA VerifyTruly ==
    ASSUME NEW e \in Image, NEW c \in Check, c.exists # "unknown", NEW f \in Verify(e, c)
    PROVE  \/ f.state # "Mirrored"
           \/ /\ f.permanentlyFailed = e.permanentlyFailed
              /\ e.sourceDigest # NoDigest => f.sourceDigest = e.sourceDigest
  <1> DEFINE seen == IF c.digest = NoDigest THEN e
                     ELSE [e EXCEPT !.sourceDigest = c.digest]
             drifted == c.digest # NoDigest /\ e.sourceDigest \notin {NoDigest, c.digest}
  <1>1. seen \in Image /\ seen.permanentlyFailed = e.permanentlyFailed
    BY DEF Image, Check, Content
  <1>2. ~drifted /\ e.sourceDigest # NoDigest => seen.sourceDigest = e.sourceDigest
    BY DEF Image
  <1>3. FreshCycle(e).state = "Pending" /\ FreshCycle(seen).state = "Pending"
    BY <1>1, FreshCycleKeeps
  <1>4. f \in {e, FreshCycle(e), FreshCycle(seen)} \/ (~drifted /\ f \in ApplySignature(seen, c))
    BY DEF Verify, Check, Answer
  <1>5. ASSUME f \in ApplySignature(seen, c)
        PROVE  \/ f.state = "Failed"
               \/ f.permanentlyFailed = seen.permanentlyFailed /\ f.sourceDigest = seen.sourceDigest
    <2> HIDE DEF seen
    <2>1. CASE f = seen \/ f = [seen EXCEPT !.verified = TRUE]
      BY <1>1, <2>1 DEF Image
    <2>2. ASSUME NEW err \in Errors,
                 f = RecordFailure([seen EXCEPT !.state = "Failed", !.lastError = err])
          PROVE  f.state = "Failed"
      <3>1. /\ [seen EXCEPT !.state = "Failed", !.lastError = err] \in Image
            /\ [seen EXCEPT !.state = "Failed", !.lastError = err].state = "Failed"
        BY <1>1 DEF Image, EntryState
      <3>2. QED
        BY <2>2, <3>1, RecordFailureKeeps
    <2>3. QED
      BY <1>5, <2>1, <2>2 DEF ApplySignature
  <1> HIDE DEF seen, drifted
  <1>6. QED
    BY <1>1, <1>2, <1>3, <1>4, <1>5

LEMMA StaysUnmirrored ==
    ASSUME NEW e \in Image, e.state # "Mirrored", NEW flagged \in BOOLEAN, ~flagged
    PROVE  ProcessEntry(e, flagged).state # "Mirrored"
  <1>1. RetryOrGiveUp(e).state # "Mirrored"
    BY DEF RetryOrGiveUp, Image
  <1>2. ProcessEntry(e, flagged) \in {e, RetryOrGiveUp(e)}
    BY DEF ProcessEntry
  <1>3. QED
    BY <1>1, <1>2

\* A check finds the baseline of a Mirrored image confirmed, or the image is
\* copied again.
LEMMA ApplyCheckTruly ==
    ASSUME FlagInv, BaselineInv, CheckInv', NEW d \in Dests, ApplyCheck(d)
    PROVE  BaselineInv'
  <1> DEFINE c == check[d]
             e == imageState[d]
  <1>1. /\ UNCHANGED <<tagged, registry, persisted, job>> /\ tagged \subseteq Dests
        /\ imageState \in [Dests -> ImageOrNone] /\ c \in Check /\ c.at = "apply"
    BY DEF ApplyCheck, sweepFrame, outsideVars, FlagInv, TypeInv, TypeOK, ImageOrNone
  <1>2. CASE Stale(d)
    <2>1. imageState' = imageState
      BY <1>2 DEF ApplyCheck
    <2>2. QED
      BY <1>1, <2>1, EntriesTruly
  <1>3. CASE ~Stale(d)
    <2>1. e \in Image /\ e.state = c.snap.state /\ e.permanentlyFailed = c.snap.permanentlyFailed
      <3>1. e \in ImageOrNone /\ e.state # "Absent"
        BY <1>1, <1>3 DEF Stale, Known
      <3>2. QED
        BY <1>3, <3>1, KnownIsImage DEF Stale
    <2>2. Sweepable(c.snap)
      BY <1>1 DEF BaselineInv, CheckInv
    <2>3. PICK f \in IF Recovering(c) THEN {Recover(e, c)} ELSE Verify(e, c) :
            imageState' = [imageState EXCEPT ![d] = f]
      BY <1>3 DEF ApplyCheck
    <2>4. CASE Recovering(c)
      <3>1. e.permanentlyFailed
        BY <2>1, <2>2, <2>4 DEF Recovering, Sweepable
      <3>2. f = Recover(e, c)
        BY <2>3, <2>4
      <3>3. f.permanentlyFailed
        BY <2>1, <3>1, <3>2 DEF Recover, Image
      <3>4. \A x \in tagged : Truthful(imageState[x], x) => Truthful(imageState[x], x)'
        BY <1>1, <2>3, <3>3 DEF Truthful
      <3>5. QED
        BY <1>1, <3>4, BaselineMoved
    <2>5. CASE ~Recovering(c)
      <3>1. e.state = "Mirrored" /\ f \in Verify(e, c) /\ c.exists # "unknown"
        BY <1>1, <2>1, <2>2, <2>3, <2>5 DEF Recovering, Sweepable, BaselineInv, CheckInv
      <3>2. d \in tagged /\ ~e.permanentlyFailed => e.sourceDigest # NoDigest
        BY <3>1 DEF BaselineInv, MemoryTruthful, Truthful
      <3>3. \/ f.state # "Mirrored"
            \/ /\ f.permanentlyFailed = e.permanentlyFailed
               /\ e.sourceDigest # NoDigest => f.sourceDigest = e.sourceDigest
        BY <1>1, <2>1, <3>1, VerifyTruly
      <3>4. \A x \in tagged : Truthful(imageState[x], x) => Truthful(imageState[x], x)'
        BY <1>1, <2>3, <3>1, <3>2, <3>3 DEF Truthful
      <3>5. QED
        BY <1>1, <3>4, BaselineMoved
    <2>6. QED
      BY <2>4, <2>5
  <1>4. QED
    BY <1>2, <1>3

\* Phase D makes no entry Mirrored that was not, and a dispatched image is
\* saved as Pending with the flush of the same tick.
LEMMA TickTruly ==
    ASSUME FlagInv, BaselineInv, CheckInv', NEW started \in BOOLEAN, NEW saved \in BOOLEAN,
           Tick(started, saved)
    PROVE  BaselineInv'
  <1> DEFINE next == [d \in Dests |->
                        IF d \in owned THEN ProcessEntry(imageState[d], d \in mirrored)
                        ELSE NoImage]
             ready == {d \in owned : next[d].state = "Pending" /\ job[d].at = "none"
                                     /\ imageState[d].state = "Pending"}
             J(d) == [NoJob EXCEPT !.at = "copy", !.source = next[d].source]
  <1>1. /\ imageState' = next /\ UNCHANGED <<tagged, registry>> /\ tagged \subseteq Dests
        /\ persisted' = IF saved THEN next ELSE persisted
        /\ job' = [d \in Dests |-> IF started /\ d \in ready THEN J(d) ELSE job[d]]
        /\ (started /\ saved) \/ Event("apiFails")
    BY DEF Tick, outsideVars, FlagInv, TypeInv, TypeOK
  <1>2. ASSUME NEW d \in Dests
        PROVE  next[d].state # "Mirrored" \/ next[d] = imageState[d]
    <2>1. CASE d \in owned
      <3>1. /\ imageState[d] \in Image /\ (d \in mirrored) \in BOOLEAN
            /\ d \in mirrored => imageState[d].state = "Mirrored"
        BY <2>1 DEF FlagInv, TypeInv, OwnedKnown, FlagMeansMirrored
      <3>2. next[d] = ProcessEntry(imageState[d], d \in mirrored)
        BY <1>2, <2>1
      <3> HIDE DEF next
      <3>3. CASE imageState[d].state = "Mirrored"
        BY <3>2, <3>3 DEF ProcessEntry
      <3>4. CASE imageState[d].state # "Mirrored"
        BY <3>1, <3>2, <3>4, StaysUnmirrored
      <3>5. QED
        BY <3>3, <3>4
    <2>2. CASE d \notin owned
      BY <1>2, <2>2 DEF NoImage, NoEntry
    <2>3. QED
      BY <2>1, <2>2
  <1>3. \A d \in Dests : J(d).at = "copy"
    BY DEF NoJob
  <1> HIDE DEF next, J
  <1>4. ASSUME NEW d \in tagged
        PROVE  \/ job'[d] = job[d]
               \/ /\ job'[d].at = "copy"
                  /\ imageState[d].state = "Pending" /\ next[d].state = "Pending"
    BY <1>1, <1>3, <1>4
  <1>5. ReportInv'
    BY <1>1, <1>4 DEF BaselineInv, ReportInv
  <1>6. ASSUME NEW d \in tagged, next[d].state = "Mirrored", ~next[d].permanentlyFailed
        PROVE  /\ job'[d].at = "none" /\ next[d].sourceDigest # NoDigest
               /\ registry'[d] \in {next[d].sourceDigest, NoDigest}
    BY <1>1, <1>2, <1>4, <1>6 DEF BaselineInv, MemoryTruthful, Truthful
  <1>7. MemoryTruthful'
    BY <1>1, <1>6 DEF MemoryTruthful, Truthful
  <1>8. "apiFails" \notin Events => SavedTruthful'
    BY <1>1, <1>6 DEF SavedTruthful, Truthful, Event
  <1>9. QED
    BY <1>5, <1>7, <1>8 DEF BaselineInv

LEMMA RestartTruly ==
    ASSUME "apiFails" \notin Events, BaselineInv, CheckInv', Restart
    PROVE  BaselineInv'
  BY DEF BaselineInv, Restart, ReportInv, MemoryTruthful, SavedTruthful, Truthful, outsideVars

LEMMA BaselineStep ==
    ASSUME "apiFails" \notin Events \/ "restart" \notin Events,
           FlagInv, BaselineInv, [Next]_vars
    PROVE  BaselineInv'
  <1>1. CASE UNCHANGED vars
    BY <1>1 DEF vars, outsideVars, memVars, sweepVars, BaselineInv, CheckInv, Sweepable,
                ReportInv, MemoryTruthful, SavedTruthful, Truthful
  <1>2. CASE Next
    <2>1. CheckInv'
      BY <1>2, ChecksKeep DEF BaselineInv
    <2>2. ASSUME UNCHANGED <<tagged, imageState, persisted, job, registry>> PROVE BaselineInv'
      BY <2>1, <2>2, BaselineKept
    <2>3. CASE Require \/ IntervalElapses \/ EndPass
      <3>1. UNCHANGED <<tagged, imageState, persisted, job, registry>>
        BY <2>3 DEF Require, IntervalElapses, EndPass, outsideVars, memVars, sweepFrame
      <3>2. QED
        BY <2>2, <3>1
    <2>4. ASSUME NEW d \in Dests, OutsideStep(d) PROVE BaselineInv'
      <3>1. CASE WorkerDies(d)
        BY <2>1, <3>1, WorkerDiesTruly
      <3>2. CASE ~WorkerDies(d)
        <4>1. /\ UNCHANGED <<tagged, imageState, persisted, job>>
              /\ \A x \in tagged : registry'[x] \in {registry[x], NoDigest}
          BY <2>4, <3>2 DEF OutsideStep, TagMoves, ImageLost, Signing, ProbeFails, Edit, memVars,
                            outsideVars, sweepFrame, FlagInv, TypeInv, TypeOK
        <4>2. QED
          BY <2>1, <4>1, BaselineKept
      <3>3. QED
        BY <3>1, <3>2
    <2>5. ASSUME NEW d \in Dests, WorkerStep(d) \/ BackoffElapses(d) PROVE BaselineInv'
      BY <2>1, <2>5, WorkerCopiesTruly, WorkerReportsTruly, BackoffTruly DEF WorkerStep
    <2>6. ASSUME NEW d \in Dests, CheckStep(d) PROVE BaselineInv'
      <3>1. CASE ApplyCheck(d)
        BY <2>1, <3>1, ApplyCheckTruly
      <3>2. CASE ~ApplyCheck(d)
        <4>1. UNCHANGED <<tagged, imageState, persisted, job, registry>>
          BY <2>6, <3>2 DEF CheckStep, BeginCheck, TakeSnapshot, Probe, LookUpDigest,
                            LookUpSignature, outsideVars, memVars, sweepFrame
        <4>2. QED
          BY <2>2, <4>1
      <3>3. QED
        BY <3>1, <3>2
    <2>7. CASE Restart
      <3>1. "apiFails" \notin Events
        BY <2>7 DEF Restart, Event
      <3>2. QED
        BY <2>1, <2>7, <3>1, RestartTruly
    <2>8. QED
      BY <1>2, <2>1, <2>3, <2>4, <2>5, <2>6, <2>7, ResolveTruly, ForceResyncTruly, TickTruly
      DEF Next
  <1>3. QED
    BY <1>1, <1>2

(* The baseline never hides drift: whenever it equals what the source holds,
   so does the registry, unless the image was lost there.  This is so for any
   number of moves of the tag, of edits, failed copies and late checks, as long
   as a failed flush and a crash do not come together: then the entry of an
   earlier copy comes back. *)
THEOREM DriftIsNeverHidden ==
    ASSUME "apiFails" \notin Events \/ "restart" \notin Events
    PROVE  Spec => []DriftStaysVisible
  <1>1. FlagInv /\ BaselineInv /\ [Next]_vars => BaselineInv'
    BY BaselineStep
  <1>2. BaselineInv => DriftStaysVisible
    BY DEF BaselineInv, MemoryTruthful, Truthful, DriftStaysVisible
  <1>3. QED
    BY <1>1, <1>2, BaselineInit, FlagInvHolds, PTL DEF Spec

=============================================================================
