----------------------- MODULE ManagerDispatchProofs -----------------------
(***************************************************************************)
(* Theorems about ManagerDispatch, for every set of destinations and pods, *)
(* every concurrency, batch size and retry budget, and any number of       *)
(* outside events.                                                         *)
(***************************************************************************)
EXTENDS ManagerDispatch, SequenceTheorems, FiniteSetTheorems, TLAPS

-----------------------------------------------------------------------------
(* The operators on entries keep the type of an entry *)

EntryOrNone == Entry \cup {NoEntry}

\* Recording a failure keeps an entry an entry.
LEMMA RecordFailureType ==
    ASSUME NEW e \in Entry
    PROVE  RecordFailure(e) \in Entry
  <1>1. (e.permanentlyFailed \/ e.retryCount + 1 >= MaxRetries) \in BOOLEAN
    OBVIOUS
  <1>2. e.retryCount + 1 \in Nat
    BY DEF Entry
  <1>3. QED
    BY <1>1, <1>2 DEF RecordFailure, Entry

\* setImageStateLocked on a known entry gives an entry, on an unknown one
\* nothing.
LEMMA SetImageStateType ==
    ASSUME NEW e \in EntryOrNone, NEW st \in EntryState,
           NEW err \in Errors \cup {NoError}
    PROVE  SetImageState(e, st, err) \in EntryOrNone
  <1>1. CASE e = NoEntry
    BY <1>1 DEF SetImageState, ChangesState, NoEntry, EntryOrNone
  <1>2. CASE e \in Entry
    <2> DEFINE f == [e EXCEPT !.state = st, !.lastError = err]
    <2>1. f \in Entry
      BY <1>2 DEF Entry
    <2>2. RecordFailure(f) \in Entry
      BY <2>1, RecordFailureType
    <2>3. [f EXCEPT !.backingOff = FALSE] \in Entry
      BY <2>1 DEF Entry
    <2> HIDE DEF f
    <2>4. QED
      BY <1>2, <2>1, <2>2, <2>3 DEF SetImageState, EntryOrNone, f
  <1>3. QED
    BY <1>1, <1>2 DEF EntryOrNone

\* A fresh retry cycle keeps an entry an entry.
LEMMA FreshCycleType ==
    ASSUME NEW e \in Entry
    PROVE  FreshCycle(e) \in Entry
  BY DEF FreshCycle, Entry, EntryState

\* Phase D keeps an entry an entry.
LEMMA ProcessEntryType ==
    ASSUME NEW e \in EntryOrNone, NEW flagged \in BOOLEAN
    PROVE  ProcessEntry(e, flagged) \in EntryOrNone
  <1>1. CASE e = NoEntry
    BY <1>1 DEF ProcessEntry, RetryOrGiveUp, NoEntry, EntryOrNone, Entry, EntryState
  <1>2. CASE e \in Entry
    <2>1. [e EXCEPT !.state = "Mirrored"] \in Entry
      BY <1>2 DEF Entry, EntryState
    <2>2. [e EXCEPT !.state = "Pending"] \in Entry
      BY <1>2 DEF Entry, EntryState
    <2>3. [e EXCEPT !.permanentlyFailed = TRUE] \in Entry
      BY <1>2 DEF Entry
    <2>4. QED
      BY <1>2, <2>1, <2>2, <2>3 DEF ProcessEntry, RetryOrGiveUp, EntryOrNone
  <1>3. QED
    BY <1>1, <1>2 DEF EntryOrNone
-----------------------------------------------------------------------------
(* The operators on workers keep the type of a worker *)

\* A worker that ends, moves on or repeats a send is a worker.
LEMMA WorkerType ==
    /\ NoWorker \in Worker
    /\ \A B \in SUBSET Dests : NewWorker(B) \in Worker
    /\ \A w \in Worker : /\ NextItem(w) \in Worker
                         /\ SendFailed(w) \in Worker
                         /\ Ended(w, "Failed") \in Worker
                         /\ Ended(w, "Succeeded") \in Worker
  <1>1. NoWorker \in Worker
    BY DEF NoWorker, Worker, PodPhase
  <1>2. ASSUME NEW B \in SUBSET Dests
        PROVE  NewWorker(B) \in Worker
    BY DEF NewWorker, NoWorker, Worker, PodPhase
  <1>3. ASSUME NEW w \in Worker
        PROVE  NextItem(w) \in Worker
    BY DEF NextItem, Worker
  <1>4. ASSUME NEW w \in Worker
        PROVE  SendFailed(w) \in Worker
    <2>1. w.tries + 1 \in Nat
      BY DEF Worker
    <2>2. [w EXCEPT !.step = "report", !.tries = @ + 1] \in Worker
      BY <2>1 DEF Worker
    <2>3. QED
      BY <1>3, <2>2 DEF SendFailed
  <1>5. ASSUME NEW w \in Worker, NEW ph \in {"Failed", "Succeeded"}
        PROVE  Ended(w, ph) \in Worker
    BY DEF Ended, Worker, PodPhase
  <1>6. QED
    BY <1>1, <1>2, <1>3, <1>4, <1>5

-----------------------------------------------------------------------------
(* Type correctness *)

\* A worker that is past the choice of its next item has one.
ItemOK == \A p \in Pods : pods[p].step # "next" => pods[p].cur \in Dests

TypeInv == TypeOK /\ ItemOK

\* Every action keeps every variable in its type.
LEMMA TypeStep ==
    ASSUME TypeInv, [Next]_vars
    PROVE  TypeOK'
  <1> USE DEF specVars, podVars, memVars, tickVars, queueVars, workerFrame,
          tickFrame
  <1>0. OutsideTypeOK /\ PodsTypeOK /\ MemTypeOK /\ QueueTypeOK /\ TickTypeOK
    BY DEF TypeInv, TypeOK
  <1>00. ItemOK
    BY DEF TypeInv
  <1>1. ASSUME NEW W \in SUBSET Dests, EditSpec(W)
        PROVE  TypeOK'
    <2>1. OutsideTypeOK'
      BY <1>0, <1>1 DEF EditSpec, OutsideTypeOK, Event
    <2>2. QED
      BY <1>0, <1>1, <2>1 DEF EditSpec, TypeOK, PodsTypeOK, MemTypeOK, QueueTypeOK, TickTypeOK
  <1>2. ASSUME NEW note \in {"resync", "recollect"}, Annotate(note)
        PROVE  TypeOK'
    <2>1. OutsideTypeOK'
      BY <1>0, <1>2 DEF Annotate, OutsideTypeOK, Event
    <2>2. QED
      BY <1>0, <1>2, <2>1 DEF Annotate, TypeOK, PodsTypeOK, MemTypeOK, QueueTypeOK, TickTypeOK
  <1>3. ASSUME NEW d \in Dests, CleanupOrphan(d)
        PROVE  TypeOK'
    <2>1. OutsideTypeOK'
      BY <1>0, <1>3 DEF CleanupOrphan, OutsideTypeOK
    <2>2. QED
      BY <1>0, <1>3, <2>1 DEF CleanupOrphan, TypeOK, PodsTypeOK, MemTypeOK, QueueTypeOK, TickTypeOK
  <1>4. ASSUME NEW d \in Dests, BackoffElapses(d)
        PROVE  TypeOK'
    <2> DEFINE e == [imageState[d] EXCEPT !.backingOff = FALSE]
    <2>a. imageState[d] \in Entry
      BY <1>0, <1>4 DEF BackoffElapses, MemTypeOK, NoEntry
    <2>b. e \in Entry
      BY <2>a DEF Entry
    <2>c. imageState' = [imageState EXCEPT ![d] = e]
      BY <1>4 DEF BackoffElapses
    <2>1. MemTypeOK'
      BY <1>0, <1>4, <2>b, <2>c DEF BackoffElapses, MemTypeOK
    <2>2. QED
      BY <1>0, <1>4, <2>1 DEF BackoffElapses, TypeOK, OutsideTypeOK, PodsTypeOK, QueueTypeOK, TickTypeOK
  <1>5. ASSUME NEW p \in Pods, PodStart(p)
        PROVE  TypeOK'
    <2>1. PodsTypeOK'
      BY <1>0, <1>5 DEF PodStart, PodsTypeOK, Worker, PodPhase
    <2>2. QED
      BY <1>0, <1>5, <2>1 DEF PodStart, TypeOK, OutsideTypeOK, MemTypeOK, QueueTypeOK, TickTypeOK
  <1>6. ASSUME NEW p \in Pods, PodGetsStuck(p)
        PROVE  TypeOK'
    <2>1. OutsideTypeOK'
      BY <1>0, <1>6 DEF PodGetsStuck, OutsideTypeOK, Event
    <2>a. [pods[p] EXCEPT !.phase = "Stuck"] \in Worker
      BY <1>0 DEF PodsTypeOK, Worker, PodPhase
    <2>2. PodsTypeOK'
      BY <1>0, <1>6, <2>a DEF PodGetsStuck, PodsTypeOK
    <2>3. QED
      BY <1>0, <1>6, <2>1, <2>2 DEF PodGetsStuck, TypeOK, MemTypeOK, QueueTypeOK, TickTypeOK
  <1>7. ASSUME NEW p \in Pods, PodDies(p)
        PROVE  TypeOK'
    <2>1. OutsideTypeOK'
      BY <1>0, <1>7 DEF PodDies, OutsideTypeOK, Event
    <2>2. PodsTypeOK'
      BY <1>0, <1>7, WorkerType DEF PodDies, PodsTypeOK
    <2>3. QED
      BY <1>0, <1>7, <2>1, <2>2 DEF PodDies, TypeOK, MemTypeOK, QueueTypeOK, TickTypeOK
  <1>8. ASSUME NEW p \in Pods, PodFinishes(p)
        PROVE  TypeOK'
    <2>1. PodsTypeOK'
      BY <1>0, <1>8, WorkerType DEF PodFinishes, PodsTypeOK
    <2>2. QED
      BY <1>0, <1>8, <2>1 DEF PodFinishes, TypeOK, OutsideTypeOK, MemTypeOK, QueueTypeOK, TickTypeOK
  <1>9. ASSUME NEW p \in Pods, NEW d \in Dests, BeginItem(p, d)
        PROVE  TypeOK'
    <2>1. PodsTypeOK'
      BY <1>0, <1>9 DEF BeginItem, PodsTypeOK, Worker
    <2>2. QED
      BY <1>0, <1>9, <2>1 DEF BeginItem, TypeOK, OutsideTypeOK, MemTypeOK, QueueTypeOK, TickTypeOK
  <1>10. ASSUME NEW p \in Pods, NEW d \in Dests, SkipItem(p, d)
        PROVE  TypeOK'
    <2>1. OutsideTypeOK'
      BY <1>0, <1>10 DEF SkipItem, OutsideTypeOK, Event
    <2>2. PodsTypeOK'
      BY <1>0, <1>10 DEF SkipItem, PodsTypeOK, Worker
    <2>3. QED
      BY <1>0, <1>10, <2>1, <2>2 DEF SkipItem, TypeOK, MemTypeOK, QueueTypeOK, TickTypeOK
  <1>11. ASSUME NEW p \in Pods, CopyItem(p)
        PROVE  TypeOK'
    <2>1. OutsideTypeOK'
      BY <1>0, <1>00, <1>11 DEF CopyItem, OutsideTypeOK, ItemOK
    <2>2. PodsTypeOK'
      BY <1>0, <1>11 DEF CopyItem, PodsTypeOK, Worker
    <2>3. QED
      BY <1>0, <1>11, <2>1, <2>2 DEF CopyItem, TypeOK, MemTypeOK, QueueTypeOK, TickTypeOK
  <1>12. ASSUME NEW p \in Pods, DeliverReport(p)
        PROVE  TypeOK'
    <2>1. PodsTypeOK'
      BY <1>0, <1>12 DEF DeliverReport, PodsTypeOK, Worker
    <2> DEFINE r == [pod |-> p, dest |-> pods[p].cur, err |-> pods[p].err]
    <2>a. r \in Report
      BY <1>0, <1>00, <1>12 DEF DeliverReport, Worker, Report, PodsTypeOK, ItemOK
    <2>b. Append(statusQueue, r) \in Seq(Report)
      BY <1>0, <2>a DEF QueueTypeOK
    <2>c. /\ mu' \in {mu, "handler"}
          /\ statusQueue' \in {<<>>, Append(statusQueue, r)}
          /\ queued' \in {queued, Append(statusQueue, r)}
      BY <1>12 DEF DeliverReport
    <2> HIDE DEF r
    <2>d. <<>> \in Seq(Report)
      OBVIOUS
    <2>2. QueueTypeOK'
      BY <1>0, <2>b, <2>c, <2>d DEF QueueTypeOK
    <2>3. QED
      BY <1>0, <1>12, <2>1, <2>2 DEF DeliverReport, TypeOK, OutsideTypeOK, MemTypeOK, TickTypeOK
  <1>13. ASSUME NEW p \in Pods, AckReport(p)
        PROVE  TypeOK'
    <2>a. Acknowledged(pods[p]) \in Worker
      BY <1>0, <1>00, <1>13, WorkerType
         DEF AckReport, Acknowledged, PodsTypeOK, Worker, ItemOK
    <2>1. PodsTypeOK'
      BY <1>0, <1>13, <2>a DEF AckReport, PodsTypeOK
    <2>2. QED
      BY <1>0, <1>13, <2>1 DEF AckReport, TypeOK, OutsideTypeOK, MemTypeOK, QueueTypeOK, TickTypeOK
  <1>14. ASSUME NEW p \in Pods, LoseAck(p)
        PROVE  TypeOK'
    <2>1. OutsideTypeOK'
      BY <1>0, <1>14 DEF LoseAck, OutsideTypeOK, Event
    <2>2. PodsTypeOK'
      BY <1>0, <1>14, WorkerType DEF LoseAck, PodsTypeOK
    <2>3. QED
      BY <1>0, <1>14, <2>1, <2>2 DEF LoseAck, TypeOK, MemTypeOK, QueueTypeOK, TickTypeOK
  <1>15. ASSUME NEW p \in Pods, LoseReport(p)
        PROVE  TypeOK'
    <2>1. OutsideTypeOK'
      BY <1>0, <1>15 DEF LoseReport, OutsideTypeOK, Event
    <2>2. PodsTypeOK'
      BY <1>0, <1>15, WorkerType DEF LoseReport, PodsTypeOK
    <2>3. QED
      BY <1>0, <1>15, <2>1, <2>2 DEF LoseReport, TypeOK, MemTypeOK, QueueTypeOK, TickTypeOK
  <1>16. CASE ApplyStatus
    <2> DEFINE r == Head(queued)
               st == IF r.err = NoError THEN "Mirrored" ELSE "Failed"
               e == SetImageState(imageState[r.dest], st, r.err)
    <2>a. r \in Report
      BY <1>0, <1>16 DEF ApplyStatus, QueueTypeOK
    <2>b. e \in EntryOrNone
      BY <1>0, <2>a, SetImageStateType
         DEF Report, MemTypeOK, EntryOrNone, EntryState
    <2>c. /\ imageState' = [imageState EXCEPT ![r.dest] = e]
          /\ mirrored' \subseteq mirrored \cup {r.dest}
          /\ stateDirty' \in BOOLEAN
          /\ inProgress' = [inProgress EXCEPT ![r.dest] = NoPod]
          /\ UNCHANGED <<up, owned>>
      BY <1>16 DEF ApplyStatus, Unflag
    <2>1. MemTypeOK'
      BY <1>0, <2>a, <2>b, <2>c DEF MemTypeOK, EntryOrNone, Report
    <2>2. QueueTypeOK'
      BY <1>0, <1>16 DEF ApplyStatus, QueueTypeOK
    <2>3. QED
      BY <1>0, <1>16, <2>1, <2>2 DEF ApplyStatus, TypeOK, OutsideTypeOK, PodsTypeOK, TickTypeOK
  <1>17. CASE CleanupSnapshot
    <2>1. TickTypeOK'
      BY <1>0, <1>17 DEF CleanupSnapshot, TickTypeOK, MemTypeOK, ReconcileStep
    <2>2. QED
      BY <1>0, <1>17, <2>1 DEF CleanupSnapshot, TypeOK, OutsideTypeOK, PodsTypeOK, MemTypeOK, QueueTypeOK
  <1>18. CASE CleanupList
    <2>1. TickTypeOK'
      BY <1>0, <1>18 DEF CleanupList, TickTypeOK, ReconcileStep, Verdict, JudgePod
    <2>2. QED
      BY <1>0, <1>18, <2>1 DEF CleanupList, TypeOK, OutsideTypeOK, PodsTypeOK, MemTypeOK, QueueTypeOK
  <1>19. CASE CleanupListFails
    <2>1. OutsideTypeOK'
      BY <1>0, <1>19 DEF CleanupListFails, OutsideTypeOK, Event
    <2>2. TickTypeOK'
      BY <1>0, <1>19 DEF CleanupListFails, TickTypeOK, ReconcileStep
    <2>3. QED
      BY <1>0, <1>19, <2>1, <2>2 DEF CleanupListFails, TypeOK, PodsTypeOK, MemTypeOK, QueueTypeOK
  <1>20. CASE CleanupLock
    <2>1. QueueTypeOK'
      BY <1>0, <1>20 DEF CleanupLock, QueueTypeOK, LockAndDrain
    <2>2. TickTypeOK'
      BY <1>0, <1>20 DEF CleanupLock, TickTypeOK, ReconcileStep
    <2>3. QED
      BY <1>0, <1>20, <2>1, <2>2 DEF CleanupLock, TypeOK, OutsideTypeOK, PodsTypeOK, MemTypeOK
  <1>21. CASE CleanupApply
    <2>1. MemTypeOK'
      BY <1>0, <1>21, SetImageStateType DEF CleanupApply, Unflag, MemTypeOK, ResetByCleanup, EntryOrNone, EntryState
    <2>2. QueueTypeOK'
      BY <1>0, <1>21 DEF CleanupApply, QueueTypeOK
    <2>3. TickTypeOK'
      BY <1>0, <1>21 DEF CleanupApply, TickTypeOK, ReconcileStep
    <2>4. QED
      BY <1>0, <1>21, <2>1, <2>2, <2>3 DEF CleanupApply, TypeOK, OutsideTypeOK, PodsTypeOK
  <1>22. ASSUME NEW kept \in SUBSET doomed, CleanupDelete(kept)
        PROVE  TypeOK'
    <2>1. OutsideTypeOK'
      BY <1>0, <1>22 DEF CleanupDelete, OutsideTypeOK, Event
    <2>2. PodsTypeOK'
      BY <1>0, <1>22, WorkerType DEF CleanupDelete, PodsTypeOK
    <2>3. TickTypeOK'
      BY <1>0, <1>22 DEF CleanupDelete, TickTypeOK, ReconcileStep, Verdict
    <2>4. QED
      BY <1>0, <1>22, <2>1, <2>2, <2>3 DEF CleanupDelete, TypeOK, MemTypeOK, QueueTypeOK
  <1>23. CASE ReconcileLock
    <2>1. QueueTypeOK'
      BY <1>0, <1>23 DEF ReconcileLock, QueueTypeOK, LockAndDrain
    <2>2. TickTypeOK'
      BY <1>0, <1>23 DEF ReconcileLock, TickTypeOK, ReconcileStep
    <2>3. QED
      BY <1>0, <1>23, <2>1, <2>2 DEF ReconcileLock, TypeOK, OutsideTypeOK, PodsTypeOK, MemTypeOK
  <1>24. CASE ReconcileReadFails
    <2>1. OutsideTypeOK'
      BY <1>0, <1>24 DEF ReconcileReadFails, OutsideTypeOK, Event
    <2>2. QueueTypeOK'
      BY <1>0, <1>24 DEF ReconcileReadFails, QueueTypeOK
    <2>3. TickTypeOK'
      BY <1>0, <1>24 DEF ReconcileReadFails, TickTypeOK, ReconcileStep
    <2>4. QED
      BY <1>0, <1>24, <2>1, <2>2, <2>3 DEF ReconcileReadFails, TypeOK, PodsTypeOK, MemTypeOK
  <1>25. ASSUME NEW found \in {persisted, NothingLoaded}, ReconcileLoad(found)
        PROVE  TypeOK'
    <2> DEFINE base == IF \A d \in Dests : imageState[d].state = "Absent"
                       THEN found ELSE imageState
    <2>a. base \in [Dests -> EntryOrNone]
      BY <1>0 DEF OutsideTypeOK, MemTypeOK, NothingLoaded, EntryOrNone
    <2>b. \A d \in Dests : base[d].state # "Absent" => FreshCycle(base[d]) \in Entry
      BY <2>a, FreshCycleType DEF EntryOrNone, NoEntry
    <2>c. imageState' \in [Dests -> EntryOrNone]
      <3> HIDE DEF base
      <3>1. QED
        BY <1>25, <2>a, <2>b DEF ReconcileLoad, EntryOrNone, base
    <2>1. MemTypeOK'
      BY <1>0, <1>25, <2>c DEF ReconcileLoad, Unflag, MemTypeOK, EntryOrNone
    <2>2. QueueTypeOK'
      BY <1>0, <1>25 DEF ReconcileLoad, QueueTypeOK, GoOn
    <2>3. TickTypeOK'
      BY <1>0, <1>25 DEF ReconcileLoad, TickTypeOK, OutsideTypeOK, Tick, ReconcileStep, GoOn
    <2>d. budget' \in Nat
      BY <1>0, <1>25 DEF ReconcileLoad, Event, OutsideTypeOK
    <2>4. OutsideTypeOK'
      BY <1>0, <1>25, <2>d DEF ReconcileLoad, OutsideTypeOK
    <2>5. QED
      BY <1>0, <1>25, <2>1, <2>2, <2>3, <2>4 DEF ReconcileLoad, TypeOK, PodsTypeOK
  <1>26. CASE ClearResync
    <2>a. /\ annotations' \subseteq annotations
          /\ UNCHANGED <<wanted, dropped, gen, observedGen, pollDue, persisted,
                         orphans, registry>>
      BY <1>26 DEF ClearResync
    <2>b. budget' \in Nat
      BY <1>0, <1>26 DEF ClearResync, Event, OutsideTypeOK
    <2>1. OutsideTypeOK'
      BY <1>0, <2>a, <2>b DEF OutsideTypeOK
    <2>2. QueueTypeOK'
      BY <1>0, <1>26 DEF ClearResync, QueueTypeOK, GoOn
    <2>3. TickTypeOK'
      BY <1>0, <1>26 DEF ClearResync, TickTypeOK, ReconcileStep, GoOn
    <2>4. QED
      BY <1>0, <1>26, <2>1, <2>2, <2>3 DEF ClearResync, TypeOK, PodsTypeOK, MemTypeOK
  <1>27. CASE ResolveDone
    <2>d. budget' \in Nat /\ annotations' \subseteq annotations
      BY <1>0, <1>27 DEF ResolveDone, Event, OutsideTypeOK
    <2>1. OutsideTypeOK'
      BY <1>0, <1>27, <2>d DEF ResolveDone, OutsideTypeOK
    <2>a. NewEntry \in Entry
      BY DEF NewEntry, Entry, EntryState
    <2>b. \A d \in Dests : imageState[d].state = "Failed"
                             => FreshCycle(imageState[d]) \in Entry
      BY <1>0, FreshCycleType DEF MemTypeOK, NoEntry
    <2>c. imageState' \in [Dests -> EntryOrNone]
      BY <1>0, <1>27, <2>a, <2>b DEF ResolveDone, MemTypeOK, EntryOrNone
    <2>2. MemTypeOK'
      BY <1>0, <1>27, <2>c DEF ResolveDone, MemTypeOK, EntryOrNone, TickTypeOK, Tick
    <2>3. QueueTypeOK'
      BY <1>0, <1>27 DEF ResolveDone, QueueTypeOK
    <2>4. TickTypeOK'
      BY <1>0, <1>27 DEF ResolveDone, TickTypeOK, ReconcileStep, Tick
    <2>5. QED
      BY <1>0, <1>27, <2>1, <2>2, <2>3, <2>4 DEF ResolveDone, TypeOK, PodsTypeOK
  <1>28. CASE ResolveFails
    <2>1. OutsideTypeOK'
      BY <1>0, <1>28 DEF ResolveFails, OutsideTypeOK, Event
    <2>2. QueueTypeOK'
      BY <1>0, <1>28 DEF ResolveFails, QueueTypeOK
    <2>3. TickTypeOK'
      BY <1>0, <1>28 DEF ResolveFails, TickTypeOK, ReconcileStep
    <2>4. QED
      BY <1>0, <1>28, <2>1, <2>2, <2>3 DEF ResolveFails, TypeOK, PodsTypeOK, MemTypeOK
  <1>29. CASE ProcessEntries
    <2>1. OutsideTypeOK'
      BY <1>0, <1>29 DEF ProcessEntries, OutsideTypeOK, Event
    <2>2. MemTypeOK'
      BY <1>0, <1>29, ProcessEntryType DEF ProcessEntries, MemTypeOK, EntryOrNone
    <2>3. TickTypeOK'
      BY <1>0, <1>29 DEF ProcessEntries, TickTypeOK, MemTypeOK, ReconcileStep
    <2>4. QED
      BY <1>0, <1>29, <2>1, <2>2, <2>3 DEF ProcessEntries, TypeOK, PodsTypeOK, QueueTypeOK
  <1>30. ASSUME NEW B \in SUBSET Dests, NEW p \in Pods, StartBatch(B, p)
        PROVE  TypeOK'
    <2>1. PodsTypeOK'
      BY <1>0, <1>30, WorkerType DEF StartBatch, PodsTypeOK
    <2>2. MemTypeOK'
      BY <1>0, <1>30 DEF StartBatch, MemTypeOK
    <2>3. TickTypeOK'
      BY <1>0, <1>30 DEF StartBatch, TickTypeOK
    <2>4. QED
      BY <1>0, <1>30, <2>1, <2>2, <2>3 DEF StartBatch, TypeOK, OutsideTypeOK, QueueTypeOK
  <1>31. ASSUME NEW B \in SUBSET Dests, StartBatchFails(B)
        PROVE  TypeOK'
    <2>1. OutsideTypeOK'
      BY <1>0, <1>31 DEF StartBatchFails, OutsideTypeOK, Event
    <2>2. TickTypeOK'
      BY <1>0, <1>31 DEF StartBatchFails, TickTypeOK
    <2>3. QED
      BY <1>0, <1>31, <2>1, <2>2 DEF StartBatchFails, TypeOK, PodsTypeOK, MemTypeOK, QueueTypeOK
  <1>32. CASE EndDispatch
    <2>1. QueueTypeOK'
      BY <1>0, <1>32 DEF EndDispatch, QueueTypeOK
    <2>2. TickTypeOK'
      BY <1>0, <1>32 DEF EndDispatch, TickTypeOK, ReconcileStep
    <2>3. QED
      BY <1>0, <1>32, <2>1, <2>2 DEF EndDispatch, TypeOK, OutsideTypeOK, PodsTypeOK, MemTypeOK
  <1>33. ASSUME NEW saved \in BOOLEAN, NEW recorded \in BOOLEAN,
                Flush(saved, recorded)
         PROVE  TypeOK'
    <2>a. budget' \in Nat
      BY <1>0, <1>33 DEF Flush, Event, OutsideTypeOK
    <2>b. observedGen' \in Nat /\ pollDue' \in BOOLEAN
      BY <1>0, <1>33 DEF Flush, OutsideTypeOK
    <2>c. persisted' \in [Dests -> EntryOrNone]
      BY <1>0, <1>33 DEF Flush, OutsideTypeOK, MemTypeOK, EntryOrNone
    <2>1. OutsideTypeOK'
      BY <1>0, <1>33, <2>a, <2>b, <2>c DEF Flush, OutsideTypeOK, EntryOrNone
    <2>2. MemTypeOK'
      BY <1>0, <1>33 DEF Flush, MemTypeOK
    <2>3. QueueTypeOK'
      BY <1>0, <1>33 DEF Flush, QueueTypeOK
    <2>4. TickTypeOK'
      BY <1>0, <1>33 DEF Flush, TickTypeOK, ReconcileStep, NoTick, Tick
    <2>5. QED
      BY <1>0, <1>33, <2>1, <2>2, <2>3, <2>4 DEF Flush, TypeOK, PodsTypeOK
  <1>34. CASE Crash
    <2>1. OutsideTypeOK'
      BY <1>0, <1>34 DEF Crash, OutsideTypeOK, Event
    <2>a. ASSUME NEW w \in Worker
          PROVE  [w EXCEPT !.acked = {}] \in Worker
      BY DEF Worker
    <2>2. PodsTypeOK'
      BY <1>0, <1>34, <2>a, WorkerType DEF Crash, PodsTypeOK
    <2>3. MemTypeOK'
      BY <1>0, <1>34 DEF Crash, MemTypeOK
    <2>4. QueueTypeOK'
      BY <1>0, <1>34 DEF Crash, QueueTypeOK
    <2>5. TickTypeOK'
      BY <1>0, <1>34 DEF Crash, TickTypeOK, ReconcileStep, NoTick, Tick, Verdict
    <2>6. QED
      BY <1>0, <1>34, <2>1, <2>2, <2>3, <2>4, <2>5 DEF Crash, TypeOK
  <1>35. ASSUME NEW ip \in [Dests -> Pods \cup {NoPod}], Restart(ip)
        PROVE  TypeOK'
    <2>1. OutsideTypeOK'
      BY <1>0, <1>35 DEF Restart, OutsideTypeOK, Event, SyncFromPods
    <2>2. PodsTypeOK'
      BY <1>0, <1>35, WorkerType DEF Restart, PodsTypeOK, SyncFromPods
    <2>3. MemTypeOK'
      BY <1>0, <1>35 DEF Restart, MemTypeOK, SyncFromPods
    <2>4. TickTypeOK'
      BY <1>0, <1>35 DEF Restart, TickTypeOK, ReconcileStep
    <2>5. QED
      BY <1>0, <1>35, <2>1, <2>2, <2>3, <2>4 DEF Restart, TypeOK, QueueTypeOK
  <1>36. CASE PollElapses
    <2>1. OutsideTypeOK'
      BY <1>0, <1>36 DEF PollElapses, OutsideTypeOK
    <2>2. QED
      BY <1>0, <1>36, <2>1 DEF PollElapses, TypeOK, PodsTypeOK, MemTypeOK, QueueTypeOK, TickTypeOK
  <1>37. CASE UNCHANGED vars
    BY <1>0, <1>37 DEF vars, TypeOK, OutsideTypeOK, PodsTypeOK, MemTypeOK, QueueTypeOK, TickTypeOK
  <1>38. QED
    BY <1>1, <1>2, <1>3, <1>4, <1>5, <1>6, <1>7, <1>8, <1>9, <1>10, <1>11, <1>12, <1>13, <1>14, <1>15, <1>16, <1>17, <1>18, <1>19, <1>20, <1>21, <1>22, <1>23, <1>24, <1>25, <1>26, <1>27, <1>28, <1>29, <1>30, <1>31, <1>32, <1>33, <1>34, <1>35, <1>37, <1>36 DEF Next, OutsideStep, WorkerStep, WorkerFault,
       ReconcileStepDone, RestartStep

\* An item stays chosen until the worker moves on.
LEMMA ItemStep ==
    ASSUME TypeInv, [Next]_vars
    PROVE  ItemOK'
  <1> USE DEF specVars, podVars, memVars, tickVars, queueVars, workerFrame,
          tickFrame
  <1>0. PodsTypeOK /\ ItemOK
    BY DEF TypeInv, TypeOK
  <1>1. ASSUME NEW p \in Pods, WorkerStep(p)
        PROVE  ItemOK'
    <2> USE DEF ItemOK
    <2>1. CASE PodStart(p)
      BY <1>0, <2>1 DEF PodStart, PodsTypeOK, Worker
    <2>2. CASE PodFinishes(p)
      BY <1>0, <2>2 DEF PodFinishes, PodsTypeOK, Worker, Ended
    <2>3. ASSUME NEW d \in Dests, BeginItem(p, d) \/ SkipItem(p, d)
          PROVE  ItemOK'
      BY <1>0, <2>3 DEF BeginItem, SkipItem, PodsTypeOK, Worker
    <2>4. CASE CopyItem(p)
      BY <1>0, <2>4 DEF CopyItem, PodsTypeOK, Worker
    <2>5. CASE DeliverReport(p)
      BY <1>0, <2>5 DEF DeliverReport, PodsTypeOK, Worker
    <2>6. CASE AckReport(p)
      BY <1>0, <2>6 DEF AckReport, Acknowledged, NextItem, PodsTypeOK, Worker
    <2>7. QED
      BY <1>1, <2>1, <2>2, <2>3, <2>4, <2>5, <2>6 DEF WorkerStep
  <1>2. ASSUME NEW p \in Pods, WorkerFault(p)
        PROVE  ItemOK'
    <2> USE DEF ItemOK
    <2>1. CASE PodGetsStuck(p)
      BY <1>0, <2>1 DEF PodGetsStuck, PodsTypeOK, Worker
    <2>2. CASE PodDies(p)
      <3>1. CASE pods' = [pods EXCEPT ![p] = Ended(@, "Failed")]
        BY <1>0, <3>1 DEF PodsTypeOK, Worker, Ended
      <3>2. CASE pods' = [pods EXCEPT ![p] = NoWorker]
        BY <1>0, <3>2 DEF PodsTypeOK, NoWorker
      <3>3. QED
        BY <2>2, <3>1, <3>2 DEF PodDies
    <2>3. CASE LoseAck(p)
      BY <1>0, <2>3 DEF LoseAck, SendFailed, NextItem, PodsTypeOK, Worker
    <2>4. CASE LoseReport(p)
      BY <1>0, <2>4 DEF LoseReport, SendFailed, NextItem, PodsTypeOK, Worker
    <2>5. QED
      BY <1>2, <2>1, <2>2, <2>3, <2>4 DEF WorkerFault
  <1>3. ASSUME NEW kept \in SUBSET doomed, CleanupDelete(kept)
        PROVE  ItemOK'
    BY <1>0, <1>3 DEF CleanupDelete, NoWorker, ItemOK
  <1>4. ASSUME NEW B \in SUBSET Dests, NEW p \in Pods, StartBatch(B, p)
        PROVE  ItemOK'
    BY <1>0, <1>4 DEF StartBatch, NewWorker, NoWorker, ItemOK, PodsTypeOK
  <1>5. CASE Crash
    BY <1>0, <1>5 DEF Crash, SendFailed, NextItem, ItemOK, PodsTypeOK, Worker
  <1>6. ASSUME NEW ip \in [Dests -> Pods \cup {NoPod}], Restart(ip)
        PROVE  ItemOK'
    BY <1>0, <1>6 DEF Restart, SyncFromPods, NoWorker, ItemOK
  <1>7. CASE UNCHANGED pods
    BY <1>0, <1>7 DEF ItemOK
  <1>8. OutsideStep => UNCHANGED pods
    BY DEF OutsideStep, EditSpec, Annotate, PollElapses
  <1>9. ReconcileStepDone
        => \/ UNCHANGED pods
           \/ \E kept \in SUBSET doomed : CleanupDelete(kept)
           \/ \E B \in SUBSET Dests, p \in Pods : StartBatch(B, p)
    BY DEF ReconcileStepDone, CleanupSnapshot, CleanupList, CleanupListFails,
       CleanupLock, CleanupApply, ReconcileLock, ReconcileReadFails,
       ReconcileLoad, ClearResync, ResolveDone, ResolveFails, ProcessEntries,
       StartBatchFails, EndDispatch, Flush
  <1>10. /\ \A d \in Dests : CleanupOrphan(d) \/ BackoffElapses(d) => UNCHANGED pods
         /\ ApplyStatus => UNCHANGED pods
         /\ UNCHANGED vars => UNCHANGED pods
    BY DEF CleanupOrphan, BackoffElapses, ApplyStatus, vars
  <1>11. QED
    BY <1>1, <1>2, <1>3, <1>4, <1>5, <1>6, <1>7, <1>8, <1>9, <1>10
       DEF Next, RestartStep

\* Every variable keeps its type and every busy worker an item, in every
\* behaviour.
LEMMA TypeInvariant == Spec => []TypeInv
  <1>1. Init => TypeInv
    <2> USE DEF Init
    <2>a. Init => OutsideTypeOK
      BY DispatchAssumption DEF DispatchAssumption, OutsideTypeOK
    <2>b. <<>> \in Seq(Report)
      OBVIOUS
    <2>1. Init => OutsideTypeOK /\ MemTypeOK /\ QueueTypeOK
      BY <2>a, <2>b DEF MemTypeOK, QueueTypeOK
    <2>2. Init => PodsTypeOK /\ ItemOK
      BY WorkerType DEF PodsTypeOK, ItemOK, NoWorker
    <2>3. Init => TickTypeOK
      BY DEF TickTypeOK, ReconcileStep, Verdict, NoTick, Tick
    <2>4. QED
      BY <2>1, <2>2, <2>3 DEF TypeInv, TypeOK
  <1>2. TypeInv /\ [Next]_vars => TypeInv'
    BY TypeStep, ItemStep DEF TypeInv
  <1>3. QED
    BY <1>1, <1>2, PTL DEF Spec

\* Type correctness of the whole manager, its queue and its worker pods.
THEOREM TypeCorrect == Spec => []TypeOK
  BY TypeInvariant, PTL DEF TypeInv

-----------------------------------------------------------------------------
(* Answered reports are not lost *)

\* Who may hold m.mu at which point of a tick, and when the reports that were
\* swapped out of the queue have all been applied.
LockOK ==
    /\ mu = "free" => queued = <<>>
    /\ rpc \in {"resetting", "loading", "processing", "dispatching", "flushing"}
          => mu = "reconcile"
    /\ rpc \in {"processing", "dispatching"} => queued = <<>>

\* A pod that does not exist has no worker, and while no manager runs no
\* report is being answered and none answered by the last one counts.
ProcessOK ==
    /\ rpc = "down" <=> ~up
    /\ \A p \in Pods : /\ pods[p].phase = "absent" => pods[p] = NoWorker
                       /\ ~up => pods[p].acked = {} /\ pods[p].step # "acking"

\* The manager has the image in progress on a pod whose report of it reached
\* the handler.
Delivered(p, d) ==
    /\ inProgress[d] = p
    /\ \/ d \in pods[p].acked
       \/ pods[p].step = "acking" /\ pods[p].cur = d

ReportOf(p, d) ==
    \E err \in Errors \cup {NoError} : Queued([pod |-> p, dest |-> d, err |-> err])

\* AckedNotLost, from the moment the report is delivered.
DeliveredNotLost ==
    \A p \in Pods, d \in Dests : Delivered(p, d) => ReportOf(p, d)

AckInv == TypeInv /\ LockOK /\ ProcessOK /\ DeliveredNotLost

\* The mutex discipline is kept by every action.
LEMMA LockStep ==
    ASSUME TypeInv, LockOK, [Next]_vars
    PROVE  LockOK'
  <1> USE DEF specVars, podVars, memVars, tickVars, queueVars, workerFrame,
          tickFrame, LockOK
  <1>0. QueueTypeOK
    BY DEF TypeInv, TypeOK
  <1>1. CASE UNCHANGED <<mu, queued, rpc>>
    BY <1>1
  <1>2. ASSUME NEW p \in Pods, DeliverReport(p)
        PROVE  LockOK'
    BY <1>2 DEF DeliverReport
  <1>3. CASE ApplyStatus
    <2>1. queued # <<>> /\ queued' = Tail(queued) /\ UNCHANGED rpc
      BY <1>3 DEF ApplyStatus
    <2>2. mu' = IF mu = "handler" /\ Len(queued) = 1 THEN "free" ELSE mu
      BY <1>3 DEF ApplyStatus
    <2>3. Len(queued) = 1 => queued' = <<>>
      BY <1>0, <2>1, EmptySeq, HeadTailProperties DEF QueueTypeOK
    <2>4. QED
      BY <2>1, <2>2, <2>3
  <1>4. CASE CleanupLock \/ ReconcileLock
    BY <1>4 DEF CleanupLock, ReconcileLock, LockAndDrain
  <1>5. CASE CleanupSnapshot \/ CleanupList \/ CleanupListFails
    BY <1>5 DEF CleanupSnapshot, CleanupList, CleanupListFails
  <1>6. CASE CleanupApply \/ ReconcileReadFails
    BY <1>6 DEF CleanupApply, ReconcileReadFails
  <1>7. ASSUME NEW kept \in SUBSET doomed, CleanupDelete(kept)
        PROVE  LockOK'
    BY <1>7 DEF CleanupDelete
  <1>8. ASSUME NEW found \in {persisted, NothingLoaded}, ReconcileLoad(found)
        PROVE  LockOK'
    BY <1>8 DEF ReconcileLoad, GoOn
  <1>9. CASE ClearResync \/ ResolveDone \/ ResolveFails
    BY <1>9 DEF ClearResync, GoOn, ResolveDone, ResolveFails
  <1>10. CASE ProcessEntries \/ EndDispatch \/ \E saved, recorded \in BOOLEAN : Flush(saved, recorded)
    BY <1>10 DEF ProcessEntries, EndDispatch, Flush
  <1>11. CASE Crash
    BY <1>11 DEF Crash
  <1>12. ASSUME NEW ip \in [Dests -> Pods \cup {NoPod}], Restart(ip)
         PROVE  LockOK'
    BY <1>12 DEF Restart
  <1>13. /\ OutsideStep => UNCHANGED <<mu, queued, rpc>>
         /\ UNCHANGED vars => UNCHANGED <<mu, queued, rpc>>
         /\ \A d \in Dests : CleanupOrphan(d) \/ BackoffElapses(d)
               => UNCHANGED <<mu, queued, rpc>>
    BY DEF OutsideStep, EditSpec, Annotate, PollElapses, vars, CleanupOrphan, BackoffElapses
  <1>14. ASSUME NEW p \in Pods, WorkerFault(p)
         PROVE  UNCHANGED <<mu, queued, rpc>>
    BY <1>14 DEF WorkerFault, PodGetsStuck, PodDies, LoseAck, LoseReport
  <1>15. ASSUME NEW p \in Pods, WorkerStep(p), ~DeliverReport(p)
         PROVE  UNCHANGED <<mu, queued, rpc>>
    BY <1>15 DEF WorkerStep, PodStart, PodFinishes, BeginItem, SkipItem,
       CopyItem, AckReport
  <1>16. ASSUME NEW B \in SUBSET Dests,
                StartBatchFails(B) \/ \E p \in Pods : StartBatch(B, p)
         PROVE  UNCHANGED <<mu, queued, rpc>>
    BY <1>16 DEF StartBatch, StartBatchFails
  <1>17. QED
    BY <1>1, <1>2, <1>3, <1>4, <1>5, <1>6, <1>7, <1>8, <1>9, <1>10, <1>11,
       <1>12, <1>13, <1>14, <1>15, <1>16 DEF Next, ReconcileStepDone, RestartStep

\* The invariant on pods and the manager's process is kept by every action.
LEMMA ProcessStep ==
    ASSUME TypeInv, ProcessOK, [Next]_vars
    PROVE  ProcessOK'
  <1> USE DEF specVars, podVars, memVars, tickVars, queueVars, workerFrame,
          tickFrame
  <1>0. PodsTypeOK
    BY DEF TypeInv, TypeOK
  <1> DEFINE W(w) == /\ w.phase = "absent" => w = NoWorker
                     /\ ~up => w.acked = {} /\ w.step # "acking"
  <1>1. ASSUME NEW p \in Pods, NEW w, pods' = [pods EXCEPT ![p] = w], W(w),
               UNCHANGED <<rpc, up>>
        PROVE  ProcessOK'
    BY <1>0, <1>1 DEF ProcessOK, PodsTypeOK
  <1>2. ASSUME NEW p \in Pods, WorkerStep(p)
        PROVE  ProcessOK'
    <2> SUFFICES /\ UNCHANGED <<rpc, up>>
                 /\ \E w : pods' = [pods EXCEPT ![p] = w] /\ W(w)
      BY <1>1
    <2>0. pods[p] \in Worker /\ W(pods[p])
      BY <1>0 DEF ProcessOK, PodsTypeOK
    <2>1. CASE PodStart(p)
      <3>1. pods' = [pods EXCEPT ![p] = [pods[p] EXCEPT !.phase = "Running"]]
        BY <2>1 DEF PodStart
      <3>2. W([pods[p] EXCEPT !.phase = "Running"])
        BY <2>0 DEF Worker
      <3>3. QED
        BY <2>1, <3>1, <3>2 DEF PodStart
    <2>2. CASE PodFinishes(p)
      <3>1. W(Ended(pods[p], "Succeeded"))
        BY <2>0 DEF Worker, Ended
      <3>2. QED
        BY <2>2, <3>1 DEF PodFinishes
    <2>3. ASSUME NEW d \in Dests, BeginItem(p, d) \/ SkipItem(p, d)
          PROVE  /\ UNCHANGED <<rpc, up>>
                 /\ \E w : pods' = [pods EXCEPT ![p] = w] /\ W(w)
      <3> DEFINE a == [pods[p] EXCEPT !.todo = @ \ {d}, !.cur = d, !.step = "copy"]
                 b == [pods[p] EXCEPT !.todo = @ \ {d}]
      <3>1. pods' = [pods EXCEPT ![p] = a] \/ pods' = [pods EXCEPT ![p] = b]
        BY <2>3 DEF BeginItem, SkipItem
      <3>2. pods[p].phase = "Running"
        BY <2>3 DEF BeginItem, SkipItem
      <3>3. W(a) /\ W(b)
        BY <2>0, <3>2 DEF Worker
      <3>4. UNCHANGED <<rpc, up>>
        BY <2>3 DEF BeginItem, SkipItem
      <3>5. QED
        BY <3>1, <3>3, <3>4
    <2>4. CASE CopyItem(p)
      <3>1. PICK e : pods' = [pods EXCEPT ![p] =
                                [pods[p] EXCEPT !.step = "report", !.err = e]]
        BY <2>4 DEF CopyItem
      <3>2. W([pods[p] EXCEPT !.step = "report", !.err = e])
        BY <2>0, <2>4 DEF Worker, CopyItem
      <3>3. QED
        BY <2>4, <3>1, <3>2 DEF CopyItem
    <2>5. CASE DeliverReport(p)
      <3>1. pods' = [pods EXCEPT ![p] = [pods[p] EXCEPT !.step = "acking"]]
        BY <2>5 DEF DeliverReport
      <3>2. W([pods[p] EXCEPT !.step = "acking"])
        BY <2>0, <2>5 DEF Worker, DeliverReport
      <3>3. QED
        BY <2>5, <3>1, <3>2 DEF DeliverReport
    <2>6. CASE AckReport(p)
      <3>1. W(Acknowledged(pods[p]))
        BY <2>0, <2>6 DEF Worker, Acknowledged, NextItem, AckReport, NoWorker
      <3>2. QED
        BY <2>6, <3>1 DEF AckReport
    <2>7. QED
      BY <1>2, <2>1, <2>2, <2>3, <2>4, <2>5, <2>6 DEF WorkerStep
  <1>3. ASSUME NEW p \in Pods, WorkerFault(p)
        PROVE  ProcessOK'
    <2>0. pods[p] \in Worker /\ W(pods[p])
      BY <1>0 DEF ProcessOK, PodsTypeOK
    <2>1. CASE PodGetsStuck(p)
      <3>1. pods' = [pods EXCEPT ![p] = [pods[p] EXCEPT !.phase = "Stuck"]]
        BY <2>1 DEF PodGetsStuck
      <3>2. W([pods[p] EXCEPT !.phase = "Stuck"])
        BY <2>0 DEF Worker
      <3>3. QED
        BY <1>1, <2>1, <3>1, <3>2 DEF PodGetsStuck
    <2>2. CASE PodDies(p)
      <3>1. W(Ended(pods[p], "Failed")) /\ W(NoWorker)
        BY <2>0 DEF Worker, Ended, NoWorker
      <3>2. QED
        BY <1>1, <2>2, <3>1 DEF PodDies
    <2>3. CASE LoseAck(p) \/ LoseReport(p)
      <3>1. W(SendFailed(pods[p]))
        BY <2>0, <2>3
           DEF Worker, SendFailed, NextItem, LoseAck, LoseReport, NoWorker
      <3>2. QED
        BY <1>1, <2>3, <3>1 DEF LoseAck, LoseReport
    <2>4. QED
      BY <1>3, <2>1, <2>2, <2>3 DEF WorkerFault
  <1>4. ASSUME NEW kept \in SUBSET doomed, CleanupDelete(kept)
        PROVE  ProcessOK'
    BY <1>4 DEF CleanupDelete, ProcessOK, NoWorker
  <1>5. ASSUME NEW B \in SUBSET Dests, NEW p \in Pods, StartBatch(B, p)
        PROVE  ProcessOK'
    <2>1. W(NewWorker(B))
      BY DEF NewWorker, NoWorker
    <2>2. QED
      BY <1>1, <1>5, <2>1 DEF StartBatch
  <1>6. CASE Crash
    <2>1. ASSUME NEW p \in Pods
          PROVE  /\ pods'[p].acked = {} /\ pods'[p].step # "acking"
                 /\ pods'[p].phase = "absent" => pods'[p] = NoWorker
      <3>0. pods[p] \in Worker /\ W(pods[p])
        BY <1>0 DEF ProcessOK, PodsTypeOK
      <3>1. CASE pods[p].step = "acking"
        <4>1. pods'[p] = [SendFailed(pods[p]) EXCEPT !.acked = {}]
          BY <1>6, <3>1 DEF Crash
        <4>2. pods[p].phase # "absent"
          BY <3>0, <3>1 DEF NoWorker
        <4>3. QED
          BY <3>0, <4>1, <4>2 DEF SendFailed, NextItem, Worker
      <3>2. CASE pods[p].step # "acking"
        <4>1. pods'[p] = [pods[p] EXCEPT !.acked = {}]
          BY <1>6, <3>2 DEF Crash
        <4>2. QED
          BY <3>0, <3>2, <4>1 DEF Worker, NoWorker
      <3>3. QED
        BY <3>1, <3>2
    <2>2. QED
      BY <1>6, <2>1 DEF Crash, ProcessOK
  <1>7. ASSUME NEW ip \in [Dests -> Pods \cup {NoPod}], Restart(ip)
        PROVE  ProcessOK'
    BY <1>0, <1>7 DEF Restart, SyncFromPods, NoWorker, ProcessOK
  <1>8. CASE UNCHANGED <<pods, up>> /\ (rpc = "down" <=> rpc' = "down")
    BY <1>8 DEF ProcessOK
  <1>9. ReconcileStepDone
        => \/ UNCHANGED <<pods, up>> /\ (rpc = "down" <=> rpc' = "down")
           \/ \E kept \in SUBSET doomed : CleanupDelete(kept)
           \/ \E B \in SUBSET Dests, p \in Pods : StartBatch(B, p)
    BY DEF ReconcileStepDone, CleanupSnapshot, CleanupList, CleanupListFails,
       CleanupLock, CleanupApply, ReconcileLock, ReconcileReadFails,
       ReconcileLoad, ClearResync, GoOn, ResolveDone, ResolveFails,
       ProcessEntries, StartBatchFails, EndDispatch, Flush
  <1>10. /\ \A d \in Dests : CleanupOrphan(d) \/ BackoffElapses(d)
               => UNCHANGED <<pods, up, rpc>>
         /\ ApplyStatus => UNCHANGED <<pods, up, rpc>>
         /\ OutsideStep => UNCHANGED <<pods, up, rpc>>
         /\ UNCHANGED vars => UNCHANGED <<pods, up, rpc>>
    BY DEF CleanupOrphan, BackoffElapses, ApplyStatus, OutsideStep, EditSpec,
       Annotate, PollElapses, vars
  <1>11. QED
    BY <1>2, <1>3, <1>4, <1>5, <1>6, <1>7, <1>8, <1>9, <1>10
       DEF Next, RestartStep

\* A report in a queue is in the queue with one more report behind it, and
\* only the first one leaves it with Tail.
LEMMA QueueFacts ==
    ASSUME NEW q \in Seq(Report)
    PROVE  /\ \A r \in Report : \E i \in DOMAIN Append(q, r) : Append(q, r)[i] = r
           /\ \A r \in Report : \A i \in DOMAIN q :
                 \E j \in DOMAIN Append(q, r) : Append(q, r)[j] = q[i]
           /\ q # <<>> => \A i \in DOMAIN q : q[i] # Head(q) =>
                 \E j \in DOMAIN Tail(q) : Tail(q)[j] = q[i]
  <1>1. DOMAIN q = 1 .. Len(q) /\ Len(q) \in Nat
    BY LenProperties
  <1>2. ASSUME NEW r \in Report
        PROVE  /\ \E i \in DOMAIN Append(q, r) : Append(q, r)[i] = r
               /\ \A i \in DOMAIN q :
                     \E j \in DOMAIN Append(q, r) : Append(q, r)[j] = q[i]
    <2>1. /\ Append(q, r) \in Seq(Report) /\ Len(Append(q, r)) = Len(q) + 1
          /\ \A i \in 1 .. Len(q) : Append(q, r)[i] = q[i]
          /\ Append(q, r)[Len(q) + 1] = r
      BY AppendProperties
    <2>2. DOMAIN Append(q, r) = 1 .. Len(q) + 1
      BY <2>1, LenProperties
    <2>3. QED
      BY <1>1, <2>1, <2>2
  <1>3. ASSUME q # <<>>, NEW i \in DOMAIN q, q[i] # Head(q)
        PROVE  \E j \in DOMAIN Tail(q) : Tail(q)[j] = q[i]
    <2>1. /\ Tail(q) \in Seq(Report) /\ Len(Tail(q)) = Len(q) - 1
          /\ \A j \in 1 .. Len(Tail(q)) : Tail(q)[j] = q[j + 1]
      BY <1>3, HeadTailProperties
    <2>2. DOMAIN Tail(q) = 1 .. Len(q) - 1
      BY <2>1, LenProperties
    <2>3. Head(q) = q[1]
      BY <1>3
    <2>4. i - 1 \in 1 .. Len(q) - 1
      BY <1>1, <1>3, <2>3
    <2>5. Tail(q)[i - 1] = q[i]
      BY <1>1, <2>1, <2>4
    <2>6. QED
      BY <2>2, <2>4, <2>5
  <1>4. QED
    BY <1>2, <1>3

\* No action forgets a report that reached the handler.
LEMMA DeliveredStep ==
    ASSUME AckInv, [Next]_vars
    PROVE  DeliveredNotLost'
  <1> USE DEF specVars, podVars, memVars, tickVars, queueVars, workerFrame,
          tickFrame
  <1>0. /\ TypeInv /\ PodsTypeOK /\ MemTypeOK /\ QueueTypeOK /\ ItemOK
        /\ LockOK /\ ProcessOK /\ DeliveredNotLost
    BY DEF AckInv, TypeInv, TypeOK
  <1>1. ASSUME \A p \in Pods, d \in Dests : Delivered(p, d)' => Delivered(p, d),
               UNCHANGED <<statusQueue, queued>>
        PROVE  DeliveredNotLost'
    BY <1>0, <1>1 DEF DeliveredNotLost, ReportOf, Queued
  <1>2. ASSUME NEW p \in Pods, NEW w, pods' = [pods EXCEPT ![p] = w],
               UNCHANGED <<inProgress, statusQueue, queued>>,
               w.step # "acking",
               \A d \in w.acked : \/ d \in pods[p].acked
                                  \/ pods[p].step = "acking" /\ pods[p].cur = d
        PROVE  DeliveredNotLost'
    BY <1>0, <1>1, <1>2 DEF Delivered, PodsTypeOK
  <1>3. ASSUME NEW p \in Pods, DeliverReport(p)
        PROVE  DeliveredNotLost'
    <2>0. pods[p].cur \in Dests /\ pods[p].err \in Errors \cup {NoError}
      BY <1>0, <1>3 DEF DeliverReport, ItemOK, PodsTypeOK, Worker
    <2>1. PICK c \in Dests, e \in Errors \cup {NoError} :
                 pods[p].cur = c /\ pods[p].err = e
      BY <2>0
    <2> DEFINE r == [pod |-> p, dest |-> c, err |-> e]
    <2>2. /\ r \in Report
          /\ pods' = [pods EXCEPT ![p].step = "acking"] /\ UNCHANGED inProgress
          /\ \/ queued' = Append(statusQueue, r) /\ queued = <<>>
             \/ statusQueue' = Append(statusQueue, r) /\ UNCHANGED queued
      BY <1>0, <1>3, <2>1 DEF DeliverReport, LockOK, Report
    <2>3. statusQueue \in Seq(Report)
      BY <1>0 DEF QueueTypeOK
    <2>4. ASSUME NEW q \in Pods, NEW d \in Dests, Delivered(q, d)'
          PROVE  Delivered(q, d) \/ (q = p /\ d = c)
      <3>1. pods'[p].acked = pods[p].acked /\ pods'[p].cur = c
        BY <1>0, <2>1, <2>2 DEF PodsTypeOK, Worker
      <3>2. q # p => pods'[q] = pods[q]
        BY <1>0, <2>2 DEF PodsTypeOK
      <3>3. inProgress[d] = q
        BY <2>2, <2>4 DEF Delivered
      <3>4. CASE q = p
        BY <2>4, <3>1, <3>3, <3>4 DEF Delivered
      <3>5. CASE q # p
        BY <2>4, <3>2, <3>3, <3>5 DEF Delivered
      <3>6. QED
        BY <3>4, <3>5
    <2>5. ReportOf(p, c)'
      <3> HIDE DEF r
      <3>1. Queued(r)'
        BY <2>2, <2>3, QueueFacts DEF Queued
      <3>2. QED
        BY <3>1 DEF ReportOf, r
    <2> HIDE DEF r
    <2>6. ASSUME NEW x, Queued(x)
          PROVE  Queued(x)'
      <3>1. CASE \E i \in DOMAIN statusQueue : statusQueue[i] = x
        <4>1. \E j \in DOMAIN Append(statusQueue, r) : Append(statusQueue, r)[j] = x
          BY <2>2, <2>3, <3>1, QueueFacts
        <4>2. QED
          BY <2>2, <4>1 DEF Queued
      <3>2. CASE \E i \in DOMAIN queued : queued[i] = x
        <4>1. queued # <<>>
          BY <3>2
        <4>2. QED
          BY <2>2, <3>2, <4>1 DEF Queued
      <3>3. QED
        BY <2>6, <3>1, <3>2 DEF Queued
    <2>7. ASSUME NEW q \in Pods, NEW d \in Dests, Delivered(q, d)
          PROVE  ReportOf(q, d)'
      BY <1>0, <2>6, <2>7 DEF DeliveredNotLost, ReportOf
    <2>8. QED
      BY <2>4, <2>5, <2>7 DEF DeliveredNotLost
  <1>4. CASE ApplyStatus
    <2> DEFINE r == Head(queued)
    <2>1. /\ queued # <<>> /\ queued' = Tail(queued) /\ UNCHANGED <<pods, statusQueue>>
          /\ inProgress' = [inProgress EXCEPT ![r.dest] = NoPod]
      BY <1>4 DEF ApplyStatus
    <2>2. ASSUME NEW p \in Pods, NEW d \in Dests, Delivered(p, d)'
          PROVE  Delivered(p, d) /\ d # r.dest
      BY <1>0, <2>1, <2>2, DispatchAssumption
         DEF Delivered, MemTypeOK, DispatchAssumption
    <2>3. ASSUME NEW x \in Report, Queued(x), x # r
          PROVE  Queued(x)'
      <3>1. CASE \E i \in DOMAIN statusQueue : statusQueue[i] = x
        BY <2>1, <3>1 DEF Queued
      <3>2. CASE \E i \in DOMAIN queued : queued[i] = x
        <4>1. queued \in Seq(Report) /\ queued # <<>> /\ x # Head(queued)
          BY <1>0, <2>1, <2>3 DEF QueueTypeOK
        <4>2. PICK i \in DOMAIN queued : queued[i] = x
          BY <3>2
        <4>3. \E j \in DOMAIN Tail(queued) : Tail(queued)[j] = x
          BY <4>1, <4>2, QueueFacts
        <4>4. QED
          BY <2>1, <4>3 DEF Queued
      <3>3. QED
        BY <2>3, <3>1, <3>2 DEF Queued
    <2>4. ASSUME NEW p \in Pods, NEW d \in Dests, Delivered(p, d)'
          PROVE  ReportOf(p, d)'
      <3>1. PICK err \in Errors \cup {NoError} :
               Queued([pod |-> p, dest |-> d, err |-> err])
        BY <1>0, <2>2, <2>4 DEF DeliveredNotLost, ReportOf
      <3>2. [pod |-> p, dest |-> d, err |-> err] \in Report
        BY DEF Report
      <3>3. [pod |-> p, dest |-> d, err |-> err] # r
        BY <2>2, <2>4
      <3>4. Queued([pod |-> p, dest |-> d, err |-> err])'
        BY <2>3, <3>1, <3>2, <3>3
      <3>5. QED
        BY <3>4 DEF ReportOf
    <2>5. QED
      BY <2>4 DEF DeliveredNotLost
  <1>5. CASE CleanupLock \/ ReconcileLock \/ EndDispatch
    <2>1. /\ queued = <<>> /\ queued' = statusQueue /\ statusQueue' = <<>>
          /\ UNCHANGED <<pods, inProgress>>
      BY <1>0, <1>5 DEF CleanupLock, ReconcileLock, LockAndDrain, EndDispatch, LockOK
    <2>2. QED
      BY <1>0, <2>1 DEF DeliveredNotLost, Delivered, ReportOf, Queued
  <1>6. ASSUME NEW p \in Pods, WorkerStep(p), ~DeliverReport(p)
        PROVE  DeliveredNotLost'
    <2>0. pods[p] \in Worker
      BY <1>0 DEF PodsTypeOK
    <2>1. CASE PodStart(p)
      BY <1>0, <1>1, <2>0, <2>1 DEF PodStart, Delivered, PodsTypeOK, Worker
    <2>2. CASE PodFinishes(p)
      <3>1. Ended(pods[p], "Succeeded").step = "next"
            /\ Ended(pods[p], "Succeeded").acked = pods[p].acked
        BY <2>0 DEF Ended, Worker
      <3>2. QED
        BY <1>2, <2>2, <3>1 DEF PodFinishes
    <2>3. ASSUME NEW d \in Dests, BeginItem(p, d) \/ SkipItem(p, d)
          PROVE  DeliveredNotLost'
      BY <1>0, <1>1, <2>0, <2>3 DEF BeginItem, SkipItem, Delivered, PodsTypeOK, Worker
    <2>4. CASE CopyItem(p)
      BY <1>0, <1>1, <2>0, <2>4 DEF CopyItem, Delivered, PodsTypeOK, Worker
    <2>5. CASE AckReport(p)
      <3>1. Acknowledged(pods[p]).step = "next"
            /\ Acknowledged(pods[p]).acked = pods[p].acked \cup {pods[p].cur}
        BY <2>0 DEF Acknowledged, NextItem, Worker
      <3>2. QED
        BY <1>2, <2>5, <3>1 DEF AckReport
    <2>6. QED
      BY <1>6, <2>1, <2>2, <2>3, <2>4, <2>5 DEF WorkerStep
  <1>7. ASSUME NEW p \in Pods, WorkerFault(p)
        PROVE  DeliveredNotLost'
    <2>0. pods[p] \in Worker
      BY <1>0 DEF PodsTypeOK
    <2>1. CASE PodGetsStuck(p)
      BY <1>0, <1>1, <2>0, <2>1 DEF PodGetsStuck, Delivered, PodsTypeOK, Worker
    <2>2. CASE PodDies(p)
      <3>1. Ended(pods[p], "Failed").step = "next"
            /\ Ended(pods[p], "Failed").acked = pods[p].acked
        BY <2>0 DEF Ended, Worker
      <3>2. NoWorker.step = "next" /\ NoWorker.acked = {}
        BY DEF NoWorker
      <3>3. QED
        BY <1>2, <2>2, <3>1, <3>2 DEF PodDies
    <2>3. CASE LoseAck(p) \/ LoseReport(p)
      <3>1. SendFailed(pods[p]).step # "acking"
            /\ SendFailed(pods[p]).acked = pods[p].acked
        BY <2>0 DEF SendFailed, NextItem, Worker
      <3>2. QED
        BY <1>2, <2>3, <3>1 DEF LoseAck, LoseReport
    <2>4. QED
      BY <1>7, <2>1, <2>2, <2>3 DEF WorkerFault
  <1>8. ASSUME NEW kept \in SUBSET doomed, CleanupDelete(kept)
        PROVE  DeliveredNotLost'
    BY <1>0, <1>1, <1>8 DEF CleanupDelete, Delivered, NoWorker, PodsTypeOK
  <1>9. CASE CleanupApply
    BY <1>0, <1>1, <1>9, DispatchAssumption
       DEF CleanupApply, Delivered, MemTypeOK, DispatchAssumption
  <1>10. ASSUME NEW B \in SUBSET Dests, NEW p \in Pods, StartBatch(B, p)
         PROVE  DeliveredNotLost'
    <2>1. NewWorker(B).acked = {} /\ NewWorker(B).step = "next"
      BY DEF NewWorker, NoWorker
    <2>2. QED
      BY <1>0, <1>1, <1>10, <2>1 DEF StartBatch, Delivered, MemTypeOK, PodsTypeOK
  <1>11. CASE Crash
    <2>1. \A d \in Dests : inProgress'[d] = NoPod
      BY <1>11 DEF Crash
    <2>2. QED
      BY <2>1, DispatchAssumption DEF DeliveredNotLost, Delivered, DispatchAssumption
  <1>12. ASSUME NEW ip \in [Dests -> Pods \cup {NoPod}], Restart(ip)
         PROVE  DeliveredNotLost'
    <2>1. \A p \in Pods : pods'[p].acked = {} /\ pods'[p].step # "acking"
      BY <1>0, <1>12 DEF Restart, SyncFromPods, ProcessOK, NoWorker, PodsTypeOK
    <2>2. QED
      BY <2>1 DEF DeliveredNotLost, Delivered
  <1>13. CASE UNCHANGED <<pods, inProgress, statusQueue, queued>>
    BY <1>1, <1>13 DEF Delivered
  <1>14. ASSUME OutsideStep \/ UNCHANGED vars
                \/ \E d \in Dests : CleanupOrphan(d) \/ BackoffElapses(d)
         PROVE  UNCHANGED <<pods, inProgress, statusQueue, queued>>
    BY <1>14 DEF OutsideStep, EditSpec, Annotate, PollElapses, vars, CleanupOrphan, BackoffElapses
  <1>15. ASSUME \/ CleanupSnapshot \/ CleanupList \/ CleanupListFails
                \/ ReconcileReadFails \/ ClearResync
                \/ \E found \in {persisted, NothingLoaded} : ReconcileLoad(found)
                \/ ResolveDone \/ ResolveFails \/ ProcessEntries
                \/ \E saved, recorded \in BOOLEAN : Flush(saved, recorded)
                \/ \E B \in SUBSET Dests : StartBatchFails(B)
         PROVE  UNCHANGED <<pods, inProgress, statusQueue, queued>>
    BY <1>15 DEF CleanupSnapshot, CleanupList, CleanupListFails,
       ReconcileReadFails, ReconcileLoad, ClearResync, ResolveDone, ResolveFails,
       ProcessEntries, Flush, StartBatchFails
  <1>16. QED
    BY <1>3, <1>4, <1>5, <1>6, <1>7, <1>8, <1>9, <1>10, <1>11, <1>12, <1>13,
       <1>14, <1>15 DEF Next, ReconcileStepDone, RestartStep

\* The invariant the next theorem rests on.
LEMMA AckInvariant == Spec => []AckInv
  <1>1. Init => LockOK /\ ProcessOK /\ DeliveredNotLost
    BY DEF Init, LockOK, ProcessOK, DeliveredNotLost, Delivered, NoWorker
  <1>2. TypeInv /\ LockOK /\ ProcessOK /\ DeliveredNotLost /\ [Next]_vars
           => (LockOK /\ ProcessOK /\ DeliveredNotLost)'
    BY LockStep, ProcessStep, DeliveredStep DEF AckInv
  <1>3. QED
    BY <1>1, <1>2, TypeInvariant, PTL DEF Spec, AckInv

\* No report the status API answered with 200 is forgotten, whatever crashes,
\* losses, failed calls and interleavings happen: it is applied, or waits in
\* the queue, before anything treats the image as still in progress on that pod.
THEOREM AnsweredReportsAreKept == Spec => []AckedNotLost
  <1>1. AckInv => AckedNotLost
    BY DEF AckInv, AckedNotLost, DeliveredNotLost, Delivered, ReportOf
  <1>2. QED
    BY <1>1, AckInvariant, PTL

-----------------------------------------------------------------------------
(***************************************************************************)
(* What the manager calls Mirrored is in the registry, as long as no edit  *)
(* brings an image back that an earlier edit had dropped: its fast-path    *)
(* flag may have outlived it.                                              *)
(*                                                                         *)
(* The argument: an image that was never dropped always has an owner once  *)
(* it is known, so Phase D never stages it as an orphan and never leaves a *)
(* fast-path flag behind for it; and every piece of evidence of a success  *)
(* (a worker's result, a queued report, an entry in memory or in the       *)
(* ConfigMap) was created after its copy had landed.                       *)
(***************************************************************************)
Known(st) == {d \in Dests : st[d].state # "Absent"}

\* What the manager knows and owns lags behind the spec only by what edits
\* have dropped.
WantOK ==
    /\ wanted \cap dropped = {}
    /\ owned \subseteq wanted \cup dropped
    /\ tick.want \subseteq wanted \cup dropped
    /\ Known(persisted) \subseteq wanted \cup dropped
    /\ Known(imageState) \subseteq owned \cup dropped
    /\ rpc \in {"clearing", "resolving"} => owned \subseteq tick.want \cup dropped
    /\ orphans \subseteq dropped

\* The fast-path flag agrees with the entry.
FlagOK == \A d \in mirrored \ dropped : imageState[d].state = "Mirrored"

\* Something says that d was mirrored.
Evidence(d) ==
    \/ imageState[d].state = "Mirrored"
    \/ persisted[d].state = "Mirrored"
    \/ \E p \in Pods : Queued([pod |-> p, dest |-> d, err |-> NoError])
    \/ \E p \in Pods : /\ pods[p].step \in {"report", "acking"}
                       /\ pods[p].cur = d /\ pods[p].err = NoError

EvidenceOK == \A d \in Dests \ dropped : Evidence(d) => d \in registry

MirroredInv == AckInv /\ WantOK /\ FlagOK /\ EvidenceOK

-----------------------------------------------------------------------------
(* What the operators on entries do to the state of an entry *)

\* setImageStateLocked sets the state of a known entry and of no other.
LEMMA SetImageStateResult ==
    ASSUME NEW e \in EntryOrNone, NEW st, NEW err
    PROVE  SetImageState(e, st, err).state
             = IF e.state = "Absent" THEN "Absent" ELSE st
  <1>1. CASE e = NoEntry
    BY <1>1 DEF SetImageState, ChangesState, NoEntry
  <1>2. CASE e \in Entry
    <2>1. e.state # "Absent"
      BY <1>2 DEF Entry, EntryState
    <2>2. CASE ~ChangesState(e, st, err)
      BY <2>1, <2>2 DEF SetImageState, ChangesState
    <2>3. CASE ChangesState(e, st, err)
      BY <1>2, <2>1, <2>3 DEF SetImageState, RecordFailure, Entry
    <2>4. QED
      BY <2>2, <2>3
  <1>3. QED
    BY <1>1, <1>2 DEF EntryOrNone

\* Phase D makes an entry Mirrored only if it was, or if its flag is set, and
\* makes no entry known or unknown unless its flag is set.
LEMMA ProcessEntryResult ==
    ASSUME NEW e \in EntryOrNone, NEW f \in BOOLEAN
    PROVE  /\ e.state = "Mirrored" => ProcessEntry(e, f).state = "Mirrored"
           /\ ~f /\ ProcessEntry(e, f).state = "Mirrored" => e.state = "Mirrored"
           /\ ~f /\ e.state = "Absent" => ProcessEntry(e, f).state = "Absent"
  <1>1. CASE e = NoEntry
    BY <1>1 DEF ProcessEntry, NoEntry
  <1>2. CASE e \in Entry
    BY <1>2 DEF ProcessEntry, RetryOrGiveUp, Entry, EntryState
  <1>3. QED
    BY <1>1, <1>2 DEF EntryOrNone

\* A fresh retry cycle makes an entry Pending.
LEMMA FreshCycleResult ==
    ASSUME NEW e \in EntryOrNone
    PROVE  FreshCycle(e).state = "Pending"
  BY DEF FreshCycle, EntryOrNone, Entry, NoEntry

-----------------------------------------------------------------------------
(* The invariant is inductive *)

\* Ownership never gets ahead of the spec.
LEMMA WantStep ==
    ASSUME "readd" \notin Events, TypeInv, WantOK, [Next]_vars
    PROVE  WantOK'
  <1> USE DEF specVars, podVars, memVars, tickVars, queueVars, workerFrame,
          tickFrame
  <1>0. OutsideTypeOK /\ MemTypeOK /\ QueueTypeOK /\ TickTypeOK
    BY DEF TypeInv, TypeOK
  <1>00. /\ imageState \in [Dests -> EntryOrNone]
         /\ persisted \in [Dests -> EntryOrNone]
    BY <1>0 DEF MemTypeOK, OutsideTypeOK, EntryOrNone
  <1>1. ASSUME UNCHANGED <<wanted, dropped, owned, tick, persisted>>,
               orphans' \subseteq orphans,
               Known(imageState)' \subseteq Known(imageState),
               rpc' \in {"clearing", "resolving"} => rpc \in {"clearing", "resolving"}
        PROVE  WantOK'
    BY <1>1 DEF WantOK, Known
  <1>2. ASSUME NEW W \in SUBSET Dests, EditSpec(W)
        PROVE  WantOK'
    <2>1. W \cap dropped = {}
      BY <1>2 DEF EditSpec, Event
    <2>2. wanted' = W /\ dropped' = dropped \cup (wanted \ W)
          /\ UNCHANGED <<owned, tick, persisted, orphans, imageState, rpc>>
      BY <1>2 DEF EditSpec
    <2>3. QED
      BY <2>1, <2>2 DEF WantOK, Known
  <1>3. ASSUME NEW d \in Dests, CleanupOrphan(d) \/ BackoffElapses(d)
        PROVE  WantOK'
    <2>1. CASE CleanupOrphan(d)
      BY <1>1, <2>1 DEF CleanupOrphan, Known
    <2>2. CASE BackoffElapses(d)
      <3>1. \A x \in Dests : imageState'[x].state = imageState[x].state
        BY <1>00, <2>2 DEF BackoffElapses, EntryOrNone, Entry, NoEntry
      <3>2. QED
        BY <1>1, <2>2, <3>1 DEF BackoffElapses, Known
    <2>3. QED
      BY <1>3, <2>1, <2>2
  <1>4. CASE ApplyStatus
    <2> DEFINE r == Head(queued)
               st == IF r.err = NoError THEN "Mirrored" ELSE "Failed"
    <2>0. r \in Report
      BY <1>0, <1>4 DEF ApplyStatus, QueueTypeOK
    <2>1. r.dest \in Dests
      BY <2>0 DEF Report
    <2>2. imageState' = [imageState EXCEPT ![r.dest] =
                            SetImageState(imageState[r.dest], st, r.err)]
      BY <1>4 DEF ApplyStatus
    <2>3. SetImageState(imageState[r.dest], st, r.err).state # "Absent"
             => imageState[r.dest].state # "Absent"
      BY <1>00, <2>1, SetImageStateResult
    <2>4. Known(imageState)' \subseteq Known(imageState)
      <3> HIDE DEF st, r
      <3>1. QED
        BY <1>00, <2>1, <2>2, <2>3 DEF Known
    <2>5. QED
      BY <1>1, <1>4, <2>4 DEF ApplyStatus
  <1>5. CASE CleanupApply
    <2>1. \A d \in Dests : imageState'[d].state # "Absent"
                               => imageState[d].state # "Absent"
      BY <1>00, <1>5, SetImageStateResult DEF CleanupApply
    <2>2. QED
      BY <1>1, <1>5, <2>1 DEF CleanupApply, Known
  <1>6. ASSUME NEW found \in {persisted, NothingLoaded}, ReconcileLoad(found)
        PROVE  WantOK'
    <2> DEFINE empty == \A d \in Dests : imageState[d].state = "Absent"
               base == IF empty THEN found ELSE imageState
               own == IF empty THEN Known(found) ELSE owned
    <2>1. /\ owned' = own /\ tick'.want = wanted
          /\ UNCHANGED <<wanted, dropped, persisted, orphans>>
      BY <1>6 DEF ReconcileLoad, Known
    <2>2. \A d \in Dests : imageState'[d] \in {base[d], FreshCycle(base[d])}
      BY <1>6 DEF ReconcileLoad
    <2>3. \A d \in Dests : base[d].state = "Absent" => imageState'[d] = base[d]
      BY <1>6 DEF ReconcileLoad
    <2>4. Known(base) \subseteq own \cup dropped
      BY DEF WantOK, Known
    <2>5. own \subseteq wanted \cup dropped
      BY DEF WantOK, Known, NothingLoaded, NoEntry
    <2> HIDE DEF base, own
    <2>6. Known(imageState)' \subseteq owned' \cup dropped
      BY <2>1, <2>3, <2>4 DEF Known
    <2>7. QED
      BY <2>1, <2>5, <2>6 DEF WantOK, Known
  <1>7. CASE ClearResync
    BY <1>1, <1>7 DEF ClearResync, GoOn, Known
  <1>8. CASE ResolveDone
    <2>1. /\ owned' = tick.want /\ tick'.want = tick.want
          /\ rpc = "resolving" /\ rpc' = "processing"
          /\ UNCHANGED <<wanted, dropped, persisted, orphans>>
      BY <1>0, <1>8 DEF ResolveDone, TickTypeOK, Tick
    <2>2. \A d \in Dests : imageState'[d].state # "Absent"
             => imageState[d].state # "Absent" \/ d \in tick.want
      BY <1>8 DEF ResolveDone
    <2>3. QED
      BY <2>1, <2>2 DEF WantOK, Known
  <1>9. CASE ProcessEntries
    <2> DEFINE orphaned == Known(imageState) \ owned
    <2>1. orphaned \subseteq dropped
      BY DEF WantOK
    <2>2. /\ orphans' \subseteq orphans \cup orphaned
          /\ UNCHANGED <<wanted, dropped, owned, tick, persisted>>
          /\ rpc' = "dispatching"
      BY <1>9 DEF ProcessEntries, Known
    <2>3. ASSUME NEW d \in Dests, imageState'[d].state # "Absent", d \notin owned
          PROVE  imageState[d].state # "Absent"
      <3> DEFINE f == d \in mirrored /\ d \in owned
      <3>1. \/ imageState'[d] = ProcessEntry(imageState[d], f)
            \/ imageState'[d] = NoEntry
        BY <1>9, <2>3 DEF ProcessEntries
      <3>2. f \in BOOLEAN /\ ~f
        BY <2>3
      <3> HIDE DEF f
      <3>3. imageState[d].state = "Absent"
               => ProcessEntry(imageState[d], f).state = "Absent"
        BY <1>00, <3>2, ProcessEntryResult
      <3>4. QED
        BY <2>3, <3>1, <3>3 DEF NoEntry
    <2>4. QED
      BY <2>1, <2>2, <2>3 DEF WantOK, Known
  <1>10. ASSUME NEW saved \in BOOLEAN, NEW recorded \in BOOLEAN,
                Flush(saved, recorded)
         PROVE  WantOK'
    <2>1. \A d \in Dests : persisted'[d].state # "Absent"
             => persisted[d].state # "Absent" \/ d \in owned
      BY <1>10 DEF Flush, NoEntry
    <2>2. /\ tick'.want = {} /\ rpc' = "idle"
          /\ UNCHANGED <<wanted, dropped, owned, orphans, imageState>>
      BY <1>10 DEF Flush, NoTick
    <2>3. QED
      BY <2>1, <2>2 DEF WantOK, Known
  <1>11. CASE Crash
    BY <1>11 DEF Crash, WantOK, Known, NoTick, NoEntry
  <1>12. ASSUME NEW ip \in [Dests -> Pods \cup {NoPod}], Restart(ip)
         PROVE  WantOK'
    BY <1>1, <1>12 DEF Restart, Known
  <1>13. CASE /\ UNCHANGED <<wanted, dropped, owned, tick, persisted, orphans,
                             imageState>>
              /\ rpc' \in {"clearing", "resolving"}
                    => rpc \in {"clearing", "resolving"}
    BY <1>1, <1>13 DEF Known
  <1> DEFINE Same == UNCHANGED <<wanted, dropped, owned, tick, persisted, orphans,
                                 imageState, rpc>>
  <1>14. /\ UNCHANGED vars \/ PollElapses => Same
         /\ \A note \in {"resync", "recollect"} : Annotate(note) => Same
         /\ \A p \in Pods : WorkerStep(p) => Same
         /\ \A p \in Pods : WorkerFault(p) => Same
    <2>1. (UNCHANGED vars \/ PollElapses => Same)
          /\ \A note \in {"resync", "recollect"} : Annotate(note) => Same
      BY DEF vars, Annotate, PollElapses
    <2>2. ASSUME NEW p \in Pods, WorkerStep(p)
          PROVE  Same
      BY <2>2 DEF WorkerStep, PodStart, PodFinishes, BeginItem, SkipItem,
         CopyItem, DeliverReport, AckReport
    <2>3. ASSUME NEW p \in Pods, WorkerFault(p)
          PROVE  Same
      BY <2>3 DEF WorkerFault, PodGetsStuck, PodDies, LoseAck, LoseReport
    <2>4. QED
      BY <2>1, <2>2, <2>3
  <1>15. ASSUME \/ CleanupSnapshot \/ CleanupList \/ CleanupListFails
                \/ CleanupLock \/ ReconcileLock \/ ReconcileReadFails
                \/ ResolveFails \/ EndDispatch
                \/ \E kept \in SUBSET doomed : CleanupDelete(kept)
                \/ \E B \in SUBSET Dests : StartBatchFails(B)
                \/ \E B \in SUBSET Dests, p \in Pods : StartBatch(B, p)
         PROVE  /\ UNCHANGED <<wanted, dropped, owned, tick, persisted, orphans,
                               imageState>>
                /\ rpc' \in {"clearing", "resolving"}
                      => rpc \in {"clearing", "resolving"}
    BY <1>15 DEF CleanupSnapshot, CleanupList, CleanupListFails, CleanupLock,
       ReconcileLock, ReconcileReadFails, ResolveFails, EndDispatch,
       CleanupDelete, StartBatchFails, StartBatch
  <1>16. QED
    BY <1>2, <1>3, <1>4, <1>5, <1>6, <1>7, <1>8, <1>9, <1>10, <1>11, <1>12,
       <1>13, <1>14, <1>15 DEF Next, OutsideStep, ReconcileStepDone, RestartStep

\* Every action keeps the fast-path flags in step with the entries.
LEMMA FlagStep ==
    ASSUME TypeInv, WantOK, FlagOK, [Next]_vars
    PROVE  FlagOK'
  <1> USE DEF specVars, podVars, memVars, tickVars, queueVars, workerFrame,
          tickFrame
  <1>0. /\ OutsideTypeOK /\ MemTypeOK /\ QueueTypeOK
        /\ imageState \in [Dests -> EntryOrNone] /\ mirrored \subseteq Dests
    BY DEF TypeInv, TypeOK, MemTypeOK, EntryOrNone
  <1>1. CASE UNCHANGED <<mirrored, imageState>> /\ dropped \subseteq dropped'
    BY <1>1 DEF FlagOK
  <1>2. ASSUME NEW d \in Dests, BackoffElapses(d)
        PROVE  FlagOK'
    <2>1. \A x \in Dests : imageState'[x].state = imageState[x].state
      BY <1>0, <1>2 DEF BackoffElapses, EntryOrNone, Entry, NoEntry
    <2>2. QED
      BY <1>0, <1>2, <2>1 DEF BackoffElapses, FlagOK
  <1>3. CASE ApplyStatus
    <2> DEFINE r == Head(queued)
               e == imageState[r.dest]
               st == IF r.err = NoError THEN "Mirrored" ELSE "Failed"
               new == SetImageState(e, st, r.err)
    <2>0. r \in Report
      BY <1>0, <1>3 DEF ApplyStatus, QueueTypeOK
    <2>1. r.dest \in Dests
      BY <2>0 DEF Report
    <2>2. /\ imageState' = [imageState EXCEPT ![r.dest] = new]
          /\ mirrored' = IF st = "Mirrored"
                         THEN mirrored \cup {d \in {r.dest} : e.state # "Absent"}
                         ELSE Unflag({d \in {r.dest} : ChangesState(e, st, r.err)})
          /\ UNCHANGED dropped
      BY <1>3 DEF ApplyStatus
    <2>3. new.state = IF e.state = "Absent" THEN "Absent" ELSE st
      BY <1>0, <2>1, SetImageStateResult
    <2>4. st \in {"Mirrored", "Failed"}
      OBVIOUS
    <2>5. ~ChangesState(e, st, r.err) => e.state = "Absent" \/ e.state = st
      BY DEF ChangesState
    <2> HIDE DEF r, e, st, new
    <2>6. ASSUME NEW d \in mirrored', d \notin dropped', d # r.dest
          PROVE  imageState'[d].state = "Mirrored"
      BY <1>0, <2>1, <2>2, <2>6 DEF FlagOK, Unflag
    <2>7. ASSUME r.dest \in mirrored', r.dest \notin dropped'
          PROVE  imageState'[r.dest].state = "Mirrored"
      <3>1. imageState'[r.dest] = new
        BY <1>0, <2>1, <2>2
      <3>2. r.dest \in mirrored => e.state = "Mirrored"
        BY <2>2, <2>7 DEF FlagOK, e
      <3>3. CASE st = "Mirrored"
        BY <2>2, <2>3, <2>7, <3>1, <3>2, <3>3
      <3>4. CASE st = "Failed"
        BY <2>2, <2>5, <2>7, <3>2, <3>4 DEF Unflag
      <3>5. QED
        BY <2>4, <3>3, <3>4
    <2>8. QED
      BY <2>6, <2>7 DEF FlagOK
  <1>4. CASE CleanupApply
    <2>1. \A d \in mirrored' : d \in mirrored /\ imageState'[d] = imageState[d]
      BY <1>0, <1>4 DEF CleanupApply, Unflag
    <2>2. QED
      BY <1>4, <2>1 DEF FlagOK, CleanupApply
  <1>5. ASSUME NEW found \in {persisted, NothingLoaded}, ReconcileLoad(found)
        PROVE  FlagOK'
    <2> DEFINE empty == \A d \in Dests : imageState[d].state = "Absent"
               base == IF empty THEN found ELSE imageState
    <2>1. \A d \in mirrored' : d \in mirrored /\ imageState'[d] = base[d]
      BY <1>0, <1>5 DEF ReconcileLoad, Unflag
    <2>2. ASSUME NEW d \in mirrored', d \notin dropped
          PROVE  imageState'[d].state = "Mirrored"
      <3>1. imageState[d].state = "Mirrored"
        BY <2>1, <2>2 DEF FlagOK
      <3>2. ~empty
        BY <1>0, <2>1, <2>2, <3>1
      <3>3. QED
        BY <2>1, <2>2, <3>1, <3>2
    <2>3. QED
      BY <1>5, <2>2 DEF FlagOK, ReconcileLoad
  <1>6. CASE ResolveDone
    <2>1. \A d \in Dests : imageState[d].state = "Mirrored"
                               => imageState'[d] = imageState[d]
      BY <1>6 DEF ResolveDone
    <2>2. QED
      BY <1>0, <1>6, <2>1 DEF ResolveDone, FlagOK
  <1>7. CASE ProcessEntries
    <2>1. ASSUME NEW d \in Dests, d \notin dropped, imageState[d].state = "Mirrored"
          PROVE  imageState'[d].state = "Mirrored"
      <3> DEFINE f == d \in mirrored /\ d \in owned
      <3>1. d \in owned
        BY <2>1 DEF WantOK, Known
      <3>2. imageState'[d] = ProcessEntry(imageState[d], f)
        BY <1>7, <3>1 DEF ProcessEntries
      <3>3. f \in BOOLEAN
        OBVIOUS
      <3> HIDE DEF f
      <3>4. QED
        BY <1>0, <2>1, <3>2, <3>3, ProcessEntryResult
    <2>2. mirrored' = mirrored \cup {d \in owned : imageState[d].state = "Mirrored"}
          /\ UNCHANGED <<dropped, owned>> /\ owned \subseteq Dests
      BY <1>0, <1>7 DEF ProcessEntries, MemTypeOK
    <2>3. QED
      BY <1>0, <2>1, <2>2 DEF FlagOK
  <1>8. CASE Crash
    BY <1>8 DEF Crash, FlagOK
  <1>9. /\ UNCHANGED vars => UNCHANGED <<mirrored, imageState, dropped>>
        /\ OutsideStep => UNCHANGED <<mirrored, imageState>> /\ dropped \subseteq dropped'
        /\ \A d \in Dests : CleanupOrphan(d)
              => UNCHANGED <<mirrored, imageState, dropped>>
    BY DEF vars, OutsideStep, EditSpec, Annotate, PollElapses, CleanupOrphan
  <1>10. ASSUME NEW p \in Pods, WorkerStep(p) \/ WorkerFault(p)
         PROVE  UNCHANGED <<mirrored, imageState, dropped>>
    <2>1. CASE WorkerStep(p)
      BY <2>1 DEF WorkerStep, PodStart, PodFinishes, BeginItem, SkipItem,
         CopyItem, DeliverReport, AckReport
    <2>2. CASE WorkerFault(p)
      BY <2>2 DEF WorkerFault, PodGetsStuck, PodDies, LoseAck, LoseReport
    <2>3. QED
      BY <1>10, <2>1, <2>2
  <1>11. ASSUME \/ CleanupSnapshot \/ CleanupList \/ CleanupListFails
                \/ CleanupLock \/ ReconcileLock \/ ReconcileReadFails
                \/ ClearResync \/ ResolveFails \/ EndDispatch
                \/ \E saved, recorded \in BOOLEAN : Flush(saved, recorded)
                \/ \E kept \in SUBSET doomed : CleanupDelete(kept)
                \/ \E B \in SUBSET Dests : StartBatchFails(B)
                \/ \E B \in SUBSET Dests, p \in Pods : StartBatch(B, p)
         PROVE  UNCHANGED <<mirrored, imageState, dropped>>
    BY <1>11 DEF CleanupSnapshot, CleanupList, CleanupListFails, CleanupLock,
       ReconcileLock, ReconcileReadFails, ClearResync, ResolveFails,
       EndDispatch, Flush, CleanupDelete, StartBatchFails, StartBatch
  <1>12. \A ip \in [Dests -> Pods \cup {NoPod}] :
             Restart(ip) => UNCHANGED <<mirrored, imageState, dropped>>
    BY DEF Restart
  <1>13. QED
    BY <1>1, <1>2, <1>3, <1>4, <1>5, <1>6, <1>7, <1>8, <1>9, <1>10, <1>11,
       <1>12 DEF Next, ReconcileStepDone, RestartStep

\* Append adds nothing but its report, Tail adds nothing, and the head of a
\* queue is in the queue.
LEMMA QueueShrinks ==
    ASSUME NEW q \in Seq(Report)
    PROVE  /\ \A r \in Report : \A i \in DOMAIN Append(q, r) :
                 Append(q, r)[i] = r \/ \E j \in DOMAIN q : q[j] = Append(q, r)[i]
           /\ q # <<>> => /\ \E i \in DOMAIN q : q[i] = Head(q)
                          /\ \A i \in DOMAIN Tail(q) :
                                \E j \in DOMAIN q : q[j] = Tail(q)[i]
  <1>1. DOMAIN q = 1 .. Len(q) /\ Len(q) \in Nat
    BY LenProperties
  <1>2. ASSUME NEW r \in Report, NEW i \in DOMAIN Append(q, r)
        PROVE  Append(q, r)[i] = r \/ \E j \in DOMAIN q : q[j] = Append(q, r)[i]
    <2>1. /\ Append(q, r) \in Seq(Report) /\ Len(Append(q, r)) = Len(q) + 1
          /\ \A j \in 1 .. Len(q) : Append(q, r)[j] = q[j]
          /\ Append(q, r)[Len(q) + 1] = r
      BY AppendProperties
    <2>2. DOMAIN Append(q, r) = 1 .. Len(q) + 1
      BY <2>1, LenProperties
    <2>3. i \in 1 .. Len(q) \/ i = Len(q) + 1
      BY <1>1, <2>2
    <2>4. QED
      BY <1>1, <2>1, <2>3
  <1>3. ASSUME q # <<>>
        PROVE  /\ \E i \in DOMAIN q : q[i] = Head(q)
               /\ \A i \in DOMAIN Tail(q) : \E j \in DOMAIN q : q[j] = Tail(q)[i]
    <2>1. /\ Tail(q) \in Seq(Report) /\ Len(Tail(q)) = Len(q) - 1
          /\ \A j \in 1 .. Len(Tail(q)) : Tail(q)[j] = q[j + 1]
      BY <1>3, HeadTailProperties
    <2>2. DOMAIN Tail(q) = 1 .. Len(q) - 1
      BY <2>1, LenProperties
    <2>3. Len(q) >= 1 /\ Head(q) = q[1]
      BY <1>1, <1>3, EmptySeq
    <2>4. ASSUME NEW i \in DOMAIN Tail(q)
          PROVE  i + 1 \in DOMAIN q /\ q[i + 1] = Tail(q)[i]
      BY <1>1, <2>1, <2>2
    <2>5. QED
      BY <1>1, <2>3, <2>4
  <1>4. QED
    BY <1>2, <1>3

QueuedSuccessOf(d) ==
    \E p \in Pods : Queued([pod |-> p, dest |-> d, err |-> NoError])

WorkerSuccess(p, d) ==
    /\ pods[p].step \in {"report", "acking"}
    /\ pods[p].cur = d /\ pods[p].err = NoError

\* No action creates evidence of a success before the copy is in the registry.
LEMMA EvidenceStep ==
    ASSUME MirroredInv, [Next]_vars
    PROVE  EvidenceOK'
  <1> USE DEF specVars, podVars, memVars, tickVars, queueVars, workerFrame,
          tickFrame
  <1>0. /\ OutsideTypeOK /\ PodsTypeOK /\ MemTypeOK /\ QueueTypeOK /\ ItemOK
        /\ LockOK /\ WantOK /\ FlagOK /\ EvidenceOK
        /\ imageState \in [Dests -> EntryOrNone]
    BY DEF MirroredInv, AckInv, TypeInv, TypeOK, MemTypeOK, EntryOrNone
  <1> DEFINE Entries == \A d \in Dests \ dropped' :
                          (imageState'[d].state = "Mirrored"
                             \/ persisted'[d].state = "Mirrored")
                          => Evidence(d)
             Reports == \A d \in Dests \ dropped' :
                          QueuedSuccessOf(d)' => Evidence(d)
             Workers == \A d \in Dests \ dropped', p \in Pods :
                          WorkerSuccess(p, d)' => Evidence(d) \/ d \in registry'
             Registry == /\ dropped \subseteq dropped'
                         /\ \A d \in registry \ dropped : d \in registry'
  <1>1. ASSUME Entries, Reports, Workers, Registry
        PROVE  EvidenceOK'
    <2>1. ASSUME NEW d \in Dests \ dropped', Evidence(d)'
          PROVE  d \in registry'
      <3>1. d \in Dests \ dropped
        BY <1>1
      <3>2. Evidence(d) \/ d \in registry'
        BY <1>1, <2>1 DEF Evidence, QueuedSuccessOf, WorkerSuccess
      <3>3. QED
        BY <1>0, <1>1, <3>1, <3>2 DEF EvidenceOK
    <2>2. QED
      BY <2>1 DEF EvidenceOK
  <1> HIDE DEF Entries, Reports, Workers, Registry
  <1>e. ASSUME UNCHANGED <<imageState, persisted>>
        PROVE  Entries
    BY <1>e DEF Entries, Evidence
  <1>r. ASSUME UNCHANGED <<statusQueue, queued>>
        PROVE  Reports
    BY <1>r DEF Reports, Evidence, QueuedSuccessOf, Queued
  <1>w. ASSUME UNCHANGED pods
        PROVE  Workers
    BY <1>w DEF Workers, Evidence, WorkerSuccess
  <1>g. ASSUME registry \subseteq registry', dropped \subseteq dropped'
        PROVE  Registry
    BY <1>g DEF Registry
  <1>p. ASSUME NEW p \in Pods, NEW w, pods' = [pods EXCEPT ![p] = w],
               w.step \in {"report", "acking"} /\ w.err = NoError
                  => WorkerSuccess(p, w.cur) \/ w.cur \in registry'
        PROVE  Workers
    <2>1. ASSUME NEW d \in Dests \ dropped', NEW q \in Pods, WorkerSuccess(q, d)'
          PROVE  Evidence(d) \/ d \in registry'
      <3>1. CASE q = p
        BY <1>0, <1>p, <2>1, <3>1 DEF WorkerSuccess, Evidence, PodsTypeOK
      <3>2. CASE q # p
        BY <1>0, <1>p, <2>1, <3>2 DEF WorkerSuccess, Evidence, PodsTypeOK
      <3>3. QED
        BY <3>1, <3>2
    <2>2. QED
      BY <2>1 DEF Workers
  <1>2. ASSUME NEW d \in Dests, CleanupOrphan(d)
        PROVE  EvidenceOK'
    <2>1. Registry
      BY <1>0, <1>2 DEF CleanupOrphan, WantOK, Registry
    <2>2. QED
      BY <1>1, <1>e, <1>r, <1>w, <1>2, <2>1 DEF CleanupOrphan
  <1>3. ASSUME NEW d \in Dests, BackoffElapses(d)
        PROVE  EvidenceOK'
    <2>1. \A x \in Dests : imageState'[x].state = imageState[x].state
      BY <1>0, <1>3 DEF BackoffElapses, EntryOrNone, Entry, NoEntry
    <2>2. Entries
      BY <1>3, <2>1 DEF Entries, Evidence, BackoffElapses
    <2>3. QED
      BY <1>1, <1>r, <1>w, <1>g, <1>3, <2>2 DEF BackoffElapses
  <1>4. ASSUME NEW p \in Pods, WorkerStep(p)
        PROVE  EvidenceOK'
    <2>0. pods[p] \in Worker
      BY <1>0 DEF PodsTypeOK
    <2>1. CASE PodStart(p)
      <3>1. Workers
        BY <1>0, <2>0, <2>1
           DEF PodStart, Workers, WorkerSuccess, Evidence, PodsTypeOK, Worker
      <3>2. QED
        BY <1>1, <1>e, <1>r, <1>g, <2>1, <3>1 DEF PodStart
    <2>2. CASE PodFinishes(p)
      <3>1. Ended(pods[p], "Succeeded").step = "next"
        BY <2>0 DEF Ended, Worker
      <3>2. Workers
        BY <1>p, <2>2, <3>1 DEF PodFinishes
      <3>3. QED
        BY <1>1, <1>e, <1>r, <1>g, <2>2, <3>2 DEF PodFinishes
    <2>3. ASSUME NEW d \in Dests, BeginItem(p, d) \/ SkipItem(p, d)
          PROVE  EvidenceOK'
      <3>1. Workers
        <4>1. pods'[p].step \in {"next", "copy"}
          BY <1>0, <2>0, <2>3 DEF BeginItem, SkipItem, PodsTypeOK, Worker
        <4>2. \A q \in Pods \ {p} : pods'[q] = pods[q]
          BY <1>0, <2>3 DEF BeginItem, SkipItem, PodsTypeOK
        <4>3. QED
          BY <4>1, <4>2 DEF Workers, WorkerSuccess, Evidence
      <3>2. QED
        BY <1>1, <1>e, <1>r, <1>g, <2>3, <3>1 DEF BeginItem, SkipItem
    <2>4. CASE CopyItem(p)
      <3>1. PICK e \in Errors \cup {NoError} :
               /\ pods' = [pods EXCEPT ![p] =
                              [pods[p] EXCEPT !.step = "report", !.err = e]]
               /\ e = NoError => pods[p].cur \in registry'
        <4>1. CASE /\ registry' = registry \cup {pods[p].cur}
                   /\ pods' = [pods EXCEPT ![p].step = "report", ![p].err = NoError]
          BY <4>1
        <4>2. ASSUME NEW e \in Errors,
                     pods' = [pods EXCEPT ![p].step = "report", ![p].err = e]
              PROVE  /\ pods' = [pods EXCEPT ![p] =
                              [pods[p] EXCEPT !.step = "report", !.err = e]]
                     /\ e # NoError
          BY <4>2, ErrorsAssumption DEF ErrorsAssumption
        <4>3. QED
          BY <2>4, <4>1, <4>2 DEF CopyItem
      <3>2. Workers
        <4> DEFINE w == [pods[p] EXCEPT !.step = "report", !.err = e]
        <4>1. w.step = "report" /\ w.err = e /\ w.cur = pods[p].cur
          BY <2>0 DEF Worker
        <4>2. pods' = [pods EXCEPT ![p] = w]
          BY <3>1
        <4> HIDE DEF w
        <4>3. QED
          BY <1>p, <3>1, <4>1, <4>2
      <3>3. registry \subseteq registry'
        BY <2>4 DEF CopyItem
      <3>4. QED
        BY <1>1, <1>e, <1>r, <1>g, <2>4, <3>2, <3>3 DEF CopyItem
    <2>5. CASE DeliverReport(p)
      <3>1. PICK c \in Dests, e \in Errors \cup {NoError} :
               pods[p].cur = c /\ pods[p].err = e
        BY <1>0, <2>0, <2>5 DEF DeliverReport, ItemOK, Worker
      <3> DEFINE r == [pod |-> p, dest |-> c, err |-> e]
      <3>2. /\ r \in Report
            /\ pods' = [pods EXCEPT ![p] = [pods[p] EXCEPT !.step = "acking"]]
            /\ pods[p].step = "report"
            /\ \/ queued' = Append(statusQueue, r) /\ statusQueue' = <<>>
               \/ statusQueue' = Append(statusQueue, r) /\ UNCHANGED queued
            /\ UNCHANGED <<imageState, persisted, registry, dropped>>
        BY <2>5, <3>1 DEF DeliverReport, Report
      <3>3. statusQueue \in Seq(Report)
        BY <1>0 DEF QueueTypeOK
      <3>4. Workers
        BY <1>p, <2>0, <3>2 DEF Worker, WorkerSuccess
      <3>5. ASSUME NEW q \in Pods, NEW d \in Dests,
                   Queued([pod |-> q, dest |-> d, err |-> NoError])'
            PROVE  Evidence(d)
        <4> DEFINE x == [pod |-> q, dest |-> d, err |-> NoError]
        <4>1. Queued(x) \/ x = r
          <5> HIDE DEF x, r
          <5>1. \A i \in DOMAIN Append(statusQueue, r) :
                   Append(statusQueue, r)[i] = r
                   \/ \E j \in DOMAIN statusQueue :
                         statusQueue[j] = Append(statusQueue, r)[i]
            BY <3>2, <3>3, QueueShrinks
          <5>2. QED
            BY <3>2, <3>5, <5>1 DEF Queued, x
        <4>2. CASE Queued(x)
          BY <4>2 DEF Evidence
        <4>3. CASE x = r
          BY <3>1, <3>2, <4>3 DEF Evidence
        <4>4. QED
          BY <4>1, <4>2, <4>3
      <3>6. Reports
        BY <3>5 DEF Reports, QueuedSuccessOf
      <3>7. QED
        BY <1>1, <1>e, <1>g, <3>2, <3>4, <3>6
    <2>6. CASE AckReport(p)
      <3>1. Acknowledged(pods[p]).step = "next"
        BY <2>0 DEF Acknowledged, NextItem, Worker
      <3>2. Workers
        BY <1>p, <2>6, <3>1 DEF AckReport
      <3>3. QED
        BY <1>1, <1>e, <1>r, <1>g, <2>6, <3>2 DEF AckReport
    <2>7. QED
      BY <1>4, <2>1, <2>2, <2>3, <2>4, <2>5, <2>6 DEF WorkerStep
  <1>5. ASSUME NEW p \in Pods, WorkerFault(p)
        PROVE  EvidenceOK'
    <2>0. pods[p] \in Worker
      BY <1>0 DEF PodsTypeOK
    <2>1. CASE PodGetsStuck(p)
      <3>1. Workers
        BY <1>0, <2>0, <2>1
           DEF PodGetsStuck, Workers, WorkerSuccess, Evidence, PodsTypeOK, Worker
      <3>2. QED
        BY <1>1, <1>e, <1>r, <1>g, <2>1, <3>1 DEF PodGetsStuck
    <2>2. CASE PodDies(p)
      <3>1. Ended(pods[p], "Failed").step = "next" /\ NoWorker.step = "next"
        BY <2>0 DEF Ended, Worker, NoWorker
      <3>2. Workers
        BY <1>p, <2>2, <3>1 DEF PodDies
      <3>3. QED
        BY <1>1, <1>e, <1>r, <1>g, <2>2, <3>2 DEF PodDies
    <2>3. CASE LoseAck(p) \/ LoseReport(p)
      <3> DEFINE w == SendFailed(pods[p])
      <3>1. \/ w.step = "next"
            \/ w.step = "report" /\ w.cur = pods[p].cur /\ w.err = pods[p].err
        BY <2>0 DEF SendFailed, NextItem, Worker
      <3>2. pods[p].step \in {"report", "acking"} /\ pods' = [pods EXCEPT ![p] = w]
        BY <2>3 DEF LoseAck, LoseReport
      <3>3. Workers
        <4> HIDE DEF w
        <4>1. QED
          BY <1>p, <3>1, <3>2 DEF WorkerSuccess
      <3>4. QED
        BY <1>1, <1>e, <1>r, <1>g, <2>3, <3>3 DEF LoseAck, LoseReport
    <2>4. QED
      BY <1>5, <2>1, <2>2, <2>3 DEF WorkerFault
  <1>6. CASE ApplyStatus
    <2> DEFINE r == Head(queued)
               st == IF r.err = NoError THEN "Mirrored" ELSE "Failed"
               new == SetImageState(imageState[r.dest], st, r.err)
    <2>0. r \in Report /\ queued \in Seq(Report) /\ queued # <<>>
      BY <1>0, <1>6 DEF ApplyStatus, QueueTypeOK
    <2>1. r.dest \in Dests /\ r.pod \in Pods
          /\ r = [pod |-> r.pod, dest |-> r.dest, err |-> r.err]
      BY <2>0 DEF Report
    <2>2. /\ imageState' = [imageState EXCEPT ![r.dest] = new]
          /\ queued' = Tail(queued)
          /\ UNCHANGED <<dropped, persisted, registry, pods, statusQueue>>
      BY <1>6 DEF ApplyStatus
    <2>3. new.state \in {"Absent", st}
      BY <1>0, <2>1, SetImageStateResult
    <2>4. st = "Mirrored" => Evidence(r.dest)
      <3>1. Queued(r)
        BY <2>0, QueueShrinks DEF Queued
      <3>2. st = "Mirrored" => r.err = NoError
        OBVIOUS
      <3> HIDE DEF st
      <3>3. QED
        BY <2>1, <3>1, <3>2 DEF Evidence
    <2>5. Reports
      <3>1. \A x : Queued(x)' => Queued(x)
        <4>1. \A i \in DOMAIN Tail(queued) :
                 \E j \in DOMAIN queued : queued[j] = Tail(queued)[i]
          BY <2>0, QueueShrinks
        <4>2. QED
          BY <2>2, <4>1 DEF Queued
      <3>2. QED
        BY <3>1 DEF Reports, QueuedSuccessOf, Evidence
    <2> HIDE DEF r, st, new
    <2>6. Entries
      BY <1>0, <2>1, <2>2, <2>3, <2>4 DEF Entries, Evidence
    <2>7. QED
      BY <1>1, <1>w, <1>g, <2>2, <2>5, <2>6
  <1>7. CASE CleanupLock \/ ReconcileLock \/ EndDispatch
    <2>1. /\ queued = <<>> /\ queued' = statusQueue /\ statusQueue' = <<>>
          /\ UNCHANGED <<pods, imageState, persisted, registry, dropped>>
      BY <1>0, <1>7 DEF CleanupLock, ReconcileLock, LockAndDrain, EndDispatch, LockOK
    <2>2. Reports
      BY <2>1 DEF Reports, QueuedSuccessOf, Queued, Evidence
    <2>3. QED
      BY <1>1, <1>e, <1>w, <1>g, <2>1, <2>2
  <1>8. CASE CleanupApply
    <2>1. \A d \in Dests : imageState'[d].state = "Mirrored"
                               => imageState[d].state = "Mirrored"
      BY <1>0, <1>8, SetImageStateResult DEF CleanupApply
    <2>2. Entries
      BY <1>8, <2>1 DEF CleanupApply, Entries, Evidence
    <2>3. QED
      BY <1>1, <1>r, <1>w, <1>g, <1>8, <2>2 DEF CleanupApply
  <1>9. ASSUME NEW found \in {persisted, NothingLoaded}, ReconcileLoad(found)
        PROVE  EvidenceOK'
    <2> DEFINE base == IF \A d \in Dests : imageState[d].state = "Absent"
                       THEN found ELSE imageState
    <2>1. \A d \in Dests : imageState'[d] \in {base[d], FreshCycle(base[d])}
      BY <1>9 DEF ReconcileLoad
    <2>2. \A d \in Dests : base[d] \in EntryOrNone
      BY <1>0 DEF OutsideTypeOK, EntryOrNone, NothingLoaded
    <2>3. \A d \in Dests : base[d].state = "Mirrored" => Evidence(d)
      BY DEF Evidence, NothingLoaded, NoEntry
    <2> HIDE DEF base
    <2>4. \A d \in Dests : imageState'[d].state = "Mirrored" => Evidence(d)
      BY <2>1, <2>2, <2>3, FreshCycleResult
    <2>5. Entries
      BY <1>9, <2>4 DEF ReconcileLoad, Entries, Evidence
    <2>6. QED
      BY <1>1, <1>r, <1>w, <1>g, <1>9, <2>5 DEF ReconcileLoad
  <1>10. CASE ResolveDone
    <2>1. \A d \in Dests : imageState'[d] \in {NewEntry, FreshCycle(imageState[d]),
                                               imageState[d]}
      BY <1>10 DEF ResolveDone
    <2>2. \A d \in Dests : imageState'[d].state = "Mirrored"
                               => imageState[d].state = "Mirrored"
      BY <1>0, <2>1, FreshCycleResult DEF NewEntry
    <2>3. Entries
      BY <1>10, <2>2 DEF ResolveDone, Entries, Evidence
    <2>4. QED
      BY <1>1, <1>r, <1>w, <1>g, <1>10, <2>3 DEF ResolveDone
  <1>11. CASE ProcessEntries
    <2>1. ASSUME NEW d \in Dests \ dropped, imageState'[d].state = "Mirrored"
          PROVE  imageState[d].state = "Mirrored"
      <3> DEFINE f == d \in mirrored /\ d \in owned
      <3>1. imageState'[d] \in {NoEntry, ProcessEntry(imageState[d], f)}
        BY <1>11 DEF ProcessEntries
      <3>2. f \in BOOLEAN /\ (f => imageState[d].state = "Mirrored")
        BY <1>0, <2>1 DEF FlagOK
      <3> HIDE DEF f
      <3>3. ~f /\ ProcessEntry(imageState[d], f).state = "Mirrored"
               => imageState[d].state = "Mirrored"
        BY <1>0, <3>2, ProcessEntryResult
      <3>4. QED
        BY <2>1, <3>1, <3>2, <3>3 DEF NoEntry
    <2>2. Entries
      BY <1>11, <2>1 DEF ProcessEntries, Entries, Evidence
    <2>3. QED
      BY <1>1, <1>r, <1>w, <1>g, <1>11, <2>2 DEF ProcessEntries
  <1>12. ASSUME NEW saved \in BOOLEAN, NEW recorded \in BOOLEAN,
                Flush(saved, recorded)
         PROVE  EvidenceOK'
    <2>1. \A d \in Dests : persisted'[d].state = "Mirrored"
             => persisted[d].state = "Mirrored" \/ imageState[d].state = "Mirrored"
      BY <1>12 DEF Flush, NoEntry
    <2>2. Entries
      BY <1>12, <2>1 DEF Flush, Entries, Evidence
    <2>3. QED
      BY <1>1, <1>r, <1>w, <1>g, <1>12, <2>2 DEF Flush
  <1>13. ASSUME NEW kept \in SUBSET doomed, CleanupDelete(kept)
         PROVE  EvidenceOK'
    <2>1. Workers
      BY <1>0, <1>13
         DEF CleanupDelete, NoWorker, Workers, WorkerSuccess, Evidence, PodsTypeOK
    <2>2. QED
      BY <1>1, <1>e, <1>r, <1>g, <1>13, <2>1 DEF CleanupDelete
  <1>14. ASSUME NEW B \in SUBSET Dests, NEW p \in Pods, StartBatch(B, p)
         PROVE  EvidenceOK'
    <2>1. NewWorker(B).step = "next"
      BY DEF NewWorker, NoWorker
    <2>2. Workers
      BY <1>p, <1>14, <2>1 DEF StartBatch
    <2>3. QED
      BY <1>1, <1>e, <1>r, <1>g, <1>14, <2>2 DEF StartBatch
  <1>15. CASE Crash
    <2>1. Entries
      BY <1>15 DEF Crash, Entries, Evidence, NoEntry
    <2>2. Reports
      BY <1>15 DEF Crash, Reports, QueuedSuccessOf, Queued
    <2>3. ASSUME NEW p \in Pods, NEW d, WorkerSuccess(p, d)'
          PROVE  WorkerSuccess(p, d)
      <3>0. pods[p] \in Worker
        BY <1>0 DEF PodsTypeOK
      <3>1. CASE pods[p].step = "acking"
        <4>1. pods'[p] = [SendFailed(pods[p]) EXCEPT !.acked = {}]
          BY <1>15, <3>1 DEF Crash
        <4>2. QED
          BY <2>3, <3>0, <3>1, <4>1 DEF SendFailed, NextItem, Worker, WorkerSuccess
      <3>2. CASE pods[p].step # "acking"
        <4>1. pods'[p] = [pods[p] EXCEPT !.acked = {}]
          BY <1>15, <3>2 DEF Crash
        <4>2. QED
          BY <2>3, <3>0, <4>1 DEF Worker, WorkerSuccess
      <3>3. QED
        BY <3>1, <3>2
    <2>4. Workers
      BY <2>3 DEF Workers, Evidence, WorkerSuccess
    <2>5. QED
      BY <1>1, <1>g, <1>15, <2>1, <2>2, <2>4 DEF Crash
  <1>16. ASSUME NEW ip \in [Dests -> Pods \cup {NoPod}], Restart(ip)
         PROVE  EvidenceOK'
    <2>1. \A p \in Pods : pods'[p] = pods[p] \/ pods'[p].step = "next"
      BY <1>16 DEF Restart, SyncFromPods, NoWorker
    <2>2. Workers
      BY <2>1 DEF Workers, WorkerSuccess, Evidence
    <2>3. QED
      BY <1>1, <1>e, <1>r, <1>g, <1>16, <2>2 DEF Restart
  <1>17. CASE /\ UNCHANGED <<imageState, persisted, statusQueue, queued, pods, registry>>
              /\ dropped \subseteq dropped'
    BY <1>1, <1>e, <1>r, <1>w, <1>g, <1>17
  <1>18. ASSUME OutsideStep \/ UNCHANGED vars
         PROVE  /\ UNCHANGED <<imageState, persisted, statusQueue, queued, pods, registry>>
                /\ dropped \subseteq dropped'
    BY <1>18 DEF vars, OutsideStep, EditSpec, Annotate, PollElapses
  <1>19. ASSUME \/ CleanupSnapshot \/ CleanupList \/ CleanupListFails
                \/ ReconcileReadFails \/ ClearResync \/ ResolveFails
                \/ \E B \in SUBSET Dests : StartBatchFails(B)
         PROVE  /\ UNCHANGED <<imageState, persisted, statusQueue, queued, pods, registry>>
                /\ dropped \subseteq dropped'
    BY <1>19 DEF CleanupSnapshot, CleanupList, CleanupListFails,
       ReconcileReadFails, ClearResync, ResolveFails, StartBatchFails
  <1>20. QED
    BY <1>2, <1>3, <1>4, <1>5, <1>6, <1>7, <1>8, <1>9, <1>10, <1>11, <1>12,
       <1>13, <1>14, <1>15, <1>16, <1>17, <1>18, <1>19
       DEF Next, ReconcileStepDone, RestartStep

-----------------------------------------------------------------------------
(* The theorems *)

\* The invariant the theorems rest on.
LEMMA MirroredInvariant ==
    ASSUME "readd" \notin Events
    PROVE  Spec => []MirroredInv
  <1>1. Init => WantOK /\ FlagOK /\ EvidenceOK
    BY DEF Init, WantOK, FlagOK, EvidenceOK, Evidence, Known, NoEntry, NoTick,
       NoWorker, Queued
  <1>2. AckInv /\ WantOK /\ FlagOK /\ EvidenceOK /\ [Next]_vars
           => (WantOK /\ FlagOK /\ EvidenceOK)'
    BY WantStep, FlagStep, EvidenceStep DEF MirroredInv, AckInv
  <1>3. QED
    BY <1>1, <1>2, AckInvariant, PTL DEF Spec, MirroredInv

\* What the manager calls Mirrored and the ImageSet asks for is in the
\* registry, through crashes, restarts, lost and repeated reports and the
\* cleanup of orphans, as long as no dropped image is brought back.
THEOREM MirroredIsPresent ==
    ASSUME "readd" \notin Events
    PROVE  Spec => []MirroredPresent
  <1>1. MirroredInv => MirroredPresent
    BY DEF MirroredInv, AckInv, TypeInv, TypeOK, OutsideTypeOK, WantOK,
       EvidenceOK, Evidence, MirroredPresent
  <1>2. QED
    BY <1>1, MirroredInvariant, PTL

\* Phase D's defensive sync never makes an entry Mirrored on the strength of a
\* stale flag, as long as no dropped image is brought back.
THEOREM FlagsAreNeverStale ==
    ASSUME "readd" \notin Events
    PROVE  Spec => NoUncheckedFlip
  <1>1. ASSUME MirroredInv, [Next]_vars, rpc = "processing",
               NEW d \in wanted, imageState[d].state # "Mirrored"
        PROVE  imageState'[d].state # "Mirrored"
    <2> USE DEF specVars, podVars, memVars, tickVars, queueVars, workerFrame,
            tickFrame
    <2>0. /\ d \in Dests \ dropped /\ d \notin mirrored /\ queued = <<>>
          /\ imageState \in [Dests -> EntryOrNone]
      BY <1>1 DEF MirroredInv, AckInv, TypeInv, TypeOK, OutsideTypeOK, MemTypeOK,
         WantOK, FlagOK, LockOK, EntryOrNone
    <2>1. CASE UNCHANGED imageState
      BY <1>1, <2>1
    <2>2. CASE ProcessEntries
      <3> DEFINE f == d \in mirrored /\ d \in owned
      <3>1. imageState'[d] \in {NoEntry, ProcessEntry(imageState[d], f)}
        BY <2>0, <2>2 DEF ProcessEntries
      <3>2. f \in BOOLEAN /\ ~f
        BY <2>0
      <3> HIDE DEF f
      <3>3. ProcessEntry(imageState[d], f).state # "Mirrored"
        BY <1>1, <2>0, <3>2, ProcessEntryResult
      <3>4. QED
        BY <3>1, <3>3 DEF NoEntry
    <2>3. CASE Crash
      BY <2>0, <2>3 DEF Crash, NoEntry
    <2>4. ASSUME NEW x \in Dests, BackoffElapses(x)
          PROVE  imageState'[d].state # "Mirrored"
      BY <1>1, <2>0, <2>4 DEF BackoffElapses, EntryOrNone, Entry, NoEntry
    <2>5. ASSUME NEW p \in Pods, WorkerStep(p) \/ WorkerFault(p)
          PROVE  UNCHANGED imageState
      <3>1. CASE WorkerStep(p)
        BY <3>1 DEF WorkerStep, PodStart, PodFinishes, BeginItem, SkipItem,
           CopyItem, DeliverReport, AckReport
      <3>2. CASE WorkerFault(p)
        BY <3>2 DEF WorkerFault, PodGetsStuck, PodDies, LoseAck, LoseReport
      <3>3. QED
        BY <2>5, <3>1, <3>2
    <2>6. ReconcileStepDone => UNCHANGED imageState \/ ProcessEntries
      BY <1>1 DEF ReconcileStepDone, CleanupSnapshot, CleanupList,
         CleanupListFails, CleanupLock, CleanupApply, CleanupDelete,
         ReconcileLock, ReconcileReadFails, ReconcileLoad, ClearResync,
         ResolveDone, ResolveFails, StartBatch, StartBatchFails, EndDispatch,
         Flush
    <2>7. /\ OutsideStep \/ UNCHANGED vars => UNCHANGED imageState
          /\ \A x \in Dests : CleanupOrphan(x) => UNCHANGED imageState
          /\ ~ApplyStatus /\ ~RestartStep
      BY <1>1, <2>0 DEF OutsideStep, EditSpec, Annotate, PollElapses, vars, CleanupOrphan,
         ApplyStatus, RestartStep, Restart
    <2>8. QED
      BY <1>1, <2>1, <2>2, <2>3, <2>4, <2>5, <2>6, <2>7 DEF Next
  <1>2. MirroredInv /\ [Next]_vars
          => [rpc = "processing" =>
                \A d \in wanted : imageState[d].state # "Mirrored"
                                     => imageState'[d].state # "Mirrored"]_vars
    BY <1>1
  <1>3. QED
    BY <1>2, MirroredInvariant, PTL DEF Spec, NoUncheckedFlip

-----------------------------------------------------------------------------
(***************************************************************************)
(* No image is worked on twice, no more pods than allowed have work, and   *)
(* what is known of an image survives the cleanup of pods.                 *)
(*                                                                         *)
(* The argument for the first two: whatever a live worker has not reported *)
(* yet is in progress on its pod, except while cleanupFinishedWorkers is   *)
(* about to delete a pod that was stuck; a report that waits to be applied *)
(* is about an image nobody holds, and is the only one about it.           *)
(***************************************************************************)

(* What the proofs assume of the outside events.  A restart attributes images
   to pods that have already reported them; a report that is sent again, or a
   stuck pod that survives its deletion and then starts, touches an image
   that may have another worker by then. *)
NoRepeats ==
    /\ "crash" \notin Events
    /\ "ackLost" \in Events => StatusAttempts = 1
    /\ {"podStuck", "deleteFails"} \subseteq Events => MaxEvents <= 1

LivePhase == {"Pending", "Stuck", "Running"}

\* What a worker has still to report.
HeldBy(w) ==
    IF w.phase \in LivePhase
    THEN w.todo \cup {d \in {w.cur} : w.step \in {"copy", "report"}}
    ELSE {}

Held(p) == HeldBy(pods[p])

Busy == {p \in Pods : Held(p) # {}}

\* A worker is past its current item.
ItemFresh == \A p \in Pods : pods[p].cur \notin pods[p].todo

\* A pod was stuck: then that event has happened.
WasStuck(p) == pods[p].phase = "Stuck" \/ (p \in doomed /\ Live(p))

StuckOK ==
    /\ budget <= MaxEvents
    /\ \A p \in Pods : WasStuck(p) => "podStuck" \in Events /\ budget < MaxEvents

\* cleanupFinishedWorkers gives up on images only of pods that have ended, or
\* that it is going to delete.
JudgedOK ==
    /\ rpc \notin {"applying", "resetting", "deleting"} => doomed = {}
    /\ rpc \in {"applying", "resetting"} =>
         \A d \in Dests : finished[d] # "none"
            => snapshot[d] \in Pods /\ (Live(snapshot[d]) => snapshot[d] \in doomed)

GivenUp(p, d) ==
    /\ rpc = "deleting" /\ p \in doomed
    /\ snapshot[d] = p /\ inProgress[d] = NoPod

\* What a worker holds is in progress on its pod.
TrackOK == \A p \in Pods : \A d \in Held(p) : inProgress[d] = p \/ GivenUp(p, d)

PendingOK == rpc = "dispatching" => \A d \in pending : inProgress[d] = NoPod

\* A report that waits is about an image nobody holds, which is in progress on
\* the pod that sent it unless the cleanup has just given up on that pod.
ReportOK(r, steps) ==
    /\ inProgress[r.dest] = r.pod \/ (rpc \in steps /\ inProgress[r.dest] = NoPod)
    /\ \A p \in Pods : r.dest \notin Held(p)

Distinct(q) == \A i, j \in DOMAIN q : i # j => q[i].dest # q[j].dest

QueueOK ==
    /\ \A i \in DOMAIN statusQueue : ReportOK(statusQueue[i], {"deleting", "starting"})
    /\ \A i \in DOMAIN queued : ReportOK(queued[i], {"deleting", "starting", "loading"})
    /\ Distinct(statusQueue) /\ Distinct(queued)
    /\ \A i \in DOMAIN statusQueue, j \in DOMAIN queued :
          statusQueue[i].dest # queued[j].dest

BusyOK == Cardinality(Busy) <= Concurrency

DispatchInv ==
    /\ AckInv /\ up /\ ItemFresh /\ StuckOK /\ JudgedOK
    /\ TrackOK /\ PendingOK /\ QueueOK /\ BusyOK

dispatchVars == <<inProgress, statusQueue, queued, rpc, snapshot, finished, doomed,
                  pending, up>>

-----------------------------------------------------------------------------
(* Workers *)

\* A worker never gets more to do, but when its pod is created.
LEMMA WorkerShrinks ==
    ASSUME NoRepeats, PodsTypeOK, ItemOK, ItemFresh, NEW p \in Pods,
           WorkerFault(p) \/ (WorkerStep(p) /\ ~DeliverReport(p))
    PROVE  /\ UNCHANGED dispatchVars
           /\ budget' \in {budget, budget - 1}
           /\ \E w \in Worker :
                /\ pods' = [pods EXCEPT ![p] = w]
                /\ HeldBy(w) \subseteq Held(p)
                /\ w.cur \notin w.todo
                /\ w.phase \in LivePhase => pods[p].phase \in LivePhase
                /\ w.phase = "Stuck" /\ pods[p].phase # "Stuck"
                      => "podStuck" \in Events /\ budget' = budget - 1
  <1> USE DEF specVars, podVars, memVars, tickVars, queueVars, workerFrame
  <1> DEFINE v == pods[p]
  <1>0. v \in Worker /\ v.cur \notin v.todo
    BY DEF PodsTypeOK, ItemFresh
  <1>1. UNCHANGED dispatchVars /\ budget' \in {budget, budget - 1}
    <2>1. CASE WorkerFault(p)
      BY <2>1 DEF WorkerFault, PodGetsStuck, PodDies, LoseAck, LoseReport, Event, dispatchVars
    <2>2. CASE WorkerStep(p) /\ ~DeliverReport(p)
      BY <2>2 DEF WorkerStep, PodStart, PodFinishes, BeginItem, SkipItem, CopyItem,
         AckReport, Event, dispatchVars
    <2>3. QED
      BY <2>1, <2>2
  <1> DEFINE OK(w) == /\ w \in Worker
                      /\ pods' = [pods EXCEPT ![p] = w]
                      /\ HeldBy(w) \subseteq Held(p)
                      /\ w.cur \notin w.todo
                      /\ w.phase \in LivePhase => v.phase \in LivePhase
                      /\ w.phase = "Stuck" /\ v.phase # "Stuck"
                            => "podStuck" \in Events /\ budget' = budget - 1
  <1> SUFFICES \E w : OK(w)
    BY <1>1
  <1>2. CASE PodStart(p)
    <2> DEFINE w == [v EXCEPT !.phase = "Running"]
    <2>1. w \in Worker
      BY <1>0 DEF Worker, PodPhase
    <2>2. pods' = [pods EXCEPT ![p] = w]
      BY <1>2 DEF PodStart
    <2>3. HeldBy(w) \subseteq Held(p) /\ v.phase \in LivePhase /\ w.phase = "Running"
          /\ w.cur \notin w.todo
      BY <1>0, <1>2 DEF PodStart, HeldBy, Held, LivePhase, Worker
    <2>4. QED
      BY <2>1, <2>2, <2>3
  <1>3. CASE PodGetsStuck(p)
    <2> DEFINE w == [v EXCEPT !.phase = "Stuck"]
    <2>1. w \in Worker
      BY <1>0 DEF Worker, PodPhase
    <2>2. pods' = [pods EXCEPT ![p] = w]
      BY <1>3 DEF PodGetsStuck
    <2>3. HeldBy(w) \subseteq Held(p) /\ v.phase \in LivePhase /\ w.phase = "Stuck"
          /\ w.cur \notin w.todo
      BY <1>0, <1>3 DEF PodGetsStuck, HeldBy, Held, LivePhase, Worker
    <2>4. "podStuck" \in Events /\ budget' = budget - 1
      BY <1>3 DEF PodGetsStuck, Event
    <2>5. QED
      BY <2>1, <2>2, <2>3, <2>4
  <1>4. ASSUME NEW w, w \in {NoWorker, Ended(v, "Failed"), Ended(v, "Succeeded")},
               pods' = [pods EXCEPT ![p] = w]
        PROVE  OK(w)
    <2>1. w \in Worker
      BY <1>0, <1>4, WorkerType
    <2>2. w.phase \in {"absent", "Failed", "Succeeded"} /\ w.todo = {} /\ w.cur \notin w.todo
      <3>1. CASE w = NoWorker
        BY <3>1 DEF NoWorker
      <3>2. CASE w = Ended(v, "Failed")
        BY <1>0, <3>2 DEF Ended, Worker
      <3>3. CASE w = Ended(v, "Succeeded")
        BY <1>0, <3>3 DEF Ended, Worker
      <3>4. QED
        BY <1>4, <3>1, <3>2, <3>3
    <2>3. HeldBy(w) = {} /\ w.phase \notin LivePhase /\ w.phase # "Stuck"
      BY <2>2 DEF HeldBy, LivePhase
    <2>4. QED
      BY <1>4, <2>1, <2>2, <2>3
  <1>5. CASE PodDies(p) \/ PodFinishes(p)
    <2>1. \/ pods' = [pods EXCEPT ![p] = NoWorker]
          \/ pods' = [pods EXCEPT ![p] = Ended(v, "Failed")]
          \/ pods' = [pods EXCEPT ![p] = Ended(v, "Succeeded")]
      BY <1>5 DEF PodDies, PodFinishes
    <2> HIDE DEF OK
    <2>2. QED
      BY <1>4, <2>1
  <1>6. ASSUME NEW d \in Dests, BeginItem(p, d) \/ SkipItem(p, d)
        PROVE  \E w : OK(w)
    <2> DEFINE a == [v EXCEPT !.todo = @ \ {d}, !.cur = d, !.step = "copy"]
               b == [v EXCEPT !.todo = @ \ {d}]
    <2>1. a \in Worker /\ b \in Worker
      BY <1>0 DEF Worker
    <2>2. d \in v.todo /\ v.phase = "Running"
      BY <1>6 DEF BeginItem, SkipItem
    <2>3. /\ HeldBy(a) \subseteq Held(p) /\ HeldBy(b) \subseteq Held(p)
          /\ a.cur \notin a.todo /\ b.cur \notin b.todo
          /\ a.phase = v.phase /\ b.phase = v.phase
      BY <1>0, <2>2 DEF HeldBy, Held, LivePhase, Worker
    <2>4. pods' = [pods EXCEPT ![p] = a] \/ pods' = [pods EXCEPT ![p] = b]
      BY <1>6 DEF BeginItem, SkipItem
    <2>5. QED
      BY <2>1, <2>3, <2>4
  <1>7. CASE CopyItem(p)
    <2>1. PICK e \in Errors \cup {NoError} :
                 pods' = [pods EXCEPT ![p] = [v EXCEPT !.step = "report", !.err = e]]
      BY <1>7 DEF CopyItem
    <2> DEFINE w == [v EXCEPT !.step = "report", !.err = e]
    <2>2. w \in Worker
      BY <1>0 DEF Worker
    <2>3. HeldBy(w) \subseteq Held(p) /\ w.phase = v.phase /\ w.cur \notin w.todo
      BY <1>0, <1>7 DEF CopyItem, HeldBy, Held, LivePhase, Worker
    <2>4. QED
      BY <2>1, <2>2, <2>3
  <1>8. /\ NextItem(v) \in Worker
        /\ HeldBy(NextItem(v)) \subseteq Held(p)
        /\ NextItem(v).phase = v.phase
        /\ NextItem(v).cur \notin NextItem(v).todo
    <2>1. NextItem(v) \in Worker
      BY <1>0, WorkerType
    <2>2. QED
      BY <1>0, <2>1, DispatchAssumption
         DEF NextItem, HeldBy, Held, Worker, LivePhase, DispatchAssumption
  <1>9. CASE AckReport(p)
    <2> DEFINE w == Acknowledged(v)
    <2>1. v.cur \in Dests
      BY <1>9 DEF AckReport, ItemOK
    <2>2. /\ w \in Worker
          /\ w.phase = v.phase /\ w.todo = v.todo /\ w.cur = NoDest /\ w.step = "next"
      BY <1>0, <2>1 DEF Acknowledged, NextItem, Worker
    <2>3. HeldBy(w) \subseteq Held(p) /\ w.cur \notin w.todo
      BY <1>0, <2>2, DispatchAssumption DEF HeldBy, Held, LivePhase, Worker, DispatchAssumption
    <2>4. QED
      BY <1>9, <2>2, <2>3 DEF AckReport
  <1>10. CASE LoseAck(p)
    <2>1. StatusAttempts = 1
      BY <1>10 DEF LoseAck, Event, NoRepeats
    <2>2. ~(v.tries + 1 < StatusAttempts)
      BY <1>0, <2>1 DEF Worker
    <2>3. SendFailed(v) = NextItem(v)
      BY <2>2 DEF SendFailed
    <2>4. QED
      BY <1>8, <1>10, <2>3 DEF LoseAck
  <1>11. CASE LoseReport(p)
    <2> DEFINE w == [v EXCEPT !.step = "report", !.tries = @ + 1]
    <2>0. v.tries + 1 \in Nat
      BY <1>0 DEF Worker
    <2>1. w \in Worker
      BY <1>0, <2>0 DEF Worker
    <2>2. HeldBy(w) \subseteq Held(p) /\ w.phase = v.phase /\ w.cur \notin w.todo
      BY <1>0, <1>11 DEF LoseReport, HeldBy, Held, LivePhase, Worker
    <2>3. pods' = [pods EXCEPT ![p] = w] \/ pods' = [pods EXCEPT ![p] = NextItem(v)]
      <3>1. pods' = [pods EXCEPT ![p] = SendFailed(v)]
        BY <1>11 DEF LoseReport
      <3>2. SendFailed(v) = w \/ SendFailed(v) = NextItem(v)
        BY DEF SendFailed
      <3> HIDE DEF w
      <3>3. QED
        BY <3>1, <3>2
    <2>4. QED
      BY <1>8, <2>1, <2>2, <2>3
  <1>12. QED
    BY <1>2, <1>3, <1>5, <1>6, <1>7, <1>9, <1>10, <1>11 DEF WorkerStep, WorkerFault

\* A report takes the item it is about off what the worker holds.
LEMMA DeliverFacts ==
    ASSUME DispatchInv, NEW p \in Pods, DeliverReport(p)
    PROVE  \E r \in Report, w \in Worker :
             /\ r.pod = p /\ r.dest \in Held(p) /\ Live(p)
             /\ pods' = [pods EXCEPT ![p] = w]
             /\ HeldBy(w) = Held(p) \ {r.dest}
             /\ w.phase = pods[p].phase /\ w.cur \notin w.todo
             /\ UNCHANGED <<inProgress, rpc, snapshot, finished, doomed, pending, up, budget>>
             /\ \/ /\ queued = <<>> /\ statusQueue' = <<>>
                   /\ queued' = Append(statusQueue, r)
                \/ statusQueue' = Append(statusQueue, r) /\ UNCHANGED queued
  <1> USE DEF specVars, podVars, memVars, tickVars, queueVars, workerFrame
  <1> DEFINE v == pods[p]
             w == [v EXCEPT !.step = "acking"]
             r == [pod |-> p, dest |-> v.cur, err |-> v.err]
  <1>0. v \in Worker /\ v.cur \notin v.todo /\ v.cur \in Dests /\ LockOK
    BY DEF DispatchInv, AckInv, TypeInv, TypeOK, PodsTypeOK, ItemFresh, ItemOK, DeliverReport
  <1>1. r \in Report /\ w \in Worker
    BY <1>0 DEF Report, Worker
  <1>2. v.phase = "Running" /\ v.step = "report"
    BY DEF DeliverReport
  <1>3. r.dest \in Held(p) /\ Live(p) /\ HeldBy(w) = Held(p) \ {r.dest}
    BY <1>0, <1>2 DEF Held, HeldBy, Live, LivePhase, Worker
  <1>4. w.phase = v.phase /\ w.cur \notin w.todo
    BY <1>0 DEF Worker
  <1>5. /\ pods' = [pods EXCEPT ![p] = w]
        /\ UNCHANGED <<inProgress, rpc, snapshot, finished, doomed, pending, up, budget>>
    BY DEF DeliverReport
  <1>6. \/ /\ queued = <<>> /\ statusQueue' = <<>>
           /\ queued' = Append(statusQueue, r)
        \/ statusQueue' = Append(statusQueue, r) /\ UNCHANGED queued
    BY <1>0 DEF DeliverReport, LockOK
  <1>7. r.pod = p
    OBVIOUS
  <1> HIDE DEF r, w
  <1>8. QED
    BY <1>1, <1>3, <1>4, <1>5, <1>6, <1>7

\* Without crashes a step is one of these.
LEMMA StepKinds ==
    ASSUME NoRepeats, DispatchInv, [Next]_vars
    PROVE  \/ UNCHANGED <<pods, dispatchVars>> /\ budget' \in {budget, budget - 1}
           \/ \E p \in Pods : WorkerFault(p) \/ (WorkerStep(p) /\ ~DeliverReport(p))
           \/ \E p \in Pods : DeliverReport(p)
           \/ ApplyStatus
           \/ ReconcileStepDone
  <1> USE DEF specVars, podVars, memVars, tickVars, queueVars
  <1>1. CASE OutsideStep \/ UNCHANGED vars
    BY <1>1 DEF OutsideStep, EditSpec, Annotate, PollElapses, Event, vars, dispatchVars
  <1>2. ASSUME NEW d \in Dests, CleanupOrphan(d) \/ BackoffElapses(d)
        PROVE  UNCHANGED <<pods, dispatchVars>> /\ budget' = budget
    BY <1>2 DEF CleanupOrphan, BackoffElapses, dispatchVars
  <1>3. ~Crash /\ ~RestartStep
    BY DEF NoRepeats, Crash, Event, RestartStep, Restart, DispatchInv, AckInv, ProcessOK
  <1>4. QED
    BY <1>1, <1>2, <1>3 DEF Next

\* The steps of the reconcile loop that leave pods and m.inProgress alone.
Bookkeeping ==
    \/ CleanupSnapshot \/ CleanupList \/ CleanupListFails \/ CleanupLock
    \/ ReconcileLock \/ ReconcileReadFails
    \/ \E found \in {persisted, NothingLoaded} : ReconcileLoad(found)
    \/ ClearResync \/ ResolveDone \/ ResolveFails \/ ProcessEntries
    \/ \E B \in SUBSET Dests : StartBatchFails(B)
    \/ EndDispatch
    \/ \E saved, recorded \in BOOLEAN : Flush(saved, recorded)

\* None of them is taken while doomed pods wait for their deletion.
LEMMA BookkeepingFrame ==
    ASSUME Bookkeeping
    PROVE  /\ UNCHANGED <<pods, inProgress, up>> /\ budget' \in {budget, budget - 1}
           /\ rpc \in {"idle", "listing", "applying", "starting", "loading", "clearing",
                       "resolving", "processing", "dispatching", "flushing"}
  <1> USE DEF specVars, podVars, memVars, tickVars, queueVars, tickFrame, Event
  <1>1. CASE CleanupSnapshot \/ CleanupList \/ CleanupListFails \/ CleanupLock
             \/ ReconcileLock \/ ReconcileReadFails
    BY <1>1 DEF CleanupSnapshot, CleanupList, CleanupListFails, CleanupLock,
       ReconcileLock, ReconcileReadFails
  <1>2. ASSUME NEW found, ReconcileLoad(found)
        PROVE  UNCHANGED <<pods, inProgress, up>> /\ budget' \in {budget, budget - 1}
               /\ rpc = "loading"
    BY <1>2 DEF ReconcileLoad
  <1>3. CASE ClearResync \/ ResolveDone \/ ResolveFails \/ ProcessEntries
    BY <1>3 DEF ClearResync, ResolveDone, ResolveFails, ProcessEntries
  <1>4. CASE (\E B \in SUBSET Dests : StartBatchFails(B)) \/ EndDispatch
    BY <1>4 DEF StartBatchFails, EndDispatch
  <1>5. CASE \E saved, recorded \in BOOLEAN : Flush(saved, recorded)
    BY <1>5 DEF Flush
  <1>6. QED
    BY <1>1, <1>2, <1>3, <1>4, <1>5 DEF Bookkeeping

\* The other steps of the loop are the end of the cleanup and the dispatch.
LEMMA ReconcileKinds ==
    ReconcileStepDone => \/ Bookkeeping \/ CleanupApply
                         \/ \E kept \in SUBSET doomed : CleanupDelete(kept)
                         \/ \E B \in SUBSET Dests, p \in Pods : StartBatch(B, p)
  BY DEF ReconcileStepDone, Bookkeeping

\* Only the creation of a pod gives a worker something to hold.
WorkerLess(p) ==
    /\ HeldBy(pods'[p]) \subseteq HeldBy(pods[p])
    /\ pods'[p].phase \in LivePhase => pods[p].phase \in LivePhase
    /\ pods'[p].cur \notin pods'[p].todo

LEMMA HeldStep ==
    ASSUME NoRepeats, DispatchInv, [Next]_vars
    PROVE  \/ \A p \in Pods : WorkerLess(p)
           \/ \E B \in SUBSET Dests, p \in Pods : StartBatch(B, p)
  <1>0. PodsTypeOK /\ ItemFresh /\ ItemOK
    BY DEF DispatchInv, AckInv, TypeInv, TypeOK
  <1>1. CASE UNCHANGED pods
    BY <1>0, <1>1 DEF WorkerLess, ItemFresh
  <1>2. ASSUME NEW p \in Pods, NEW w \in Worker, pods' = [pods EXCEPT ![p] = w],
               HeldBy(w) \subseteq Held(p), w.cur \notin w.todo,
               w.phase \in LivePhase => pods[p].phase \in LivePhase,
               NEW q \in Pods
        PROVE  WorkerLess(q)
    <2>1. CASE q = p
      <3>1. pods'[q] = w
        BY <1>0, <1>2, <2>1 DEF PodsTypeOK
      <3>2. QED
        BY <1>2, <2>1, <3>1 DEF WorkerLess, Held
    <2>2. CASE q # p
      <3>1. pods'[q] = pods[q]
        BY <1>0, <1>2, <2>2 DEF PodsTypeOK
      <3>2. QED
        BY <1>0, <3>1 DEF WorkerLess, ItemFresh
    <2>3. QED
      BY <2>1, <2>2
  <1>3. ASSUME NEW p \in Pods, WorkerFault(p) \/ (WorkerStep(p) /\ ~DeliverReport(p)),
               NEW q \in Pods
        PROVE  WorkerLess(q)
    <2>1. \E w \in Worker : /\ pods' = [pods EXCEPT ![p] = w] /\ HeldBy(w) \subseteq Held(p)
                            /\ w.cur \notin w.todo
                            /\ w.phase \in LivePhase => pods[p].phase \in LivePhase
      BY <1>0, <1>3, WorkerShrinks
    <2>2. QED
      BY <1>2, <2>1
  <1>4. ASSUME NEW p \in Pods, DeliverReport(p), NEW q \in Pods
        PROVE  WorkerLess(q)
    <2>1. \E w \in Worker : /\ pods' = [pods EXCEPT ![p] = w] /\ HeldBy(w) \subseteq Held(p)
                            /\ w.cur \notin w.todo /\ w.phase = pods[p].phase
      BY <1>4, DeliverFacts
    <2>2. QED
      BY <1>2, <2>1
  <1>5. CASE ApplyStatus \/ CleanupApply
    BY <1>1, <1>5 DEF ApplyStatus, CleanupApply, podVars
  <1>6. ASSUME NEW kept \in SUBSET doomed, CleanupDelete(kept), NEW q \in Pods
        PROVE  WorkerLess(q)
    <2>1. pods'[q] = NoWorker \/ pods'[q] = pods[q]
      BY <1>6 DEF CleanupDelete
    <2>2. HeldBy(NoWorker) = {} /\ NoWorker.phase \notin LivePhase
          /\ NoWorker.cur \notin NoWorker.todo
      BY DEF HeldBy, NoWorker, LivePhase
    <2>3. QED
      BY <1>0, <2>1, <2>2 DEF WorkerLess, LivePhase, ItemFresh
  <1>7. CASE ReconcileStepDone
    BY <1>1, <1>5, <1>6, <1>7, BookkeepingFrame, ReconcileKinds
  <1>8. QED
    BY <1>1, <1>3, <1>4, <1>5, <1>7, StepKinds

\* What a new pod holds is its batch.
LEMMA StartBatchFacts ==
    ASSUME DispatchInv, NEW B \in SUBSET Dests, NEW p \in Pods, StartBatch(B, p)
    PROVE  /\ rpc = "dispatching" /\ B \subseteq pending /\ B # {}
           /\ \A d \in B : inProgress[d] = NoPod /\ inProgress'[d] = p
           /\ \A d \in Dests \ B : inProgress'[d] = inProgress[d]
           /\ Held(p)' = B /\ (pods[p].cur \notin pods[p].todo)'
           /\ pods'[p].phase = "Pending"
           /\ \A q \in Pods \ {p} : pods'[q] = pods[q]
           /\ UNCHANGED <<statusQueue, queued, rpc, snapshot, finished, doomed, up, budget>>
           /\ pending' = pending \ B
           /\ Cardinality(ActivePods) < Concurrency
  <1> USE DEF specVars, podVars, memVars, tickVars, queueVars, tickFrame
  <1>0. PodsTypeOK /\ PendingOK
    BY DEF DispatchInv, AckInv, TypeInv, TypeOK
  <1>1. rpc = "dispatching" /\ B \subseteq pending /\ B # {} /\ pending' = pending \ B
        /\ Cardinality(ActivePods) < Concurrency
    BY DEF StartBatch, Batches
  <1>2. pods' = [pods EXCEPT ![p] = NewWorker(B)]
        /\ UNCHANGED <<statusQueue, queued, rpc, snapshot, finished, doomed, up, budget>>
    BY DEF StartBatch
  <1>3. pods'[p] = NewWorker(B) /\ \A q \in Pods \ {p} : pods'[q] = pods[q]
    BY <1>0, <1>2 DEF PodsTypeOK
  <1>4. NewWorker(B).phase = "Pending" /\ NewWorker(B).todo = B
        /\ NewWorker(B).step = "next" /\ NewWorker(B).cur = NoDest
    BY DEF NewWorker, NoWorker
  <1>5. Held(p)' = B /\ (pods[p].cur \notin pods[p].todo)'
    BY <1>3, <1>4, DispatchAssumption DEF Held, HeldBy, LivePhase, DispatchAssumption
  <1>6. \A d \in Dests : inProgress'[d] = IF d \in B THEN p ELSE inProgress[d]
    BY DEF StartBatch
  <1>7. \A d \in B : inProgress[d] = NoPod
    BY <1>0, <1>1 DEF PendingOK
  <1>8. QED
    BY <1>1, <1>2, <1>3, <1>4, <1>5, <1>6, <1>7

\* A worker never returns to an item it is past.
LEMMA FreshStep ==
    ASSUME NoRepeats, DispatchInv, [Next]_vars
    PROVE  ItemFresh'
  <1>1. ASSUME NEW B \in SUBSET Dests, NEW p \in Pods, StartBatch(B, p)
        PROVE  ItemFresh'
    <2>1. ItemFresh
      BY DEF DispatchInv
    <2>2. /\ (pods[p].cur \notin pods[p].todo)'
          /\ \A q \in Pods \ {p} : pods'[q] = pods[q]
      BY <1>1, StartBatchFacts
    <2>3. QED
      BY <2>1, <2>2 DEF ItemFresh
  <1>2. QED
    BY <1>1, HeldStep DEF ItemFresh, WorkerLess

\* Every stuck pod has cost an event.
LEMMA StuckStep ==
    ASSUME NoRepeats, DispatchInv, [Next]_vars
    PROVE  StuckOK'
  <1>0. /\ PodsTypeOK /\ StuckOK /\ JudgedOK /\ ItemFresh /\ ItemOK
        /\ budget \in Nat /\ budget <= MaxEvents
    BY DEF DispatchInv, AckInv, TypeInv, TypeOK, OutsideTypeOK, StuckOK
  <1>1. ASSUME budget' \in {budget, budget - 1},
               \A p \in Pods : WasStuck(p)' =>
                   \/ WasStuck(p)
                   \/ "podStuck" \in Events /\ budget' = budget - 1
        PROVE  StuckOK'
    <2>1. budget' <= MaxEvents
      BY <1>0, <1>1, DispatchAssumption DEF DispatchAssumption
    <2>2. ASSUME NEW p \in Pods, WasStuck(p)'
          PROVE  "podStuck" \in Events /\ budget' < MaxEvents
      <3>1. CASE WasStuck(p)
        BY <1>0, <1>1, <3>1, DispatchAssumption DEF StuckOK, DispatchAssumption
      <3>2. CASE "podStuck" \in Events /\ budget' = budget - 1
        BY <1>0, <3>2, DispatchAssumption DEF DispatchAssumption
      <3>3. QED
        BY <1>1, <2>2, <3>1, <3>2
    <2>3. QED
      BY <2>1, <2>2 DEF StuckOK
  <1>2. CASE UNCHANGED <<pods, doomed>> /\ budget' \in {budget, budget - 1}
    BY <1>1, <1>2 DEF WasStuck, Live
  <1>3. ASSUME NEW p \in Pods, WorkerFault(p) \/ (WorkerStep(p) /\ ~DeliverReport(p))
        PROVE  StuckOK'
    <2>1. UNCHANGED doomed /\ budget' \in {budget, budget - 1}
      BY <1>0, <1>3, WorkerShrinks DEF dispatchVars
    <2>2. PICK w \in Worker :
             /\ pods' = [pods EXCEPT ![p] = w]
             /\ w.phase \in LivePhase => pods[p].phase \in LivePhase
             /\ w.phase = "Stuck" /\ pods[p].phase # "Stuck"
                   => "podStuck" \in Events /\ budget' = budget - 1
      BY <1>0, <1>3, WorkerShrinks
    <2>3. pods'[p] = w /\ \A q \in Pods \ {p} : pods'[q] = pods[q]
      BY <1>0, <2>2 DEF PodsTypeOK
    <2>4. ASSUME NEW q \in Pods, WasStuck(q)'
          PROVE  WasStuck(q) \/ ("podStuck" \in Events /\ budget' = budget - 1)
      BY <2>1, <2>2, <2>3, <2>4 DEF WasStuck, Live, LivePhase
    <2>5. QED
      BY <1>1, <2>1, <2>4
  <1>4. ASSUME NEW p \in Pods, DeliverReport(p)
        PROVE  StuckOK'
    <2>1. PICK w \in Worker : /\ pods' = [pods EXCEPT ![p] = w] /\ w.phase = pods[p].phase
                              /\ UNCHANGED <<doomed, budget>>
      BY <1>4, DeliverFacts
    <2>2. \A q \in Pods : pods'[q].phase = pods[q].phase
      BY <1>0, <2>1 DEF PodsTypeOK
    <2>3. QED
      BY <1>1, <2>1, <2>2 DEF WasStuck, Live
  <1>5. CASE ApplyStatus \/ CleanupApply
    BY <1>2, <1>5 DEF ApplyStatus, CleanupApply, podVars, tickVars
  <1>6. CASE Bookkeeping
    <2>1. UNCHANGED pods /\ budget' \in {budget, budget - 1}
      BY <1>6, BookkeepingFrame
    <2>2. CASE CleanupList
      <3>1. \A p \in doomed' : Live(p) => pods[p].phase = "Stuck"
        BY <2>2 DEF CleanupList, Live
      <3>2. QED
        BY <1>1, <2>1, <3>1 DEF WasStuck, Live
    <2>3. CASE ~CleanupList
      <3>1. UNCHANGED doomed
        BY <1>6, <2>3 DEF Bookkeeping, CleanupSnapshot, CleanupListFails, CleanupLock,
           ReconcileLock, ReconcileReadFails, ReconcileLoad, ClearResync, ResolveDone,
           ResolveFails, ProcessEntries, StartBatchFails, EndDispatch, Flush
      <3>2. QED
        BY <1>2, <2>1, <3>1
    <2>4. QED
      BY <2>2, <2>3
  <1>7. ASSUME NEW kept \in SUBSET doomed, CleanupDelete(kept)
        PROVE  StuckOK'
    <2>1. doomed' = {} /\ budget' \in {budget, budget - 1}
      BY <1>7 DEF CleanupDelete, Event
    <2>2. \A p \in Pods : pods'[p].phase = "Stuck" => pods[p].phase = "Stuck"
      BY <1>7 DEF CleanupDelete, NoWorker
    <2>3. QED
      BY <1>1, <2>1, <2>2 DEF WasStuck
  <1>8. ASSUME NEW B \in SUBSET Dests, NEW p \in Pods, StartBatch(B, p)
        PROVE  StuckOK'
    <2>1. /\ rpc = "dispatching" /\ UNCHANGED <<doomed, budget>>
          /\ pods'[p].phase = "Pending" /\ \A q \in Pods \ {p} : pods'[q] = pods[q]
      BY <1>8, StartBatchFacts
    <2>2. doomed' = {}
      BY <1>0, <2>1 DEF JudgedOK
    <2>3. QED
      BY <1>1, <2>1, <2>2 DEF WasStuck
  <1>9. QED
    BY <1>2, <1>3, <1>4, <1>5, <1>6, <1>7, <1>8, StepKinds, ReconcileKinds DEF dispatchVars

\* The verdicts of cleanupFinishedWorkers stay true until they are applied: a
\* pod that has ended does not come back.
LEMMA JudgedStep ==
    ASSUME NoRepeats, DispatchInv, [Next]_vars
    PROVE  JudgedOK'
  <1>0. PodsTypeOK /\ JudgedOK /\ TickTypeOK /\ ItemFresh /\ ItemOK
    BY DEF DispatchInv, AckInv, TypeInv, TypeOK
  <1>1. CASE (\A p \in Pods : Live(p)' => Live(p)) /\ UNCHANGED <<rpc, doomed, finished, snapshot>>
    BY <1>0, <1>1 DEF JudgedOK
  <1>2. CASE rpc' \notin {"applying", "resetting", "deleting"} /\ doomed' = {}
    BY <1>2 DEF JudgedOK
  <1>3. CASE CleanupList
    <2>1. rpc' \in {"applying", "deleting"} /\ UNCHANGED <<pods, snapshot>>
      BY <1>3 DEF CleanupList
    <2>2. ASSUME NEW d \in Dests, finished'[d] # "none"
          PROVE  snapshot[d] \in Pods /\ (Live(snapshot[d]) => snapshot[d] \in doomed')
      <3>1. snapshot[d] \in Pods \cup {NoPod}
        BY <1>0 DEF TickTypeOK
      <3>2. JudgePod(snapshot[d]) # "none"
        BY <1>3, <2>2 DEF CleanupList
      <3>3. snapshot[d] # NoPod /\ pods[snapshot[d]].phase \notin {"Pending", "Running"}
        BY <3>2 DEF JudgePod
      <3>4. Live(snapshot[d]) => pods[snapshot[d]].phase = "Stuck"
        BY <3>3 DEF Live
      <3>5. QED
        BY <1>3, <3>1, <3>3, <3>4 DEF CleanupList
    <2>3. QED
      BY <2>1, <2>2 DEF JudgedOK, Live
  <1>4. CASE CleanupLock
    BY <1>0, <1>4 DEF CleanupLock, JudgedOK, Live
  <1>5. CASE CleanupApply
    BY <1>0, <1>5 DEF CleanupApply, JudgedOK
  <1>6. ASSUME NEW kept \in SUBSET doomed, CleanupDelete(kept)
        PROVE  JudgedOK'
    BY <1>2, <1>6 DEF CleanupDelete
  <1>7. ASSUME Bookkeeping, ~CleanupList, ~CleanupLock
        PROVE  rpc' \notin {"applying", "resetting", "deleting"} /\ doomed' = {}
    <2> USE DEF tickVars
    <2>1. rpc \notin {"applying", "resetting", "deleting"} /\ UNCHANGED doomed
      BY <1>7 DEF Bookkeeping, CleanupSnapshot, CleanupListFails, ReconcileLock,
         ReconcileReadFails, ReconcileLoad, ClearResync, ResolveDone,
         ResolveFails, ProcessEntries, StartBatchFails, EndDispatch, Flush
    <2>2. rpc' \notin {"applying", "resetting", "deleting"}
      BY <1>7, <2>1 DEF Bookkeeping, CleanupSnapshot, CleanupListFails, ReconcileLock,
         ReconcileReadFails, ReconcileLoad, ClearResync, ResolveDone, GoOn,
         ResolveFails, ProcessEntries, StartBatchFails, EndDispatch, Flush
    <2>3. QED
      BY <1>0, <2>1, <2>2 DEF JudgedOK
  <1>8. ASSUME NEW B \in SUBSET Dests, NEW p \in Pods, StartBatch(B, p)
        PROVE  JudgedOK'
    <2>1. rpc = "dispatching" /\ UNCHANGED <<rpc, doomed>>
      BY <1>8, StartBatchFacts
    <2>2. QED
      BY <1>0, <1>2, <2>1 DEF JudgedOK
  <1>9. CASE ReconcileStepDone
    BY <1>2, <1>3, <1>4, <1>5, <1>6, <1>7, <1>8, <1>9, ReconcileKinds
  <1>10. ASSUME ~\E B \in SUBSET Dests, p \in Pods : StartBatch(B, p)
         PROVE  \A p \in Pods : Live(p)' => Live(p)
    BY <1>10, HeldStep DEF WorkerLess, Live, LivePhase
  <1>11. ASSUME NEW p \in Pods, WorkerFault(p) \/ (WorkerStep(p) /\ ~DeliverReport(p))
         PROVE  UNCHANGED <<rpc, doomed, finished, snapshot>>
    BY <1>0, <1>11, WorkerShrinks DEF dispatchVars
  <1>12. ASSUME NEW p \in Pods, DeliverReport(p)
         PROVE  UNCHANGED <<rpc, doomed, finished, snapshot>>
    BY <1>12, DeliverFacts
  <1>13. ApplyStatus => UNCHANGED <<rpc, doomed, finished, snapshot>>
    BY DEF ApplyStatus, tickVars
  <1>14. QED
    BY <1>1, <1>8, <1>9, <1>10, <1>11, <1>12, <1>13, StepKinds DEF dispatchVars

\* Nothing that waits for its dispatch is in progress.
LEMMA PendingStep ==
    ASSUME NoRepeats, DispatchInv, [Next]_vars
    PROVE  PendingOK'
  <1> USE DEF specVars, podVars, memVars, tickVars, queueVars, tickFrame
  <1>0. PodsTypeOK /\ ItemFresh /\ ItemOK /\ PendingOK /\ MemTypeOK /\ QueueTypeOK /\ TickTypeOK
    BY DEF DispatchInv, AckInv, TypeInv, TypeOK
  <1>1. CASE rpc' # "dispatching"
    BY <1>1 DEF PendingOK
  <1>2. CASE UNCHANGED <<inProgress, rpc>> /\ pending' \subseteq pending
    BY <1>0, <1>2 DEF PendingOK
  <1>3. CASE ProcessEntries
    BY <1>3 DEF ProcessEntries, PendingOK
  <1>4. ASSUME NEW B \in SUBSET Dests, NEW p \in Pods, StartBatch(B, p)
        PROVE  PendingOK'
    <2>1. /\ rpc = "dispatching" /\ pending' = pending \ B
          /\ \A d \in Dests \ B : inProgress'[d] = inProgress[d]
      BY <1>4, StartBatchFacts
    <2>2. QED
      BY <1>0, <2>1 DEF PendingOK, TickTypeOK
  <1>5. CASE ApplyStatus
    <2>1. \A d \in Dests : inProgress'[d] \in {inProgress[d], NoPod}
      BY <1>0, <1>5 DEF ApplyStatus, MemTypeOK
    <2>2. UNCHANGED <<rpc, pending>>
      BY <1>5 DEF ApplyStatus
    <2>3. QED
      BY <1>0, <2>1, <2>2 DEF PendingOK, TickTypeOK
  <1>6. CASE Bookkeeping /\ ~ProcessEntries
    <2>1. UNCHANGED inProgress
      BY <1>6, BookkeepingFrame
    <2>2. rpc' # "dispatching" \/ (UNCHANGED rpc /\ pending' \subseteq pending)
      BY <1>6 DEF Bookkeeping, CleanupSnapshot, CleanupList, CleanupListFails, CleanupLock,
         ReconcileLock, ReconcileReadFails, ReconcileLoad, ClearResync, ResolveDone, GoOn,
         ResolveFails, StartBatchFails, EndDispatch, Flush
    <2>3. QED
      BY <1>1, <1>2, <2>1, <2>2
  <1>7. CASE CleanupApply \/ \E kept \in SUBSET doomed : CleanupDelete(kept)
    BY <1>1, <1>7 DEF CleanupApply, CleanupDelete
  <1>8. ASSUME NEW p \in Pods, WorkerFault(p) \/ (WorkerStep(p) /\ ~DeliverReport(p))
        PROVE  PendingOK'
    BY <1>0, <1>2, <1>8, WorkerShrinks DEF dispatchVars
  <1>9. ASSUME NEW p \in Pods, DeliverReport(p)
        PROVE  PendingOK'
    BY <1>2, <1>9, DeliverFacts
  <1>10. QED
    BY <1>2, <1>3, <1>4, <1>5, <1>6, <1>7, <1>8, <1>9, StepKinds, ReconcileKinds
       DEF dispatchVars

\* What a pod may lose while its deletion is outstanding, it loses before the
\* loop goes on.
LEMMA TrackStep ==
    ASSUME NoRepeats, DispatchInv, [Next]_vars
    PROVE  TrackOK'
  <1> USE DEF specVars, podVars, memVars, tickVars, queueVars, tickFrame
  <1>0. /\ PodsTypeOK /\ ItemFresh /\ ItemOK /\ TrackOK /\ MemTypeOK /\ QueueTypeOK
        /\ TickTypeOK /\ JudgedOK /\ StuckOK /\ QueueOK
    BY DEF DispatchInv, AckInv, TypeInv, TypeOK
  <1>1. \A p \in Pods : \A d \in HeldBy(pods[p]) :
           d \in Dests /\ (inProgress[d] = p \/ GivenUp(p, d))
    <2>1. \A p \in Pods : HeldBy(pods[p]) \subseteq Dests
      BY <1>0 DEF HeldBy, PodsTypeOK, Worker, ItemOK
    <2>2. QED
      BY <1>0, <2>1 DEF TrackOK, Held
  <1>2. ASSUME ~\E B \in SUBSET Dests, p \in Pods : StartBatch(B, p)
        PROVE  \A p \in Pods : HeldBy(pods'[p]) \subseteq HeldBy(pods[p])
    BY <1>2, HeldStep DEF WorkerLess
  <1>3. ASSUME \A p \in Pods : HeldBy(pods'[p]) \subseteq HeldBy(pods[p]),
               UNCHANGED <<inProgress, rpc, doomed, snapshot>>
        PROVE  TrackOK'
    BY <1>1, <1>3 DEF TrackOK, Held, GivenUp
  <1>4. CASE ApplyStatus
    <2> DEFINE r == Head(queued)
    <2>1. r \in Report /\ queued # <<>> /\ \A p \in Pods : r.dest \notin HeldBy(pods[p])
      BY <1>0, <1>4 DEF ApplyStatus, QueueTypeOK, QueueOK, ReportOK, Held
    <2>2. UNCHANGED <<pods, rpc, doomed, snapshot>>
          /\ \A d \in Dests : d # r.dest => inProgress'[d] = inProgress[d]
      BY <1>0, <1>4, <2>1 DEF ApplyStatus, MemTypeOK, Report
    <2>3. QED
      BY <1>1, <2>1, <2>2 DEF TrackOK, Held, GivenUp
  <1>5. CASE CleanupApply
    <2>1. UNCHANGED <<pods, doomed, snapshot>> /\ rpc = "resetting" /\ rpc' = "deleting"
          /\ \A d \in Dests : inProgress'[d] = IF StillThere(d) THEN NoPod ELSE inProgress[d]
      BY <1>5 DEF CleanupApply
    <2>2. ASSUME NEW p \in Pods, NEW d \in HeldBy(pods[p])
          PROVE  inProgress'[d] = p \/ GivenUp(p, d)'
      <3>1. d \in Dests /\ inProgress[d] = p
        BY <1>1, <2>1, <2>2 DEF GivenUp
      <3>2. CASE ~StillThere(d)
        BY <2>1, <3>1, <3>2
      <3>3. CASE StillThere(d)
        <4>1. finished[d] # "none" /\ snapshot[d] = p
          BY <3>1, <3>3 DEF StillThere
        <4>2. Live(p)
          BY <2>2 DEF HeldBy, Live, LivePhase
        <4>3. p \in doomed
          BY <1>0, <2>1, <3>1, <4>1, <4>2 DEF JudgedOK
        <4>4. QED
          BY <2>1, <3>1, <3>3, <4>1, <4>3 DEF GivenUp
      <3>4. QED
        BY <3>2, <3>3
    <2>3. QED
      BY <2>1, <2>2 DEF TrackOK, Held
  <1>6. ASSUME NEW kept \in SUBSET doomed, CleanupDelete(kept)
        PROVE  TrackOK'
    <2>1. UNCHANGED inProgress /\ rpc = "deleting"
          /\ \A p \in Pods : pods'[p] = IF p \in doomed \ kept THEN NoWorker ELSE pods[p]
      BY <1>6 DEF CleanupDelete
    <2>2. HeldBy(NoWorker) = {}
      BY DEF HeldBy, NoWorker, LivePhase
    <2>3. ASSUME NEW p \in Pods, NEW d \in HeldBy(pods'[p])
          PROVE  inProgress'[d] = p
      <3>1. p \notin doomed \ kept /\ d \in HeldBy(pods[p])
        BY <2>1, <2>2, <2>3
      <3>2. ASSUME GivenUp(p, d)
            PROVE  FALSE
        <4>1. p \in kept /\ WasStuck(p)
          BY <3>1, <3>2 DEF GivenUp, WasStuck, HeldBy, Live, LivePhase
        <4>2. "deleteFails" \in Events /\ budget > 0
          BY <1>6, <4>1 DEF CleanupDelete, Event
        <4>3. "podStuck" \in Events /\ budget < MaxEvents
          BY <1>0, <4>1 DEF StuckOK
        <4>4. MaxEvents <= 1
          BY <4>2, <4>3 DEF NoRepeats
        <4>5. budget \in Nat
          BY DEF DispatchInv, AckInv, TypeInv, TypeOK, OutsideTypeOK
        <4>6. QED
          BY <4>2, <4>3, <4>4, <4>5, DispatchAssumption DEF DispatchAssumption
      <3>3. QED
        BY <1>1, <2>1, <3>1, <3>2
    <2>4. QED
      BY <2>3 DEF TrackOK, Held
  <1>7. CASE Bookkeeping
    <2>1. UNCHANGED <<pods, inProgress>> /\ rpc # "deleting"
      BY <1>7, BookkeepingFrame
    <2>2. QED
      BY <1>1, <2>1 DEF TrackOK, Held, GivenUp
  <1>8. ASSUME NEW B \in SUBSET Dests, NEW p \in Pods, StartBatch(B, p)
        PROVE  TrackOK'
    <2>1. /\ rpc = "dispatching"
          /\ \A d \in B : inProgress[d] = NoPod /\ inProgress'[d] = p
          /\ \A d \in Dests \ B : inProgress'[d] = inProgress[d]
          /\ \A q \in Pods \ {p} : pods'[q] = pods[q]
      BY <1>8, StartBatchFacts
    <2>2. HeldBy(pods'[p]) = B
      BY <1>8, StartBatchFacts DEF Held
    <2>3. ASSUME NEW q \in Pods, NEW d \in HeldBy(pods'[q])
          PROVE  inProgress'[d] = q
      <3>1. CASE q = p
        BY <2>1, <2>2, <2>3, <3>1
      <3>2. CASE q # p
        <4>1. d \in Dests /\ inProgress[d] = q
          BY <1>1, <2>1, <2>3, <3>2 DEF GivenUp
        <4>2. QED
          BY <2>1, <4>1, DispatchAssumption DEF DispatchAssumption
      <3>3. QED
        BY <3>1, <3>2
    <2>4. QED
      BY <2>3 DEF TrackOK, Held
  <1>9. ASSUME NEW p \in Pods, WorkerFault(p) \/ (WorkerStep(p) /\ ~DeliverReport(p))
        PROVE  UNCHANGED <<inProgress, rpc, doomed, snapshot>>
    BY <1>0, <1>9, WorkerShrinks DEF dispatchVars
  <1>10. ASSUME NEW p \in Pods, DeliverReport(p)
         PROVE  UNCHANGED <<inProgress, rpc, doomed, snapshot>>
    BY <1>10, DeliverFacts
  <1>11. QED
    BY <1>2, <1>3, <1>4, <1>5, <1>6, <1>7, <1>8, <1>9, <1>10, StepKinds, ReconcileKinds
       DEF dispatchVars

\* One report more about another image, or one fewer, leaves a queue with one
\* report per image.
LEMMA DistinctFacts ==
    ASSUME NEW q \in Seq(Report), Distinct(q)
    PROVE  /\ \A r \in Report : (\A i \in DOMAIN q : q[i].dest # r.dest)
                 => Distinct(Append(q, r))
           /\ q # <<>> => /\ Distinct(Tail(q))
                          /\ \A i \in DOMAIN Tail(q) : Tail(q)[i].dest # Head(q).dest
  <1>1. DOMAIN q = 1 .. Len(q) /\ Len(q) \in Nat
    BY LenProperties
  <1>2. ASSUME NEW r \in Report, \A i \in DOMAIN q : q[i].dest # r.dest
        PROVE  Distinct(Append(q, r))
    <2>1. /\ Append(q, r) \in Seq(Report) /\ Len(Append(q, r)) = Len(q) + 1
          /\ \A j \in 1 .. Len(q) : Append(q, r)[j] = q[j]
          /\ Append(q, r)[Len(q) + 1] = r
      BY AppendProperties
    <2>2. DOMAIN Append(q, r) = 1 .. Len(q) + 1
      BY <2>1, LenProperties
    <2>3. \A i \in 1 .. Len(q) + 1 : i \in 1 .. Len(q) \/ i = Len(q) + 1
      BY <1>1
    <2>4. QED
      BY <1>1, <1>2, <2>1, <2>2, <2>3 DEF Distinct
  <1>3. ASSUME q # <<>>
        PROVE  /\ Distinct(Tail(q))
               /\ \A i \in DOMAIN Tail(q) : Tail(q)[i].dest # Head(q).dest
    <2>1. /\ Tail(q) \in Seq(Report) /\ Len(Tail(q)) = Len(q) - 1
          /\ \A j \in 1 .. Len(Tail(q)) : Tail(q)[j] = q[j + 1]
      BY <1>3, HeadTailProperties
    <2>2. DOMAIN Tail(q) = 1 .. Len(q) - 1
      BY <2>1, LenProperties
    <2>3. Len(q) >= 1 /\ Head(q) = q[1]
      BY <1>1, <1>3, EmptySeq
    <2>4. \A i \in DOMAIN Tail(q) : i + 1 \in DOMAIN q /\ i + 1 # 1 /\ Tail(q)[i] = q[i + 1]
      BY <1>1, <2>1, <2>2
    <2>5. \A i, j \in DOMAIN Tail(q) : i # j => i + 1 # j + 1
      BY <2>2
    <2>6. QED
      BY <1>1, <2>3, <2>4, <2>5 DEF Distinct
  <1>4. QED
    BY <1>2, <1>3

\* The waiting reports stay apart from each other and from what the workers
\* still hold.
LEMMA QueueStep ==
    ASSUME NoRepeats, DispatchInv, [Next]_vars
    PROVE  QueueOK'
  <1> USE DEF specVars, podVars, memVars, tickVars, queueVars, tickFrame
  <1>0. /\ PodsTypeOK /\ ItemFresh /\ ItemOK /\ TrackOK /\ MemTypeOK /\ QueueTypeOK
        /\ TickTypeOK /\ QueueOK /\ LockOK
    BY DEF DispatchInv, AckInv, TypeInv, TypeOK
  <1> DEFINE Early == {"deleting", "starting"}
             Late == {"deleting", "starting", "loading"}
             Apart(r) == \A p \in Pods : r.dest \notin HeldBy(pods[p])
  <1>1. /\ \A i \in DOMAIN statusQueue : /\ statusQueue[i] \in Report /\ Apart(statusQueue[i])
              /\ \/ inProgress[statusQueue[i].dest] = statusQueue[i].pod
                 \/ rpc \in Early /\ inProgress[statusQueue[i].dest] = NoPod
        /\ \A i \in DOMAIN queued : /\ queued[i] \in Report /\ Apart(queued[i])
              /\ \/ inProgress[queued[i].dest] = queued[i].pod
                 \/ rpc \in Late /\ inProgress[queued[i].dest] = NoPod
        /\ Distinct(statusQueue) /\ Distinct(queued)
        /\ \A i \in DOMAIN statusQueue, j \in DOMAIN queued :
              statusQueue[i].dest # queued[j].dest
    BY <1>0, ElementOfSeq DEF QueueOK, ReportOK, Held, QueueTypeOK
  <1>2. ASSUME ~\E B \in SUBSET Dests, p \in Pods : StartBatch(B, p)
        PROVE  \A p \in Pods : HeldBy(pods'[p]) \subseteq HeldBy(pods[p])
    BY <1>2, HeldStep DEF WorkerLess
  <1>3. ASSUME \A p \in Pods : HeldBy(pods'[p]) \subseteq HeldBy(pods[p]),
               UNCHANGED <<inProgress, statusQueue, queued>>,
               \/ UNCHANGED rpc
               \/ rpc \notin Late
               \/ rpc = "deleting" /\ rpc' = "starting"
               \/ rpc = "loading" /\ queued = <<>>
        PROVE  QueueOK'
    <2>1. \A i \in DOMAIN statusQueue' :
             /\ \/ inProgress'[statusQueue'[i].dest] = statusQueue'[i].pod
                \/ rpc' \in Early /\ inProgress'[statusQueue'[i].dest] = NoPod
             /\ \A p \in Pods : statusQueue'[i].dest \notin HeldBy(pods'[p])
      BY <1>1, <1>3
    <2>2. \A i \in DOMAIN queued' :
             /\ \/ inProgress'[queued'[i].dest] = queued'[i].pod
                \/ rpc' \in Late /\ inProgress'[queued'[i].dest] = NoPod
             /\ \A p \in Pods : queued'[i].dest \notin HeldBy(pods'[p])
      BY <1>1, <1>3
    <2>3. QED
      BY <1>1, <1>3, <2>1, <2>2 DEF QueueOK, ReportOK, Held
  <1>4. ASSUME UNCHANGED <<pods, inProgress>>, queued = <<>>,
               queued' = statusQueue, statusQueue' = <<>>,
               rpc \notin Early \/ rpc' = "loading"
        PROVE  QueueOK'
    BY <1>1, <1>4 DEF QueueOK, ReportOK, Held, Distinct
  <1>5. CASE Bookkeeping /\ ~CleanupLock /\ ~ReconcileLock /\ ~EndDispatch
    <2>1. UNCHANGED <<pods, inProgress, statusQueue, queued>>
      BY <1>5 DEF Bookkeeping, CleanupSnapshot, CleanupList, CleanupListFails,
         ReconcileReadFails, ReconcileLoad, ClearResync, ResolveDone,
         ResolveFails, ProcessEntries, StartBatchFails, Flush
    <2>2. rpc \notin Late \/ (rpc = "loading" /\ queued = <<>>)
      BY <1>5 DEF Bookkeeping, CleanupSnapshot, CleanupList, CleanupListFails,
         ReconcileReadFails, ReconcileLoad, ClearResync, ResolveDone,
         ResolveFails, ProcessEntries, StartBatchFails, Flush
    <2>3. QED
      BY <1>3, <2>1, <2>2
  <1>6. CASE CleanupLock \/ ReconcileLock \/ EndDispatch
    <2>1. UNCHANGED <<pods, inProgress>> /\ queued = <<>>
          /\ queued' = statusQueue /\ statusQueue' = <<>>
          /\ (rpc \notin Early \/ rpc' = "loading")
      BY <1>0, <1>6 DEF CleanupLock, ReconcileLock, EndDispatch, LockAndDrain, LockOK
    <2>2. QED
      BY <1>4, <2>1
  <1>7. CASE CleanupApply
    <2>1. UNCHANGED <<pods, statusQueue, queued>> /\ queued = <<>> /\ rpc' = "deleting"
          /\ \A d \in Dests : inProgress'[d] \in {inProgress[d], NoPod}
      BY <1>7 DEF CleanupApply
    <2>2. \A i \in DOMAIN statusQueue : statusQueue[i].dest \in Dests
      BY <1>1 DEF Report
    <2>3. \A i \in DOMAIN statusQueue :
             inProgress'[statusQueue[i].dest] \in {statusQueue[i].pod, NoPod}
      BY <1>1, <2>1, <2>2
    <2>4. QED
      BY <1>1, <2>1, <2>3 DEF QueueOK, ReportOK, Held
  <1>8. ASSUME NEW kept \in SUBSET doomed, CleanupDelete(kept)
        PROVE  QueueOK'
    <2>1. UNCHANGED <<inProgress, statusQueue, queued>> /\ rpc = "deleting" /\ rpc' = "starting"
      BY <1>8 DEF CleanupDelete
    <2>2. ~\E B \in SUBSET Dests, p \in Pods : StartBatch(B, p)
      BY <2>1 DEF StartBatch
    <2>3. QED
      BY <1>2, <1>3, <2>1, <2>2
  <1>9. ASSUME NEW B \in SUBSET Dests, NEW p \in Pods, StartBatch(B, p)
        PROVE  QueueOK'
    <2>1. /\ rpc = "dispatching" /\ UNCHANGED <<statusQueue, queued, rpc>>
          /\ \A d \in B : inProgress[d] = NoPod
          /\ \A d \in Dests \ B : inProgress'[d] = inProgress[d]
          /\ \A q \in Pods \ {p} : pods'[q] = pods[q]
      BY <1>9, StartBatchFacts
    <2>2. HeldBy(pods'[p]) = B
      BY <1>9, StartBatchFacts DEF Held
    <2>3. ASSUME NEW r \in Report, Apart(r), inProgress[r.dest] = r.pod
          PROVE  /\ inProgress'[r.dest] = r.pod
                 /\ \A q \in Pods : r.dest \notin HeldBy(pods'[q])
      <3>1. r.dest \in Dests \ B
        BY <2>1, <2>3, DispatchAssumption DEF Report, DispatchAssumption
      <3>2. QED
        BY <2>1, <2>2, <2>3, <3>1
    <2>4. /\ \A i \in DOMAIN statusQueue :
                inProgress[statusQueue[i].dest] = statusQueue[i].pod
          /\ \A i \in DOMAIN queued : inProgress[queued[i].dest] = queued[i].pod
      BY <1>1, <2>1
    <2>5. QED
      BY <1>1, <2>1, <2>3, <2>4 DEF QueueOK, ReportOK, Held
  <1>10. CASE ApplyStatus
    <2> DEFINE h == Head(queued)
    <2>1. queued # <<>> /\ queued' = Tail(queued) /\ UNCHANGED <<pods, statusQueue, rpc>>
      BY <1>10 DEF ApplyStatus
    <2>2. /\ \E i \in DOMAIN queued : queued[i] = h
          /\ \A i \in DOMAIN Tail(queued) : \E j \in DOMAIN queued : queued[j] = Tail(queued)[i]
      BY <1>0, <2>1, QueueShrinks DEF QueueTypeOK
    <2>3. Distinct(Tail(queued)) /\ \A i \in DOMAIN Tail(queued) : Tail(queued)[i].dest # h.dest
      BY <1>0, <1>1, <2>1, DistinctFacts DEF QueueTypeOK
    <2>4. \A d \in Dests : d # h.dest => inProgress'[d] = inProgress[d]
      BY <1>0, <1>10 DEF ApplyStatus, MemTypeOK
    <2> HIDE DEF h
    <2>5. \A i \in DOMAIN statusQueue :
             inProgress'[statusQueue[i].dest] = inProgress[statusQueue[i].dest]
      BY <1>1, <2>2, <2>4 DEF Report
    <2>6. \A i \in DOMAIN Tail(queued) :
             /\ inProgress'[Tail(queued)[i].dest] = inProgress[Tail(queued)[i].dest]
             /\ Apart(Tail(queued)[i])
             /\ \/ inProgress[Tail(queued)[i].dest] = Tail(queued)[i].pod
                \/ rpc \in Late /\ inProgress[Tail(queued)[i].dest] = NoPod
             /\ \A j \in DOMAIN statusQueue : statusQueue[j].dest # Tail(queued)[i].dest
      BY <1>1, <2>2, <2>3, <2>4 DEF Report
    <2>7. QED
      BY <1>1, <2>1, <2>3, <2>5, <2>6 DEF QueueOK, ReportOK, Held
  <1>11. ASSUME NEW p \in Pods, WorkerFault(p) \/ (WorkerStep(p) /\ ~DeliverReport(p))
         PROVE  UNCHANGED <<inProgress, statusQueue, queued, rpc>>
    BY <1>0, <1>11, WorkerShrinks DEF dispatchVars
  <1>12. ASSUME NEW p \in Pods, DeliverReport(p)
         PROVE  QueueOK'
    <2>1. PICK r \in Report, w \in Worker :
             /\ r.pod = p /\ r.dest \in HeldBy(pods[p])
             /\ pods' = [pods EXCEPT ![p] = w]
             /\ HeldBy(w) = HeldBy(pods[p]) \ {r.dest}
             /\ UNCHANGED <<inProgress, rpc>>
             /\ \/ queued = <<>> /\ statusQueue' = <<>> /\ queued' = Append(statusQueue, r)
                \/ statusQueue' = Append(statusQueue, r) /\ UNCHANGED queued
      BY <1>12, DeliverFacts DEF Held
    <2>2. pods'[p] = w /\ \A q \in Pods \ {p} : pods'[q] = pods[q]
      BY <1>0, <2>1 DEF PodsTypeOK
    <2>3. inProgress[r.dest] = p \/ (rpc = "deleting" /\ snapshot[r.dest] = p /\ inProgress[r.dest] = NoPod)
      BY <1>0, <2>1 DEF TrackOK, Held, GivenUp
    <2>4. ASSUME NEW q \in Pods, r.dest \in HeldBy(pods[q])
          PROVE  q = p
      <3>1. inProgress[r.dest] = q \/ (rpc = "deleting" /\ snapshot[r.dest] = q /\ inProgress[r.dest] = NoPod)
        BY <1>0, <2>4 DEF TrackOK, Held, GivenUp
      <3>2. QED
        BY <2>3, <3>1, DispatchAssumption DEF DispatchAssumption
    <2>5. \A q \in Pods : r.dest \notin HeldBy(pods'[q]) /\ HeldBy(pods'[q]) \subseteq HeldBy(pods[q])
      BY <2>1, <2>2, <2>4
    <2>6. /\ \A i \in DOMAIN statusQueue : statusQueue[i].dest # r.dest
          /\ \A i \in DOMAIN queued : queued[i].dest # r.dest
      BY <1>1, <2>1
    <2>7. Distinct(Append(statusQueue, r))
      BY <1>0, <1>1, <2>6, DistinctFacts DEF QueueTypeOK
    <2>8. \A i \in DOMAIN Append(statusQueue, r) :
             \/ Append(statusQueue, r)[i] = r
             \/ \E j \in DOMAIN statusQueue : statusQueue[j] = Append(statusQueue, r)[i]
      BY <1>0, QueueShrinks DEF QueueTypeOK
    <2> DEFINE q == Append(statusQueue, r)
    <2>9. \A i \in DOMAIN q :
             /\ \A x \in Pods : q[i].dest \notin HeldBy(pods'[x])
             /\ \/ inProgress[q[i].dest] = q[i].pod
                \/ rpc \in Early /\ inProgress[q[i].dest] = NoPod
             /\ \A j \in DOMAIN queued : q[i].dest # queued[j].dest
      BY <1>1, <2>1, <2>3, <2>5, <2>6, <2>8
    <2> HIDE DEF q
    <2>10. CASE queued = <<>> /\ statusQueue' = <<>> /\ queued' = q
      BY <2>1, <2>7, <2>9, <2>10 DEF QueueOK, ReportOK, Held, Distinct, q
    <2>11. CASE statusQueue' = q /\ UNCHANGED queued
      BY <1>1, <2>1, <2>5, <2>7, <2>9, <2>11 DEF QueueOK, ReportOK, Held, q
    <2>12. QED
      BY <2>1, <2>10, <2>11 DEF q
  <1>13. QED
    BY <1>2, <1>3, <1>5, <1>6, <1>7, <1>8, <1>9, <1>10, <1>11, <1>12, StepKinds, ReconcileKinds
       DEF dispatchVars

\* A pod is created only while fewer than Concurrency pods are in progress,
\* and by then every pod with work is.
LEMMA BusyStep ==
    ASSUME NoRepeats, DispatchInv, [Next]_vars
    PROVE  BusyOK'
  <1> DEFINE B1 == {p \in Pods : HeldBy(pods[p]) # {}}
             B2 == {p \in Pods : HeldBy(pods'[p]) # {}}
  <1>0. /\ PodsTypeOK /\ MemTypeOK /\ ItemOK /\ TrackOK /\ IsFiniteSet(Pods)
        /\ Concurrency \in Nat
    BY DispatchAssumption DEF DispatchInv, AckInv, TypeInv, TypeOK, DispatchAssumption
  <1>1. Cardinality(B1) <= Concurrency /\ B1 \subseteq Pods /\ B2 \subseteq Pods
    BY DEF DispatchInv, BusyOK, Busy, Held
  <1> SUFFICES Cardinality(B2) <= Concurrency
    BY DEF BusyOK, Busy, Held
  <1> HIDE DEF B1, B2
  <1>2. IsFiniteSet(B1) /\ IsFiniteSet(B2) /\ Cardinality(B1) \in Nat /\ Cardinality(B2) \in Nat
    BY <1>0, <1>1, FS_Subset, FS_CardinalityType
  <1>3. CASE \A p \in Pods : WorkerLess(p)
    <2>1. B2 \subseteq B1
      BY <1>3 DEF WorkerLess, B1, B2
    <2>2. Cardinality(B2) <= Cardinality(B1)
      BY <1>2, <2>1, FS_Subset
    <2>3. QED
      BY <1>0, <1>1, <1>2, <2>2
  <1>4. ASSUME NEW B \in SUBSET Dests, NEW p \in Pods, StartBatch(B, p)
        PROVE  Cardinality(B2) <= Concurrency
    <2>1. /\ rpc = "dispatching" /\ Cardinality(ActivePods) < Concurrency
          /\ \A q \in Pods \ {p} : pods'[q] = pods[q]
      BY <1>4, StartBatchFacts
    <2>2. ActivePods \subseteq Pods
      BY <1>0 DEF ActivePods, MemTypeOK
    <2>3. IsFiniteSet(ActivePods) /\ Cardinality(ActivePods) \in Nat
      BY <1>0, <2>2, FS_Subset, FS_CardinalityType
    <2>4. ASSUME NEW q \in Pods, NEW d \in HeldBy(pods[q])
          PROVE  q \in ActivePods
      <3>1. d \in Dests
        BY <1>0, <2>4 DEF HeldBy, PodsTypeOK, Worker, ItemOK
      <3>2. inProgress[d] = q
        BY <1>0, <2>1, <2>4 DEF TrackOK, Held, GivenUp
      <3>3. QED
        BY <3>1, <3>2, DispatchAssumption DEF ActivePods, DispatchAssumption
    <2>5. B2 \subseteq ActivePods \cup {p}
      BY <2>1, <2>4 DEF B2
    <2>6. /\ IsFiniteSet(ActivePods \cup {p})
          /\ Cardinality(ActivePods \cup {p})
                \in {Cardinality(ActivePods), Cardinality(ActivePods) + 1}
      BY <2>3, FS_AddElement
    <2>7. Cardinality(B2) <= Cardinality(ActivePods \cup {p})
      BY <2>5, <2>6, FS_Subset
    <2>8. QED
      BY <1>0, <1>2, <2>1, <2>3, <2>6, <2>7
  <1>5. QED
    BY <1>3, <1>4, HeldStep

\* The inductive invariant.
LEMMA DispatchInvariant ==
    ASSUME NoRepeats
    PROVE  Spec => []DispatchInv
  <1>1. Init /\ AckInv => DispatchInv
    <2> SUFFICES ASSUME Init, AckInv
                 PROVE  DispatchInv
      OBVIOUS
    <2>1. \A p \in Pods : pods[p] = NoWorker
      BY DEF Init
    <2>2. HeldBy(NoWorker) = {} /\ NoWorker.phase = "absent"
          /\ NoWorker.cur \notin NoWorker.todo
      BY DEF HeldBy, NoWorker, LivePhase
    <2>3. ItemFresh /\ TrackOK /\ Busy = {}
      BY <2>1, <2>2 DEF ItemFresh, TrackOK, Held, Busy
    <2>4. StuckOK /\ JudgedOK /\ PendingOK
      BY <2>1, <2>2, DispatchAssumption
         DEF Init, StuckOK, WasStuck, Live, JudgedOK, PendingOK, DispatchAssumption
    <2>5. QueueOK
      BY DEF Init, QueueOK, Distinct
    <2>6. BusyOK
      BY <2>3, FS_EmptySet, DispatchAssumption DEF BusyOK, DispatchAssumption
    <2>7. QED
      BY <2>3, <2>4, <2>5, <2>6 DEF DispatchInv, Init
  <1>2. AckInv' /\ DispatchInv /\ [Next]_vars => DispatchInv'
    <2> SUFFICES ASSUME AckInv', DispatchInv, [Next]_vars
                 PROVE  DispatchInv'
      OBVIOUS
    <2>1. up'
      <3>1. up /\ PodsTypeOK /\ ItemFresh /\ ItemOK
        BY DEF DispatchInv, AckInv, TypeInv, TypeOK
      <3>2. ASSUME NEW p \in Pods, WorkerFault(p) \/ (WorkerStep(p) /\ ~DeliverReport(p))
            PROVE  UNCHANGED up
        BY <3>1, <3>2, WorkerShrinks DEF dispatchVars
      <3>3. ASSUME NEW p \in Pods, DeliverReport(p)
            PROVE  UNCHANGED up
        BY <3>3, DeliverFacts
      <3>4. ReconcileStepDone => UNCHANGED up
        <4>1. CleanupApply => UNCHANGED up
          BY DEF CleanupApply, tickFrame
        <4>2. \A kept \in SUBSET doomed : CleanupDelete(kept) => UNCHANGED up
          BY DEF CleanupDelete, tickFrame
        <4>3. \A B \in SUBSET Dests, p \in Pods : StartBatch(B, p) => UNCHANGED up
          BY StartBatchFacts
        <4>4. QED
          BY <4>1, <4>2, <4>3, BookkeepingFrame, ReconcileKinds
      <3>5. ApplyStatus => UNCHANGED up
        BY DEF ApplyStatus
      <3>6. QED
        BY <3>1, <3>2, <3>3, <3>4, <3>5, StepKinds DEF dispatchVars
    <2>2. QED
      BY <2>1, FreshStep, StuckStep, JudgedStep, TrackStep, PendingStep, QueueStep, BusyStep
         DEF DispatchInv
  <1>3. QED
    BY <1>1, <1>2, AckInvariant, PTL DEF Spec

\* What a worker is at or going to do, it holds.
LEMMA WorkingHeld == \A p \in Pods : Working(p) \subseteq Held(p)
  BY DEF Working, Held, HeldBy, Live, LivePhase

(* No image is being mirrored, or about to be, by two worker pods at once:
   Phase E dispatches only what m.inProgress does not name, and between two
   dispatches nothing that a live worker still holds leaves m.inProgress.
   Under NoRepeats. *)
THEOREM NoImageHasTwoWorkers ==
    ASSUME NoRepeats
    PROVE  Spec => []NoDoubleDispatch
  <1>1. DispatchInv => NoDoubleDispatch
    <2> SUFFICES ASSUME DispatchInv, NEW p \in Pods, NEW q \in Pods, p # q,
                        NEW d, d \in Working(p), d \in Working(q)
                 PROVE  FALSE
      BY DEF NoDoubleDispatch
    <2>1. d \in Held(p) /\ d \in Held(q)
      BY WorkingHeld
    <2>2. /\ inProgress[d] = p \/ (snapshot[d] = p /\ inProgress[d] = NoPod)
          /\ inProgress[d] = q \/ (snapshot[d] = q /\ inProgress[d] = NoPod)
      BY <2>1 DEF DispatchInv, TrackOK, GivenUp
    <2>3. QED
      BY <2>2, DispatchAssumption DEF DispatchAssumption
  <1>2. QED
    BY <1>1, DispatchInvariant, PTL

(* At most Concurrency worker pods have work to do: the bound Phase E checks
   against m.inProgress is a bound on the pods themselves.  Under
   NoRepeats. *)
THEOREM ConcurrencyIsKept ==
    ASSUME NoRepeats
    PROVE  Spec => []WithinConcurrency
  <1>1. DispatchInv => WithinConcurrency
    <2> SUFFICES ASSUME DispatchInv
                 PROVE  WithinConcurrency
      OBVIOUS
    <2> DEFINE W == {p \in Pods : Working(p) # {}}
    <2>1. Cardinality(Busy) <= Concurrency /\ IsFiniteSet(Pods) /\ Concurrency \in Nat
      BY DispatchAssumption DEF DispatchInv, BusyOK, DispatchAssumption
    <2>2. W \subseteq Busy /\ Busy \subseteq Pods
      BY WorkingHeld DEF Busy
    <2> HIDE DEF W
    <2>3. IsFiniteSet(Busy) /\ Cardinality(Busy) \in Nat
      BY <2>1, <2>2, FS_Subset, FS_CardinalityType
    <2>4. Cardinality(W) <= Cardinality(Busy) /\ Cardinality(W) \in Nat
      BY <2>2, <2>3, FS_Subset, FS_CardinalityType
    <2>5. Cardinality(W) <= Concurrency
      BY <2>1, <2>3, <2>4
    <2>6. QED
      BY <2>5 DEF W, WithinConcurrency
  <1>2. QED
    BY <1>1, DispatchInvariant, PTL

-----------------------------------------------------------------------------
(* Results *)

(* What these proofs assume: the process does not die and the Kubernetes calls
   of a tick succeed.  After a crash m.inProgress names images whose result is
   known, and after a failed write an image that was dropped comes back from
   the ConfigMap while its last worker is still running. *)
CallsSucceed == "crash" \notin Events /\ "apiFails" \notin Events

\* The result of an image in progress is open.
ProgressOK ==
    \A d \in Dests : inProgress[d] # NoPod
        => imageState[d].state \in {"Pending", "Absent"} /\ d \notin mirrored

\* So is that of an image Phase D has picked for dispatch.
PickedOK ==
    rpc = "dispatching"
        => \A d \in pending : imageState[d].state = "Pending" /\ d \notin mirrored

JudgedPods ==
    rpc \in {"applying", "resetting"}
        => \A d \in Dests : finished[d] # "none" => snapshot[d] \in Pods

\* A Pending image has attempts left.
WithinBudget(st) ==
    \A d \in Dests : st[d].state = "Pending" => st[d].retryCount < MaxRetries

\* What the ConfigMap knows the manager knows, except between the moment Phase D
\* orphans an image and the write of Phase F.
StoredOK ==
    \A d \in Dests : persisted[d].state # "Absent" /\ imageState[d].state = "Absent"
        => /\ rpc \in {"dispatching", "flushing"} /\ stateDirty /\ d \notin owned
           /\ "readd" \notin Events => d \in dropped

ResultInv ==
    /\ AckInv /\ up /\ ("readd" \notin Events => WantOK)
    /\ ProgressOK /\ PickedOK /\ JudgedPods
    /\ WithinBudget(imageState) /\ WithinBudget(persisted) /\ StoredOK

resultVars == <<imageState, persisted, mirrored, inProgress, pending, finished,
                snapshot, rpc, stateDirty, owned, up>>

\* The steps that matter to the results.
LEMMA ResultKinds ==
    ASSUME CallsSucceed, ResultInv, [Next]_vars
    PROVE  /\ dropped \subseteq dropped'
           /\ \/ UNCHANGED resultVars
              \/ \E d \in Dests : BackoffElapses(d)
              \/ ApplyStatus
              \/ ReconcileStepDone
  <1> USE DEF specVars, podVars, memVars, tickVars, queueVars, workerFrame, tickFrame
  <1>1. CASE OutsideStep \/ UNCHANGED vars
    BY <1>1 DEF OutsideStep, EditSpec, Annotate, PollElapses, vars, resultVars
  <1>2. ASSUME NEW d \in Dests, CleanupOrphan(d)
        PROVE  UNCHANGED <<dropped, resultVars>>
    BY <1>2 DEF CleanupOrphan, resultVars
  <1>3. ASSUME NEW p \in Pods, WorkerStep(p) \/ WorkerFault(p)
        PROVE  UNCHANGED <<dropped, resultVars>>
    <2>1. CASE WorkerStep(p)
      BY <2>1 DEF WorkerStep, PodStart, PodFinishes, BeginItem, SkipItem,
         CopyItem, DeliverReport, AckReport, resultVars
    <2>2. CASE WorkerFault(p)
      BY <2>2 DEF WorkerFault, PodGetsStuck, PodDies, LoseAck, LoseReport, resultVars
    <2>3. QED
      BY <1>3, <2>1, <2>2
  <1>4. ~Crash /\ ~RestartStep
    BY DEF CallsSucceed, Crash, Event, RestartStep, Restart, ResultInv, AckInv, ProcessOK
  <1>5. ASSUME NEW d \in Dests, BackoffElapses(d)
        PROVE  UNCHANGED dropped
    BY <1>5 DEF BackoffElapses
  <1>6. ApplyStatus => UNCHANGED dropped
    BY DEF ApplyStatus
  <1>7. ReconcileStepDone => UNCHANGED dropped
    BY DEF ReconcileStepDone, CleanupSnapshot, CleanupList, CleanupListFails,
       CleanupLock, CleanupApply, CleanupDelete, ReconcileLock, ReconcileReadFails,
       ReconcileLoad, ClearResync, ResolveDone, ResolveFails, ProcessEntries,
       StartBatch, StartBatchFails, EndDispatch, Flush
  <1>8. QED
    BY <1>1, <1>2, <1>3, <1>4, <1>5, <1>6, <1>7 DEF Next

\* The steps of the loop that leave entries, flags and m.inProgress alone.
LEMMA ResultFrame ==
    ASSUME CallsSucceed, ResultInv, ReconcileStepDone
    PROVE  \/ UNCHANGED <<imageState, persisted, mirrored, inProgress, stateDirty, owned, up>>
           \/ CleanupApply \/ ReconcileLoad(persisted) \/ ResolveDone \/ ProcessEntries
           \/ \E B \in SUBSET Dests, p \in Pods : StartBatch(B, p)
           \/ Flush(TRUE, TRUE)
  <1> USE DEF specVars, podVars, memVars, tickVars, queueVars, tickFrame
  <1>1. CASE CleanupSnapshot \/ CleanupList \/ CleanupLock \/ ReconcileLock \/ ClearResync
             \/ EndDispatch
    BY <1>1 DEF CleanupSnapshot, CleanupList, CleanupLock, ReconcileLock, ClearResync,
       EndDispatch
  <1>2. CASE (\E kept \in SUBSET doomed : CleanupDelete(kept))
             \/ \E B \in SUBSET Dests : StartBatchFails(B)
    BY <1>2 DEF CleanupDelete, StartBatchFails
  <1>3. ~CleanupListFails /\ ~ReconcileReadFails /\ ~ResolveFails
    BY DEF CallsSucceed, CleanupListFails, ReconcileReadFails, ResolveFails, Event
  <1>4. ASSUME NEW found \in {persisted, NothingLoaded}, ReconcileLoad(found)
        PROVE  ReconcileLoad(persisted)
    <2>1. found = persisted
      BY <1>4 DEF CallsSucceed, ReconcileLoad, Event
    <2>2. QED
      BY <1>4, <2>1
  <1>5. ASSUME NEW saved \in BOOLEAN, NEW recorded \in BOOLEAN, Flush(saved, recorded)
        PROVE  Flush(TRUE, TRUE)
    <2>1. saved = TRUE /\ recorded = TRUE
      BY <1>5 DEF CallsSucceed, Flush, Event
    <2>2. QED
      BY <1>5, <2>1
  <1>6. QED
    BY <1>1, <1>2, <1>3, <1>4, <1>5 DEF ReconcileStepDone

\* Phase D returns an entry to Pending only while it has attempts left, and
\* does nothing to an entry whose result is open.
LEMMA ProcessEntryFacts ==
    ASSUME NEW e \in EntryOrNone, NEW f \in BOOLEAN
    PROVE  /\ ~f /\ e.state \in {"Pending", "Absent"} => ProcessEntry(e, f) = e
           /\ e.state # "Absent" => ProcessEntry(e, f).state # "Absent"
           /\ ProcessEntry(e, f).state = "Pending"
                 => \/ e.state = "Pending" /\ ProcessEntry(e, f).retryCount = e.retryCount
                    \/ ProcessEntry(e, f).retryCount < MaxRetries
  <1>1. CASE e = NoEntry
    BY <1>1 DEF ProcessEntry, NoEntry
  <1>2. CASE e \in Entry
    BY <1>2, MaxRetriesAssumption
       DEF ProcessEntry, RetryOrGiveUp, Entry, EntryState, MaxRetriesAssumption
  <1>3. QED
    BY <1>1, <1>2 DEF EntryOrNone

\* A report never makes an entry Pending, and a reset by the cleanup takes no
\* attempt back.
LEMMA SetImageStateFacts ==
    ASSUME NEW e \in EntryOrNone, NEW err
    PROVE  /\ \A st \in {"Mirrored", "Failed"} :
                 SetImageState(e, st, err).state = "Pending" => SetImageState(e, st, err) = e
           /\ SetImageState(e, "Pending", err).retryCount = e.retryCount
  <1>1. ASSUME NEW st \in {"Mirrored", "Failed"}, SetImageState(e, st, err).state = "Pending"
        PROVE  SetImageState(e, st, err) = e
    <2>1. e.state = "Absent" \/ SetImageState(e, st, err).state = st
      BY SetImageStateResult
    <2>2. CASE e.state = "Absent"
      BY <2>2 DEF SetImageState, ChangesState
    <2>3. QED
      BY <1>1, <2>1, <2>2
  <1>2. SetImageState(e, "Pending", err).retryCount = e.retryCount
    BY DEF SetImageState, EntryOrNone, Entry, NoEntry
  <1>3. QED
    BY <1>1, <1>2

\* Without a restart Phase A has nothing to load: an empty state means an empty
\* ConfigMap.
LEMMA LoadFacts ==
    ASSUME ResultInv, ReconcileLoad(persisted), NEW d \in Dests
    PROVE  /\ rpc = "loading" /\ rpc' \notin {"applying", "resetting", "dispatching"}
           /\ mirrored' \subseteq mirrored /\ UNCHANGED <<persisted, inProgress, up>>
           /\ \/ imageState'[d] = imageState[d]
              \/ /\ inProgress[d] = NoPod /\ imageState[d].state # "Absent"
                 /\ imageState'[d] = FreshCycle(imageState[d])
  <1> USE DEF tickFrame
  <1>0. /\ StoredOK /\ imageState \in [Dests -> EntryOrNone]
        /\ persisted \in [Dests -> EntryOrNone]
    BY DEF ResultInv, AckInv, TypeInv, TypeOK, MemTypeOK, OutsideTypeOK, EntryOrNone
  <1> DEFINE empty == \A x \in Dests : imageState[x].state = "Absent"
             base == IF empty THEN persisted ELSE imageState
  <1>1. rpc = "loading" /\ rpc' \notin {"applying", "resetting", "dispatching"}
        /\ mirrored' \subseteq mirrored /\ UNCHANGED <<persisted, inProgress, up>>
    BY DEF ReconcileLoad, GoOn, Unflag
  <1>2. base[d] = imageState[d]
    <2>1. CASE ~empty
      BY <2>1
    <2>2. CASE empty
      <3>1. persisted[d].state = "Absent" /\ imageState[d].state = "Absent"
        BY <1>0, <1>1, <2>2 DEF StoredOK
      <3>2. persisted[d] = NoEntry /\ imageState[d] = NoEntry
        BY <1>0, <3>1 DEF EntryOrNone, Entry, EntryState
      <3>3. QED
        BY <2>2, <3>2
    <2>3. QED
      BY <2>1, <2>2
  <1>3. \/ imageState'[d] = base[d]
        \/ /\ inProgress[d] = NoPod /\ base[d].state # "Absent"
           /\ imageState'[d] = FreshCycle(base[d])
    BY DEF ReconcileLoad
  <1>4. QED
    BY <1>1, <1>2, <1>3

\* Phase D, for one entry.
LEMMA ProcessFacts ==
    ASSUME ResultInv, ProcessEntries, NEW d \in Dests
    PROVE  /\ rpc' = "dispatching" /\ UNCHANGED <<persisted, inProgress, owned, up>>
           /\ \/ /\ imageState'[d] = NoEntry /\ imageState[d].state # "Absent"
                 /\ d \notin owned /\ stateDirty'
              \/ \E f \in BOOLEAN : /\ imageState'[d] = ProcessEntry(imageState[d], f)
                                    /\ d \notin mirrored => ~f
                                    /\ d \in owned \/ imageState[d].state = "Absent"
           /\ d \in mirrored' => d \in mirrored \/ imageState[d].state = "Mirrored"
  <1> USE DEF tickFrame
  <1>1. /\ rpc' = "dispatching" /\ UNCHANGED <<persisted, inProgress, owned, up>>
        /\ d \in mirrored' => d \in mirrored \/ imageState[d].state = "Mirrored"
    BY DEF ProcessEntries
  <1>2. CASE imageState[d].state # "Absent" /\ d \notin owned
    BY <1>1, <1>2 DEF ProcessEntries
  <1>3. CASE ~(imageState[d].state # "Absent" /\ d \notin owned)
    <2> DEFINE f == d \in mirrored /\ d \in owned
    <2>1. imageState'[d] = ProcessEntry(imageState[d], f)
      BY <1>3 DEF ProcessEntries
    <2>2. f \in BOOLEAN /\ (d \notin mirrored => ~f)
      OBVIOUS
    <2> HIDE DEF f
    <2>3. QED
      BY <1>1, <1>3, <2>1, <2>2
  <1>4. QED
    BY <1>2, <1>3

\* The other steps that change entries, for one entry.
LEMMA EntryFacts ==
    ASSUME ResultInv, NEW d \in Dests
    PROVE  /\ CleanupApply =>
                /\ rpc = "resetting" /\ rpc' = "deleting" /\ mirrored' \subseteq mirrored
                /\ UNCHANGED <<persisted, up>>
                /\ StillThere(d) => inProgress'[d] = NoPod /\ inProgress[d] # NoPod
                /\ ~StillThere(d) => UNCHANGED <<inProgress[d], imageState[d]>>
                /\ imageState'[d] \in {imageState[d],
                                       SetImageState(imageState[d], "Pending", NoError)}
           /\ ResolveDone =>
                /\ rpc = "resolving" /\ rpc' = "processing"
                /\ UNCHANGED <<persisted, inProgress, mirrored, up>>
                /\ \/ imageState'[d] = imageState[d]
                   \/ imageState'[d] = NewEntry /\ imageState[d].state = "Absent"
                   \/ imageState'[d] = FreshCycle(imageState[d]) /\ inProgress[d] = NoPod
           /\ ApplyStatus =>
                /\ UNCHANGED <<rpc, pending, finished, snapshot, persisted, owned, up>>
                /\ stateDirty => stateDirty'
                /\ rpc # "dispatching"
                /\ \/ /\ imageState'[d] = imageState[d] /\ inProgress'[d] = inProgress[d]
                      /\ d \in mirrored' => d \in mirrored
                   \/ /\ inProgress'[d] = NoPod
                      /\ \E st \in {"Mirrored", "Failed"}, err \in Errors \cup {NoError} :
                            imageState'[d] = SetImageState(imageState[d], st, err)
  <1> USE DEF tickFrame, tickVars
  <1>0. TypeOK /\ JudgedPods /\ LockOK
    BY DEF ResultInv, AckInv, TypeInv
  <1>1. ASSUME CleanupApply
        PROVE  /\ rpc = "resetting" /\ rpc' = "deleting" /\ mirrored' \subseteq mirrored
               /\ UNCHANGED <<persisted, up>>
               /\ StillThere(d) => inProgress'[d] = NoPod /\ inProgress[d] # NoPod
               /\ ~StillThere(d) => UNCHANGED <<inProgress[d], imageState[d]>>
               /\ imageState'[d] \in {imageState[d],
                                      SetImageState(imageState[d], "Pending", NoError)}
    <2>1. /\ rpc = "resetting" /\ rpc' = "deleting" /\ mirrored' \subseteq mirrored
          /\ UNCHANGED <<persisted, up>>
          /\ StillThere(d) => inProgress'[d] = NoPod
          /\ ~StillThere(d) => inProgress'[d] = inProgress[d]
          /\ ResetByCleanup(d)
                => imageState'[d] = SetImageState(imageState[d], "Pending", NoError)
          /\ ~ResetByCleanup(d) => imageState'[d] = imageState[d]
      BY <1>1 DEF CleanupApply, Unflag, StillThere, ResetByCleanup
    <2>2. StillThere(d) => inProgress[d] \in Pods
      BY <1>0, <2>1 DEF StillThere, JudgedPods
    <2>3. ResetByCleanup(d) => StillThere(d)
      BY DEF ResetByCleanup
    <2>4. QED
      BY <2>1, <2>2, <2>3, DispatchAssumption DEF DispatchAssumption
  <1>2. ASSUME ResolveDone
        PROVE  /\ rpc = "resolving" /\ rpc' = "processing"
               /\ UNCHANGED <<persisted, inProgress, mirrored, up>>
               /\ \/ imageState'[d] = imageState[d]
                  \/ imageState'[d] = NewEntry /\ imageState[d].state = "Absent"
                  \/ imageState'[d] = FreshCycle(imageState[d]) /\ inProgress[d] = NoPod
    BY <1>2 DEF ResolveDone
  <1>3. ASSUME ApplyStatus
        PROVE  /\ UNCHANGED <<rpc, pending, finished, snapshot, persisted, owned, up>>
               /\ stateDirty => stateDirty'
               /\ rpc # "dispatching"
               /\ \/ /\ imageState'[d] = imageState[d] /\ inProgress'[d] = inProgress[d]
                     /\ d \in mirrored' => d \in mirrored
                  \/ /\ inProgress'[d] = NoPod
                     /\ \E st \in {"Mirrored", "Failed"}, err \in Errors \cup {NoError} :
                           imageState'[d] = SetImageState(imageState[d], st, err)
    <2> DEFINE r == Head(queued)
               st == IF r.err = NoError THEN "Mirrored" ELSE "Failed"
    <2>1. r \in Report
      BY <1>0, <1>3 DEF ApplyStatus, TypeOK, QueueTypeOK
    <2>2. UNCHANGED <<rpc, pending, finished, snapshot, persisted, owned, up>>
          /\ (stateDirty => stateDirty') /\ rpc # "dispatching"
      BY <1>0, <1>3 DEF ApplyStatus, LockOK
    <2>3. CASE d = r.dest
      <3>1. inProgress'[d] = NoPod /\ imageState'[d] = SetImageState(imageState[d], st, r.err)
        BY <1>0, <1>3, <2>3 DEF ApplyStatus, TypeOK, MemTypeOK
      <3>2. st \in {"Mirrored", "Failed"} /\ r.err \in Errors \cup {NoError}
        BY <2>1 DEF Report
      <3> HIDE DEF r, st
      <3>3. QED
        BY <2>2, <3>1, <3>2
    <2>4. CASE d # r.dest
      BY <1>0, <1>3, <2>2, <2>4 DEF ApplyStatus, TypeOK, MemTypeOK, Unflag
    <2>5. QED
      BY <2>3, <2>4
  <1>4. QED
    BY <1>1, <1>2, <1>3

\* The result of an image in progress stays open.
LEMMA ProgressStep ==
    ASSUME CallsSucceed, ResultInv, [Next]_vars
    PROVE  ProgressOK'
  <1>0. /\ ProgressOK /\ PickedOK /\ imageState \in [Dests -> EntryOrNone]
        /\ inProgress \in [Dests -> Pods \cup {NoPod}]
    BY DEF ResultInv, AckInv, TypeInv, TypeOK, MemTypeOK, EntryOrNone
  <1> SUFFICES ASSUME NEW d \in Dests, inProgress'[d] # NoPod
               PROVE  imageState'[d].state \in {"Pending", "Absent"} /\ d \notin mirrored'
    BY DEF ProgressOK
  <1>1. inProgress[d] # NoPod => imageState[d].state \in {"Pending", "Absent"} /\ d \notin mirrored
    BY <1>0 DEF ProgressOK
  <1>2. CASE UNCHANGED <<imageState, mirrored, inProgress>>
    BY <1>1, <1>2
  <1>3. ASSUME NEW x \in Dests, BackoffElapses(x)
        PROVE  imageState'[d].state \in {"Pending", "Absent"} /\ d \notin mirrored'
    BY <1>0, <1>1, <1>3 DEF BackoffElapses, EntryOrNone, Entry, NoEntry
  <1>4. CASE ApplyStatus
    BY <1>1, <1>4, EntryFacts
  <1>5. CASE CleanupApply
    BY <1>1, <1>5, EntryFacts
  <1>6. CASE ReconcileLoad(persisted)
    BY <1>1, <1>6, LoadFacts
  <1>7. CASE ResolveDone
    BY <1>1, <1>7, EntryFacts DEF NewEntry
  <1>8. CASE ProcessEntries
    <2>1. inProgress[d] # NoPod
      BY <1>8, ProcessFacts
    <2>2. imageState[d] \in EntryOrNone
      BY <1>0
    <2>3. imageState'[d] \in {NoEntry, imageState[d]}
      BY <1>1, <1>8, <2>1, <2>2, ProcessFacts, ProcessEntryFacts
    <2>4. d \notin mirrored'
      BY <1>1, <1>8, <2>1, ProcessFacts
    <2>5. QED
      BY <1>1, <2>1, <2>3, <2>4 DEF NoEntry
  <1>9. ASSUME NEW B \in SUBSET Dests, NEW p \in Pods, StartBatch(B, p)
        PROVE  imageState'[d].state \in {"Pending", "Absent"} /\ d \notin mirrored'
    <2>1. UNCHANGED <<imageState, mirrored>> /\ rpc = "dispatching" /\ B \subseteq pending
          /\ (d \notin B => inProgress'[d] = inProgress[d])
      BY <1>9 DEF StartBatch, Batches
    <2>2. QED
      BY <1>0, <1>1, <2>1 DEF PickedOK
  <1>10. CASE Flush(TRUE, TRUE)
    BY <1>2, <1>10 DEF Flush
  <1>11. QED
    BY <1>2, <1>3, <1>4, <1>5, <1>6, <1>7, <1>8, <1>9, <1>10, ResultKinds, ResultFrame
       DEF resultVars

\* What Phase D picks stays Pending until it is dispatched.
LEMMA PickedStep ==
    ASSUME CallsSucceed, ResultInv, [Next]_vars
    PROVE  PickedOK' /\ JudgedPods'
  <1> USE DEF specVars, podVars, memVars, tickVars, queueVars, tickFrame
  <1>0. /\ PickedOK /\ JudgedPods /\ imageState \in [Dests -> EntryOrNone]
        /\ TickTypeOK /\ MemTypeOK
    BY DEF ResultInv, AckInv, TypeInv, TypeOK, MemTypeOK, EntryOrNone
  <1>1. CASE UNCHANGED resultVars
    BY <1>0, <1>1 DEF resultVars, PickedOK, JudgedPods
  <1>2. ASSUME NEW x \in Dests, BackoffElapses(x)
        PROVE  PickedOK' /\ JudgedPods'
    <2>1. \A d \in Dests : imageState'[d].state = imageState[d].state
      BY <1>0, <1>2 DEF BackoffElapses, EntryOrNone, Entry, NoEntry
    <2>2. UNCHANGED <<rpc, pending, mirrored, finished, snapshot>>
      BY <1>2 DEF BackoffElapses
    <2>3. QED
      BY <1>0, <2>1, <2>2 DEF PickedOK, JudgedPods, TickTypeOK
  <1>3. CASE ApplyStatus
    <2>1. UNCHANGED <<rpc, finished, snapshot>>
      BY <1>3 DEF ApplyStatus
    <2>2. rpc # "dispatching"
      BY <1>3 DEF ApplyStatus, ResultInv, AckInv, LockOK
    <2>3. QED
      BY <1>0, <2>1, <2>2 DEF PickedOK, JudgedPods
  <1>4. CASE CleanupList
    <2>1. rpc' # "dispatching" /\ UNCHANGED snapshot
      BY <1>4 DEF CleanupList
    <2>2. ASSUME NEW d \in Dests, finished'[d] # "none"
          PROVE  snapshot[d] \in Pods
      <3>1. JudgePod(snapshot[d]) # "none"
        BY <1>4, <2>2 DEF CleanupList
      <3>2. QED
        BY <1>0, <3>1 DEF JudgePod, TickTypeOK
    <2>3. QED
      BY <2>1, <2>2 DEF PickedOK, JudgedPods
  <1>5. CASE CleanupLock
    BY <1>0, <1>5 DEF CleanupLock, PickedOK, JudgedPods
  <1>6. CASE ProcessEntries
    <2>1. rpc' = "dispatching"
      BY <1>6 DEF ProcessEntries
    <2>2. ASSUME NEW d \in pending'
          PROVE  imageState'[d].state = "Pending" /\ d \notin mirrored'
      <3>1. d \in owned /\ d \in Dests /\ imageState[d].state = "Pending" /\ d \notin mirrored
        BY <1>0, <1>6, <2>2 DEF ProcessEntries, MemTypeOK
      <3>2. imageState[d] \in EntryOrNone
        BY <1>0, <3>1
      <3>3. imageState'[d] = imageState[d]
        BY <1>6, <3>1, <3>2, ProcessFacts, ProcessEntryFacts
      <3>4. d \notin mirrored'
        BY <1>6, <3>1, ProcessFacts
      <3>5. QED
        BY <3>1, <3>3, <3>4
    <2>3. QED
      BY <2>1, <2>2 DEF PickedOK, JudgedPods
  <1>7. ASSUME NEW B \in SUBSET Dests, \/ \E p \in Pods : StartBatch(B, p)
                                       \/ StartBatchFails(B)
        PROVE  PickedOK' /\ JudgedPods'
    BY <1>0, <1>7 DEF StartBatch, StartBatchFails, PickedOK, JudgedPods
  <1>8. ASSUME ReconcileStepDone, ~CleanupList, ~CleanupLock, ~ProcessEntries,
               ~\E B \in SUBSET Dests : (\E p \in Pods : StartBatch(B, p)) \/ StartBatchFails(B)
        PROVE  rpc' \notin {"applying", "resetting", "dispatching"}
    BY <1>8 DEF ReconcileStepDone, CleanupSnapshot, CleanupListFails, CleanupApply,
       CleanupDelete, ReconcileLock, ReconcileReadFails, ReconcileLoad, ClearResync,
       ResolveDone, ResolveFails, EndDispatch, Flush, GoOn
  <1>9. CASE rpc' \notin {"applying", "resetting", "dispatching"}
    BY <1>9 DEF PickedOK, JudgedPods
  <1>10. QED
    BY <1>1, <1>2, <1>3, <1>4, <1>5, <1>6, <1>7, <1>8, <1>9, ResultKinds

\* No step makes an image Pending that has used up its attempts.
LEMMA BudgetStep ==
    ASSUME CallsSucceed, ResultInv, [Next]_vars
    PROVE  WithinBudget(imageState)' /\ WithinBudget(persisted)'
  <1>0. /\ WithinBudget(imageState) /\ WithinBudget(persisted) /\ ProgressOK
        /\ imageState \in [Dests -> EntryOrNone]
    BY DEF ResultInv, AckInv, TypeInv, TypeOK, MemTypeOK, EntryOrNone
  <1>1. ASSUME NEW d \in Dests, imageState'[d].state = "Pending"
        PROVE  imageState'[d].retryCount < MaxRetries
    <2>0. /\ imageState[d] \in EntryOrNone
          /\ imageState[d].state = "Pending" => imageState[d].retryCount < MaxRetries
          /\ FreshCycle(imageState[d]).retryCount = 0
          /\ 0 < MaxRetries
      <3>1. FreshCycle(imageState[d]).retryCount = 0
        BY <1>0 DEF FreshCycle, EntryOrNone, Entry, NoEntry
      <3>2. 0 < MaxRetries
        BY MaxRetriesAssumption DEF MaxRetriesAssumption
      <3>3. QED
        BY <1>0, <3>1, <3>2 DEF WithinBudget
    <2>1. CASE UNCHANGED imageState
      BY <1>1, <2>0, <2>1
    <2>2. ASSUME NEW x \in Dests, BackoffElapses(x)
          PROVE  imageState'[d].retryCount < MaxRetries
      BY <1>0, <1>1, <2>0, <2>2 DEF BackoffElapses, EntryOrNone, Entry, NoEntry
    <2>3. CASE ApplyStatus
      BY <1>1, <2>0, <2>3, EntryFacts, SetImageStateFacts
    <2>4. CASE CleanupApply
      <3>1. CASE imageState'[d] = imageState[d]
        BY <1>1, <2>0, <3>1
      <3>2. CASE StillThere(d) /\ imageState'[d] = SetImageState(imageState[d], "Pending", NoError)
        <4>1. imageState[d].state \in {"Pending", "Absent"}
          BY <1>0, <2>4, <3>2, EntryFacts DEF ProgressOK
        <4>2. imageState[d].state # "Absent"
          BY <1>1, <2>0, <3>2, SetImageStateResult
        <4>3. QED
          BY <2>0, <3>2, <4>1, <4>2, SetImageStateFacts
      <3>3. QED
        BY <2>4, <3>1, <3>2, EntryFacts
    <2>5. CASE ReconcileLoad(persisted)
      BY <1>1, <2>0, <2>5, LoadFacts
    <2>6. CASE ResolveDone
      BY <1>1, <2>0, <2>6, EntryFacts DEF NewEntry
    <2>7. CASE ProcessEntries
      <3>1. imageState'[d] # NoEntry
        BY <1>1 DEF NoEntry
      <3>2. PICK f \in BOOLEAN : imageState'[d] = ProcessEntry(imageState[d], f)
        BY <2>7, <3>1, ProcessFacts
      <3>3. QED
        BY <1>1, <2>0, <3>2, ProcessEntryFacts
    <2>8. ASSUME NEW B \in SUBSET Dests, NEW p \in Pods, StartBatch(B, p)
          PROVE  UNCHANGED imageState
      BY <2>8 DEF StartBatch
    <2>9. CASE Flush(TRUE, TRUE)
      BY <2>1, <2>9 DEF Flush
    <2>10. QED
      BY <2>1, <2>2, <2>3, <2>4, <2>5, <2>6, <2>7, <2>8, <2>9, ResultKinds, ResultFrame
         DEF resultVars
  <1>2. ASSUME NEW d \in Dests
        PROVE  persisted'[d] \in {persisted[d], imageState[d], NoEntry}
    <2>1. CASE UNCHANGED persisted
      BY <2>1
    <2>2. CASE ApplyStatus \/ CleanupApply \/ ResolveDone
      BY <2>1, <2>2, EntryFacts
    <2>3. CASE ReconcileLoad(persisted)
      BY <2>1, <2>3, LoadFacts
    <2>4. CASE ProcessEntries
      BY <2>1, <2>4, ProcessFacts
    <2>5. CASE Flush(TRUE, TRUE)
      BY <2>5 DEF Flush
    <2>6. ASSUME NEW B \in SUBSET Dests, NEW p \in Pods, StartBatch(B, p)
          PROVE  UNCHANGED persisted
      BY <2>6 DEF StartBatch, tickFrame
    <2>7. ASSUME NEW x \in Dests, BackoffElapses(x)
          PROVE  UNCHANGED persisted
      BY <2>7 DEF BackoffElapses
    <2>8. QED
      BY <2>1, <2>2, <2>3, <2>4, <2>5, <2>6, <2>7, ResultKinds, ResultFrame DEF resultVars
  <1>3. QED
    BY <1>0, <1>1, <1>2 DEF WithinBudget, NoEntry

\* An image is known to the ConfigMap alone only from Phase D to Phase F.
LEMMA StoredStep ==
    ASSUME CallsSucceed, ResultInv, [Next]_vars
    PROVE  StoredOK'
  <1> USE DEF specVars, podVars, memVars, tickVars, queueVars, tickFrame
  <1>0. /\ StoredOK /\ imageState \in [Dests -> EntryOrNone]
        /\ "readd" \notin Events => Known(imageState) \subseteq owned \cup dropped
    BY DEF ResultInv, AckInv, TypeInv, TypeOK, MemTypeOK, EntryOrNone, WantOK
  <1>1. dropped \subseteq dropped'
    BY ResultKinds
  <1>2. ASSUME \A d \in Dests : imageState'[d].state = "Absent"
                                   => imageState[d].state = "Absent",
               UNCHANGED <<persisted, owned>>, stateDirty => stateDirty',
               rpc' = rpc \/ rpc \notin {"dispatching", "flushing"}
                          \/ rpc' \in {"dispatching", "flushing"}
        PROVE  StoredOK'
    BY <1>0, <1>1, <1>2 DEF StoredOK
  <1>3. ASSUME \A d \in Dests : imageState'[d].state = "Absent"
                                   => imageState[d].state = "Absent",
               UNCHANGED persisted, rpc \notin {"dispatching", "flushing"}
        PROVE  StoredOK'
    BY <1>0, <1>3 DEF StoredOK
  <1>4. CASE UNCHANGED resultVars
    BY <1>2, <1>4 DEF resultVars
  <1>5. ASSUME NEW x \in Dests, BackoffElapses(x)
        PROVE  StoredOK'
    <2>1. \A d \in Dests : imageState'[d].state = imageState[d].state
      BY <1>0, <1>5 DEF BackoffElapses, EntryOrNone, Entry, NoEntry
    <2>2. UNCHANGED <<persisted, owned, stateDirty, rpc>>
      BY <1>5 DEF BackoffElapses
    <2>3. QED
      BY <1>2, <2>1, <2>2
  <1>6. CASE ApplyStatus
    <2>1. ASSUME NEW d \in Dests
          PROVE  imageState'[d].state = "Absent" => imageState[d].state = "Absent"
      BY <1>0, <1>6, EntryFacts, SetImageStateResult
    <2>2. UNCHANGED <<persisted, owned, rpc>> /\ (stateDirty => stateDirty')
      BY <1>6 DEF ApplyStatus
    <2>3. QED
      BY <1>2, <2>1, <2>2
  <1>7. CASE CleanupApply
    <2>1. ASSUME NEW d \in Dests
          PROVE  imageState'[d].state = "Absent" => imageState[d].state = "Absent"
      BY <1>0, <1>7, EntryFacts, SetImageStateResult
    <2>2. UNCHANGED persisted /\ rpc = "resetting"
      BY <1>7 DEF CleanupApply
    <2>3. QED
      BY <1>3, <2>1, <2>2
  <1>8. CASE ReconcileLoad(persisted)
    <2>1. ASSUME NEW d \in Dests
          PROVE  imageState'[d].state = "Absent" => imageState[d].state = "Absent"
      BY <1>0, <1>8, LoadFacts, FreshCycleResult
    <2>2. UNCHANGED persisted /\ rpc = "loading"
      BY <1>8 DEF ReconcileLoad
    <2>3. QED
      BY <1>3, <2>1, <2>2
  <1>9. CASE ResolveDone
    <2>1. ASSUME NEW d \in Dests
          PROVE  imageState'[d].state = "Absent" => imageState[d].state = "Absent"
      BY <1>0, <1>9, EntryFacts, FreshCycleResult DEF NewEntry
    <2>2. UNCHANGED persisted /\ rpc = "resolving"
      BY <1>9 DEF ResolveDone
    <2>3. QED
      BY <1>3, <2>1, <2>2
  <1>10. CASE ProcessEntries
    <2>1. UNCHANGED <<persisted, owned, dropped>> /\ rpc = "processing" /\ rpc' = "dispatching"
      BY <1>10 DEF ProcessEntries
    <2>2. ASSUME NEW d \in Dests, persisted[d].state # "Absent", imageState'[d].state = "Absent"
          PROVE  /\ stateDirty' /\ d \notin owned
                 /\ "readd" \notin Events => d \in dropped
      <3>1. imageState[d].state # "Absent"
        BY <1>0, <2>1, <2>2 DEF StoredOK
      <3>2. \A f \in BOOLEAN : imageState'[d] # ProcessEntry(imageState[d], f)
        BY <1>0, <2>2, <3>1, ProcessEntryFacts
      <3>3. stateDirty' /\ d \notin owned
        BY <1>10, <3>2, ProcessFacts
      <3>4. QED
        BY <1>0, <3>1, <3>3 DEF Known
    <2>3. QED
      BY <2>1, <2>2 DEF StoredOK
  <1>11. ASSUME NEW B \in SUBSET Dests, NEW p \in Pods, StartBatch(B, p)
         PROVE  StoredOK'
    <2>1. UNCHANGED <<imageState, persisted, owned, stateDirty, rpc>>
      BY <1>11 DEF StartBatch
    <2>2. QED
      BY <1>2, <2>1
  <1>12. CASE Flush(TRUE, TRUE)
    <2>1. rpc = "flushing" /\ UNCHANGED imageState
          /\ \/ ~stateDirty /\ UNCHANGED persisted
             \/ \A d \in Dests : persisted'[d] \in {imageState[d], NoEntry}
      BY <1>12 DEF Flush
    <2>2. ASSUME NEW d \in Dests, persisted'[d].state # "Absent", imageState'[d].state = "Absent"
          PROVE  FALSE
      BY <1>0, <2>1, <2>2 DEF StoredOK, NoEntry
    <2>3. QED
      BY <2>2 DEF StoredOK
  <1>13. ASSUME ReconcileStepDone,
                UNCHANGED <<imageState, persisted, mirrored, inProgress, stateDirty, owned, up>>
         PROVE  StoredOK'
    <2>1. rpc \in {"dispatching", "flushing"} =>
             rpc' \in {"dispatching", "flushing"} \/ \E a, b \in BOOLEAN : Flush(a, b)
      BY <1>13 DEF ReconcileStepDone, CleanupSnapshot, CleanupList, CleanupListFails,
         CleanupLock, CleanupApply, CleanupDelete, ReconcileLock, ReconcileReadFails,
         ReconcileLoad, ClearResync, ResolveDone, ResolveFails, ProcessEntries, StartBatch,
         StartBatchFails, EndDispatch
    <2>2. ASSUME NEW a \in BOOLEAN, NEW b \in BOOLEAN, Flush(a, b)
          PROVE  Flush(TRUE, TRUE)
      <3>1. a = TRUE /\ b = TRUE
        BY <2>2 DEF CallsSucceed, Flush, Event
      <3>2. QED
        BY <2>2, <3>1
    <2>3. QED
      BY <1>2, <1>12, <1>13, <2>1, <2>2
  <1>14. QED
    BY <1>4, <1>5, <1>6, <1>7, <1>8, <1>9, <1>10, <1>11, <1>12, <1>13, ResultKinds, ResultFrame

\* The invariant the theorems about results rest on.
LEMMA ResultInvariant ==
    ASSUME CallsSucceed
    PROVE  Spec => []ResultInv
  <1> DEFINE Wants == "readd" \notin Events => WantOK
             Rest == /\ up /\ ProgressOK /\ PickedOK /\ JudgedPods
                     /\ WithinBudget(imageState) /\ WithinBudget(persisted) /\ StoredOK
  <1>1. Init => Rest
    BY DEF Init, ProgressOK, PickedOK, JudgedPods, WithinBudget, StoredOK, NoEntry
  <1>2. ResultInv /\ [Next]_vars => Rest'
    <2> SUFFICES ASSUME ResultInv, [Next]_vars
                 PROVE  Rest'
      OBVIOUS
    <2>1. up'
      <3>1. up
        BY DEF ResultInv
      <3>2. \A d \in Dests : BackoffElapses(d) => UNCHANGED up
        BY DEF BackoffElapses
      <3>3. ApplyStatus => UNCHANGED up
        BY DEF ApplyStatus
      <3>4. ReconcileStepDone => UNCHANGED up
        BY DEF ReconcileStepDone, CleanupSnapshot, CleanupList, CleanupListFails,
           CleanupLock, CleanupApply, CleanupDelete, ReconcileLock, ReconcileReadFails,
           ReconcileLoad, ClearResync, ResolveDone, ResolveFails, ProcessEntries,
           StartBatch, StartBatchFails, EndDispatch, Flush, tickFrame
      <3>5. QED
        BY <3>1, <3>2, <3>3, <3>4, ResultKinds DEF resultVars
    <2>2. QED
      BY <2>1, ProgressStep, PickedStep, BudgetStep, StoredStep
  <1>3. Spec => []Wants
    <2>1. CASE "readd" \in Events
      <3>1. Wants
        BY <2>1
      <3>2. QED
        BY <3>1, PTL
    <2>2. CASE "readd" \notin Events
      <3>1. MirroredInv => Wants
        BY DEF MirroredInv
      <3>2. Spec => []MirroredInv
        BY <2>2, MirroredInvariant
      <3>3. QED
        BY <3>1, <3>2, PTL
    <2>3. QED
      BY <2>1, <2>2
  <1>4. AckInv /\ Wants /\ Rest <=> ResultInv
    BY DEF ResultInv
  <1> HIDE DEF Wants, Rest
  <1>5. QED
    BY <1>1, <1>2, <1>3, <1>4, AckInvariant, PTL DEF Spec

(* cleanupFinishedWorkers returns an image to Pending only if no result of it
   is known: it looks only at images in progress, and no image in progress has
   a result.  Under CallsSucceed. *)
THEOREM CleanupKeepsKnownResults ==
    ASSUME CallsSucceed
    PROVE  Spec => CleanupKeepsResults
  <1>1. ASSUME ResultInv, [Next]_vars, rpc = "resetting", rpc' = "deleting",
               NEW d \in Dests, imageState[d].state \in {"Mirrored", "Failed"}
        PROVE  imageState'[d] = imageState[d]
    <2>1. CleanupApply
      <3>1. ~UNCHANGED rpc
        BY <1>1
      <3>2. /\ \A x \in Dests : ~BackoffElapses(x)
            /\ ~ApplyStatus
        BY <3>1 DEF BackoffElapses, ApplyStatus, tickVars
      <3>3. ReconcileStepDone => CleanupApply
        BY <1>1 DEF ReconcileStepDone, CleanupSnapshot, CleanupList, CleanupListFails,
           CleanupLock, CleanupDelete, ReconcileLock, ReconcileReadFails, ReconcileLoad,
           ClearResync, ResolveDone, ResolveFails, ProcessEntries, StartBatch,
           StartBatchFails, EndDispatch, Flush
      <3>4. QED
        BY <1>1, <3>1, <3>2, <3>3, ResultKinds DEF resultVars
    <2>2. inProgress[d] = NoPod
      BY <1>1 DEF ResultInv, ProgressOK
    <2>3. QED
      BY <1>1, <2>1, <2>2, EntryFacts
  <1>2. ResultInv /\ [Next]_vars
          => [rpc = "resetting" /\ rpc' = "deleting" =>
                \A d \in Dests : imageState[d].state \in {"Mirrored", "Failed"}
                                    => imageState'[d] = imageState[d]]_vars
    BY <1>1
  <1>3. QED
    BY <1>2, ResultInvariant, PTL DEF Spec, CleanupKeepsResults

(* An image whose retry budget is used up is not dispatched again until a
   recollect or a force-resync gives it a fresh cycle: what Phase D picks is
   Pending, and no step makes an image Pending that has no attempt left.
   Under CallsSucceed. *)
THEOREM NothingDispatchedPastBudget ==
    ASSUME CallsSucceed
    PROVE  Spec => NoDispatchPastBudget
  <1>1. ASSUME ResultInv, [Next]_vars, NEW d \in Dests, rpc = "dispatching",
               inProgress'[d] \notin {NoPod, inProgress[d]}
        PROVE  imageState[d].retryCount < MaxRetries
    <2>1. /\ ~UNCHANGED inProgress
          /\ \A x \in Dests : ~BackoffElapses(x)
      BY <1>1 DEF BackoffElapses
    <2>2. ~ApplyStatus
      BY <1>1, EntryFacts
    <2>3. \E B \in SUBSET Dests, p \in Pods : StartBatch(B, p)
      <3>1. ReconcileStepDone
        BY <1>1, <2>1, <2>2, ResultKinds DEF resultVars
      <3>2. ~CleanupApply /\ ~ReconcileLoad(persisted) /\ ~ResolveDone /\ ~ProcessEntries
            /\ ~Flush(TRUE, TRUE)
        BY <1>1 DEF CleanupApply, ReconcileLoad, ResolveDone, ProcessEntries, Flush
      <3>3. QED
        BY <1>1, <2>1, <3>1, <3>2, ResultFrame
    <2>4. d \in pending
      BY <1>1, <2>3 DEF StartBatch, Batches
    <2>5. QED
      BY <1>1, <2>4 DEF ResultInv, PickedOK, WithinBudget
  <1>2. ResultInv /\ [Next]_vars
          => [\A d \in Dests :
                rpc = "dispatching" /\ inProgress'[d] \notin {NoPod, inProgress[d]}
                    => imageState[d].retryCount < MaxRetries]_vars
    BY <1>1
  <1>3. QED
    BY <1>2, ResultInvariant, PTL DEF Spec, NoDispatchPastBudget

(* A success report that is applied takes effect on every image the ImageSet
   asks for and its ConfigMap holds: the manager has forgotten a stored image
   only if an edit dropped it.  Under CallsSucceed, and as long as no dropped
   image is brought back. *)
THEOREM AppliedReportsTakeEffect ==
    ASSUME CallsSucceed, "readd" \notin Events
    PROVE  Spec => ReportsTakeEffect
  <1>1. ASSUME ResultInv, [Next]_vars, queued # <<>>, queued' = Tail(queued),
               NEW d \in wanted, Head(queued).dest = d, Head(queued).err = NoError,
               persisted[d].state # "Absent"
        PROVE  imageState'[d].state = "Mirrored"
    <2> USE DEF specVars, podVars, memVars, tickVars, queueVars, workerFrame, tickFrame
    <2>0. /\ d \in Dests /\ d \notin dropped /\ queued \in Seq(Report) /\ LockOK /\ StoredOK
          /\ imageState \in [Dests -> EntryOrNone]
      BY <1>1 DEF ResultInv, AckInv, TypeInv, TypeOK, OutsideTypeOK, QueueTypeOK, MemTypeOK,
         WantOK, EntryOrNone
    <2>1. ~UNCHANGED queued /\ mu # "free"
      <3>1. Len(Tail(queued)) = Len(queued) - 1 /\ Len(queued) \in Nat
        BY <1>1, <2>0, HeadTailProperties, LenProperties
      <3>2. Tail(queued) # queued
        BY <3>1
      <3>3. QED
        BY <1>1, <2>0, <3>2 DEF LockOK
    <2>2. ApplyStatus
      <3>1. ~OutsideStep /\ ~UNCHANGED vars /\ ~RestartStep
        BY <2>1 DEF OutsideStep, EditSpec, Annotate, PollElapses, vars, RestartStep, Restart
      <3>2. \A x \in Dests : ~CleanupOrphan(x) /\ ~BackoffElapses(x)
        BY <2>1 DEF CleanupOrphan, BackoffElapses
      <3>3. ASSUME NEW p \in Pods
            PROVE  ~WorkerStep(p) /\ ~WorkerFault(p)
        <4>1. ~WorkerStep(p)
          BY <2>1 DEF WorkerStep, PodStart, PodFinishes, BeginItem, SkipItem,
             CopyItem, DeliverReport, AckReport
        <4>2. ~WorkerFault(p)
          BY <2>1 DEF WorkerFault, PodGetsStuck, PodDies, LoseAck, LoseReport
        <4>3. QED
          BY <4>1, <4>2
      <3>4. ~ReconcileStepDone
        BY <1>1, <2>0, <2>1 DEF ReconcileStepDone, CleanupSnapshot, CleanupList,
           CleanupListFails, CleanupLock, CleanupApply, CleanupDelete, ReconcileLock,
           ReconcileReadFails, ReconcileLoad, ClearResync, ResolveDone, ResolveFails,
           ProcessEntries, StartBatch, StartBatchFails, EndDispatch, Flush, LockAndDrain,
           LockOK
      <3>5. ~Crash
        BY DEF CallsSucceed, Crash, Event
      <3>6. QED
        BY <1>1, <3>1, <3>2, <3>3, <3>4, <3>5 DEF Next
    <2>3. imageState'[d] = SetImageState(imageState[d], "Mirrored", NoError)
      BY <1>1, <2>0, <2>2 DEF ApplyStatus
    <2>4. imageState[d].state # "Absent"
      BY <1>1, <2>0 DEF StoredOK
    <2>5. QED
      BY <2>0, <2>3, <2>4, SetImageStateResult
  <1>2. ResultInv /\ [Next]_vars
          => [queued # <<>> /\ queued' = Tail(queued) /\ up' =>
                \A d \in wanted :
                    /\ Head(queued).dest = d /\ Head(queued).err = NoError
                    /\ persisted[d].state # "Absent"
                    => imageState'[d].state = "Mirrored"]_vars
    BY <1>1
  <1>3. QED
    BY <1>2, ResultInvariant, PTL DEF Spec, ReportsTakeEffect

=============================================================================
