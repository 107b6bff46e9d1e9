--------------------------- MODULE ImageLifecycle ---------------------------
(***************************************************************************)
(* The life cycle of one image of a mirror, as the manager keeps it in     *)
(* m.imageState[dest] (imagestate.ImageEntry) and changes it.  These are   *)
(* operators on an entry; the modules that extend this one apply them to   *)
(* the entries of their own state.                                         *)
(*                                                                         *)
(* Of an ImageEntry this keeps the fields the life cycle reads.            *)
(* NextRetryAt is the Boolean backingOff: TRUE while the retry time set by *)
(* the last failure still lies in the future.                              *)
(***************************************************************************)
EXTENDS Naturals

CONSTANTS
    MaxRetries,   \* effectiveMaxRetries(): failures before an image is given up
    Errors,       \* the error texts a failed attempt can carry
    NoError       \* the empty error text

ASSUME MaxRetriesAssumption == MaxRetries \in Nat \ {0}
ASSUME ErrorsAssumption == NoError \notin Errors

(* The entries of m.imageState *)

EntryState == {"Pending", "Mirrored", "Failed"}

Entry == [state : EntryState,
          lastError : Errors \cup {NoError},
          retryCount : Nat,
          permanentlyFailed : BOOLEAN,
          backingOff : BOOLEAN]

\* What a lookup of a destination that is not in m.imageState gives.
NoEntry == [state |-> "Absent", lastError |-> NoError, retryCount |-> 0,
            permanentlyFailed |-> FALSE, backingOff |-> FALSE]

\* The entry a resolve creates for a destination it sees for the first time.
NewEntry == [state |-> "Pending", lastError |-> NoError, retryCount |-> 0,
             permanentlyFailed |-> FALSE, backingOff |-> FALSE]

(* The changes of one entry *)

\* One failed attempt is counted: the retry count, the time of the next
\* attempt, and the sticky marker once the budget is used up.
RecordFailure(e) ==
    [e EXCEPT !.retryCount = @ + 1,
              !.backingOff = TRUE,
              !.permanentlyFailed = @ \/ e.retryCount + 1 >= MaxRetries]

\* setImageStateLocked returns early for an unknown destination and for a
\* repetition of the state and the error the entry already has.
ChangesState(e, st, err) ==
    /\ e.state # "Absent"
    /\ ~(e.state = st /\ e.lastError = err)

SetImageState(e, st, err) ==
    LET f == [e EXCEPT !.state = st, !.lastError = err]
    IN  IF ~ChangesState(e, st, err) THEN e
        ELSE IF st = "Failed" THEN RecordFailure(f)
        ELSE [f EXCEPT !.backingOff = FALSE]

\* Mutant: one retry too many.
OneRetryTooMany(e) ==
    IF e.retryCount > MaxRetries THEN [e EXCEPT !.permanentlyFailed = TRUE]
    ELSE IF e.backingOff THEN e
    ELSE [e EXCEPT !.state = "Pending"]

\* The retry decision of reconcile's Phase D for a Failed entry.
RetryOrGiveUp(e) ==
    IF e.retryCount >= MaxRetries THEN [e EXCEPT !.permanentlyFailed = TRUE]
    ELSE IF e.backingOff THEN e
    ELSE [e EXCEPT !.state = "Pending"]

\* Phase D for an entry that has an owner; flagged says whether the
\* m.mirrored fast-path flag of its destination is set.
ProcessEntry(e, flagged) ==
    CASE e.state = "Mirrored" -> e
      [] e.state # "Mirrored" /\ flagged -> [e EXCEPT !.state = "Mirrored"]
      [] e.state = "Failed" /\ ~flagged -> RetryOrGiveUp(e)
      [] OTHER -> e

\* A fresh retry cycle: resetImageSetToPendingLocked (force-resync) and
\* resetFailedForRecollectLocked (recollect).  permanentlyFailed stays.
FreshCycle(e) ==
    [e EXCEPT !.state = "Pending", !.lastError = NoError,
              !.retryCount = 0, !.backingOff = FALSE]

=============================================================================
