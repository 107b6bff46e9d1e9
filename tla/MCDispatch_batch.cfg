CONSTANTS
    Dests = {d1, d2}
    BundleImages = {d1}
    Pods = {p1, p2}
    NoDest = NoDest
    NoPod = NoPod
    NoError = NoError
    Errors = {e1}
    MaxRetries = 2
    Concurrency = 1
    BatchSize = 2
    StatusAttempts = 1
    PollEnabled = TRUE
    Events = {"podDies", "podStuck", "reportLost", "deleteFails"}
    MaxEvents = 1
    MaxEdits = 0
SPECIFICATION Spec
INVARIANT WithinConcurrency
INVARIANT NoDoubleDispatch
PROPERTY NoDispatchPastBudget
PROPERTY ReportsTakeEffect
PROPERTY CleanupKeepsResults
SYMMETRY PodSymmetry
