CONSTANTS
    Dests = {d1}
    BundleImages = {}
    Pods = {p1, p2}
    NoDest = NoDest
    NoPod = NoPod
    NoError = NoError
    Errors = {e1}
    MaxRetries = 2
    Concurrency = 1
    BatchSize = 1
    StatusAttempts = 2
    PollEnabled = FALSE
    Events = {"crash", "podDies", "podStuck", "ackLost", "reportLost", "apiFails", "deleteFails", "syncFails", "resync", "recollect"}
    MaxEvents = 2
    MaxEdits = 1
SPECIFICATION Spec
INVARIANT TypeOK
INVARIANT AckedNotLost
INVARIANT MirroredPresent
PROPERTY NoUncheckedFlip
SYMMETRY PodSymmetry
