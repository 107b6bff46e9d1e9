CONSTANTS
    Dests = {d1, d2}
    BundleImages = {}
    Pods = {p1, p2}
    NoDest = NoDest
    NoPod = NoPod
    NoError = NoError
    Errors = {e1}
    MaxRetries = 1
    Concurrency = 1
    BatchSize = 2
    StatusAttempts = 1
    PollEnabled = FALSE
    Events = {"crash", "podDies", "podStuck", "ackLost", "reportLost", "apiFails", "deleteFails", "syncFails", "resync", "recollect"}
    MaxEvents = 1
    MaxEdits = 0
SPECIFICATION FairSpec
PROPERTY EverythingSettles
