CONSTANTS
    Dests = {d1}
    Sources = {s1, s2}
    Digests = {g1, g2}
    NoDigest = NoDigest
    SweepSlots = 1
    MaxRetries = 2
    Errors = {e1}
    NoError = NoError
    Events = {"moves", "lost", "copyFails", "podDies", "probeFails", "apiFails", "edit", "resync", "restart", "signing", "require"}
    MaxEvents = 3
    MaxFailures = 3
SPECIFICATION FairSpec
INVARIANT FlagMeansMirrored
INVARIANT DriftStaysVisible
PROPERTY MirrorConverges
