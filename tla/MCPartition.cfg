SPECIFICATION FairSpec
CONSTANTS
  ImageSets = {"a", "b"}
  Dests = {"s", "x"}
  Wants <- MCWants
  Targets <- MCTargets
  Legacies <- MCLegacies
  MaxRetry = 1
  Faults = {"write", "copy", "clear", "migrate", "load", "crash"}
  MaxFaults = 1
  MaxEdits = 1
INVARIANT OwnSignature
PROPERTIES StoreSpec SummaryDescribesState StatusExact ResyncRemirrors
CHECK_DEADLOCK FALSE
