SPECIFICATION FairSpec
CONSTANTS
  Order <- MCOrder
  Catalogs = {"catalog"}
  Images = {"payload", "a", "b"}
  Specs <- MCSpecs
  Content <- MCContent
  Faults = {"probe", "patch", "flush", "load", "restart", "copy", "build", "cached", "interrupt"}
  MaxEdits = 1
  MaxMoves = 1
  MaxFaults = 1
INVARIANTS AdvertisesOnlyMirrored DigestMatchesEntries ReadyAsRecordedUndisturbed
PROPERTIES GateOpens
CHECK_DEADLOCK FALSE
