SPECIFICATION FairSpec
CONSTANTS
  ImageSets = {"a", "b"}
  Dests = {"digestTag", "digest"}
  Manifest <- MCManifest
  Kind <- MCKind
  InitWant <- MCWant
  MaxEdits = 2
  MaxFaults = 1
PROPERTIES DeletesOnlyUnwanted CleanupNotAbandoned CleanupSettles
