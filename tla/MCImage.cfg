SPECIFICATION Spec
CONSTANTS
  Candidates <- MCCandidates
  Catalogs <- MCCatalogs
  Requests <- MCRequests
  Source <- MCSource
  UploadConcurrency = 2
  MaxAttempts = 2
  MaxFaults = 1
INVARIANTS ManifestComplete AdvertisedWasResolved DependenciesClosed UpgradesKept OneHead Servable
CHECK_DEADLOCK FALSE
