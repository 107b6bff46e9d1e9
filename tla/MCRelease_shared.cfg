SPECIFICATION Spec
CONSTANTS
  PayloadOf <- MCPayloadOf
  SampleGraphs <- SomeGraphs
  Payloads <- MCPayloads
  SignedAtFirst <- MCSignedAtFirst
  Specs <- SharedSpecs
  Histories <- MCHistories
  Faults = {}
  MaxEdits = 1
  MaxFaults = 0
  MaxResolves = 2
INVARIANTS ResolvedExactly
CHECK_DEADLOCK FALSE
