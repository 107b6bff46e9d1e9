SPECIFICATION Spec
CONSTANTS
  PayloadOf <- MCPayloadOf
  SampleGraphs <- SomeGraphs
  Payloads <- MCPayloads
  SignedAtFirst <- MCSignedAtFirst
  Specs <- MCSpecs
  Histories <- MCHistories
  Faults = {"graph", "signatures"}
  MaxEdits = 2
  MaxFaults = 1
  MaxResolves = 3
INVARIANTS ResolvedExactly PathIsShortest
PROPERTIES KeptWhileListed UnsignedNeverQueued
CHECK_DEADLOCK FALSE
