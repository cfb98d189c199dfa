SPECIFICATION FairSpec
CONSTANTS
  None = None
  c1 = c1
  c2 = c2
  e1 = e1
  h1 = h1
  h2 = h2
  h3 = h3
  Calls = {c1}
  Ids = {e1}
  Handlers = {h1, h2}
  Payloads <- OddPayloads
  MaxDeliveries <- CompletedTwice
  Faults = {"db_error", "commit_lost", "expiry"}
INVARIANTS ProjectionFoldsLog TranscriptMatchesEvents PipelineStartedOnce KeyHeldForAReason
PROPERTIES HandlersReturn
CHECK_DEADLOCK FALSE
