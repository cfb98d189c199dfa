SPECIFICATION FairSpec
CONSTANTS
  c1 = c1
  c2 = c2
  w1 = w1
  w2 = w2
  Calls = {c1}
  Workers = {w1}
  MaxRetries <- OneRetry
  MaxTranscripts = 1
  MaxRedelivered = 1
  Faults = {"crash"}
PROPERTIES JobsAreRetrySafe
CHECK_DEADLOCK FALSE
