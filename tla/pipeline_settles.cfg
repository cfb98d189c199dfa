SPECIFICATION FairSpec
CONSTANTS
  c1 = c1
  c2 = c2
  w1 = w1
  w2 = w2
  Calls = {c1, c2}
  Workers = {w1, w2}
  MaxRetries <- OneRetry
  MaxTranscripts = 1
  MaxRedelivered = 0
  Faults = {"llm", "db_error"}
INVARIANTS WorkRemains
PROPERTIES Settles
CHECK_DEADLOCK FALSE
