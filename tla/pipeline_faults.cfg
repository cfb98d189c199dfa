SPECIFICATION Spec
CONSTANTS
  c1 = c1
  c2 = c2
  w1 = w1
  w2 = w2
  Calls = {c1}
  Workers = {w1, w2}
  MaxRetries <- FewRetries
  MaxTranscripts = 1
  MaxRedelivered = 2
  Faults = {"llm", "db_error", "abort", "crash", "partition", "stale", "broker", "redact"}
SYMMETRY WorkerSymmetry
INVARIANTS OneWorkerPerCall ArtifactsOnce ArtifactsInOrder RedactionHolds
CHECK_DEADLOCK FALSE
PROPERTIES FollowsStages
