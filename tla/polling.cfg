SPECIFICATION FairSpec
CONSTANTS
  None = None
  c1 = c1
  e1 = e1
  Calls = {c1}
  Ids = {e1}
  Payloads <- MCPayloads
  Webhook <- MCWebhook
  Answer <- MCAnswer
  MaxAttempts = 2
  MaxTries = 1
  Faults = {"http", "limited", "broker", "poll", "webhook", "orphan"}
INVARIANTS WritersExclude StopsOnAnEnd
PROPERTIES ReportedEndIsRecorded PollingEnds
CHECK_DEADLOCK FALSE
