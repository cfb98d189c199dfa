SPECIFICATION FairSpec
CONSTANTS
  None = None
  c1 = c1
  e1 = e1
  Calls = {c1}
  Ids = {e1}
  Payloads <- PlainPayloads
  Webhook <- PlainWebhook
  Answer <- PlainAnswer
  MaxAttempts = 2
  MaxTries = 1
  Faults = {}
PROPERTY EndedCallsStayEnded
CHECK_DEADLOCK FALSE
