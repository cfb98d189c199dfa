SPECIFICATION Spec
CONSTANTS
  None = None
  c1 = c1
  c2 = c2
  e1 = e1
  h1 = h1
  h2 = h2
  h3 = h3
  Calls = {c1, c2}
  Ids = {e1}
  Handlers = {h1, h2, h3}
  Payloads <- RacingEnds
  MaxDeliveries <- CompletedTwice
  Faults = {"crash", "db_error", "resolve_error", "broker_error"}
SYMMETRY HandlerSymmetry
INVARIANTS KeyExclusive EventsRecordedOnce
PROPERTIES ImplementsLedger KeysGuardEvents
CHECK_DEADLOCK FALSE
