SPECIFICATION FairSpec
CONSTANTS
  typed = typed
  plain = plain
  ip = ip
  h1 = h1
  h2 = h2
  h3 = h3
  Handlers = {h1, h2, h3}
  Emails = {typed, plain}
  Normalize <- MCNormalize
  Addresses = {ip}
  MaxAttempts = 2
  Window = 2
  MaxOutages = 1
INVARIANTS TypeOK GuessesBounded
PROPERTIES LockoutEnds
CHECK_DEADLOCK FALSE
