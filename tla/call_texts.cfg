SPECIFICATION Spec
CONSTANTS
  None = None
  NoLabel = NoLabel
  r1 = r1
  r2 = r2
  Requests = {r1, r2}
  Inputs <- MCInputs
SYMMETRY RequestSymmetry
INVARIANTS TypeOK TurnsKeepTheWords RedactedCallIsSilent ReplyIsCurrent
CHECK_DEADLOCK FALSE
