SPECIFICATION FairSpec
CONSTANTS
  None = None
  Asked = Asked
  c1 = c1
  g1 = g1
  g2 = g2
  e1 = e1
  Calls = {c1}
  Ids = {e1}
  Pages = {g1}
  Payloads <- MCPayloads
  Watched <- MCWatched
  Faults = {"drop", "hint", "fetch"}
 
PROPERTIES PageNeverGoesBack PageShowsFinalStatus PageFollowsProcessing
CHECK_DEADLOCK FALSE
