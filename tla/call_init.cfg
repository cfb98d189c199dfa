SPECIFICATION Spec
CONSTANTS
  r1 = r1
  r2 = r2
  r3 = r3
  r4 = r4
  u1 = u1
  u2 = u2
  s1 = s1
  s2 = s2
  NoKey = NoKey
  Requests = {r1, r2, r3}
  Users = {u1, u2}
  Stakeholders = {s1, s2}
  UserOf <- MCUserOf
  StakeholderOf <- MCStakeholderOf
  Quota = 1
  Faults = {"crash", "error", "timeout"}
INVARIANTS TypeOK OneRecentCall PollFindsExecution FailureIsRecorded QuotaUnlessClobbered
CHECK_DEADLOCK FALSE
