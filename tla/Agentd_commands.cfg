CONSTANTS
  Cmds = {c1, c2}
  Kills = {k1}
  Pids = {p1, p2}
  None = None
  InCap = 1
  OutCap = 1
  Requests <- MCRequests
  Faults = {"drop", "guess"}
SPECIFICATION FairSpec
CHECK_DEADLOCK FALSE
INVARIANTS TypeOK KnownKillMisses UnlockedRunsAreDropped RegistryIsExact NoChildSurvives OnlyBigInputsTimeOut
PROPERTY RunsEnd
