CONSTANTS
  Clients = {c1, c2}
  Reaper = reaper
  Shutdown = shutdown
  Daemons = {reaper}
  Sandboxes = {s1}
  Snapshots = {}
  Keys = {k1}
  WithSecrets = {}
  DestroyOnIdle = {}
  RecordOps = {"use", "resume", "destroy"}
  Faults = {}
  NoTask = NoTask
  NoBox = NoBox
  NoKey = NoKey
  NoImage = NoImage
SPECIFICATION FairSpec
CHECK_DEADLOCK FALSE
PROPERTIES IdleIsReaped Answered
