CONSTANTS
  Clients = {c1, c2}
  Reaper = reaper
  Shutdown = shutdown
  Daemons = {reaper}
  Sandboxes = {s1, s2}
  Snapshots = {}
  Keys = {k1}
  WithSecrets = {s1}
  DestroyOnIdle = {}
  RecordOps = {"destroy"}
  Faults = {"backend"}
  NoTask = NoTask
  NoBox = NoBox
  NoKey = NoKey
  NoImage = NoImage
SYMMETRY Symmetry
SPECIFICATION Spec
CHECK_DEADLOCK FALSE
INVARIANTS OneSandboxPerKey KeysTrackAnswers
