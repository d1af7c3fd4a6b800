CONSTANTS
  Clients = {c1, c2}
  Reaper = reaper
  Shutdown = shutdown
  Daemons = {}
  Sandboxes = {s1, s2}
  Snapshots = {n1}
  Keys = {k1}
  WithSecrets = {}
  DestroyOnIdle = {}
  RecordOps = {"use"}
  Faults = {"crash"}
  NoTask = NoTask
  NoBox = NoBox
  NoKey = NoKey
  NoImage = NoImage
SYMMETRY Symmetry
SPECIFICATION Spec
CHECK_DEADLOCK FALSE
INVARIANT OneSandboxPerKey
