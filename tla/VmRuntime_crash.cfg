CONSTANTS
  Clients = {c1, c2}
  Reaper = reaper
  Shutdown = shutdown
  Daemons = {}
  Sandboxes = {s1, s2}
  Snapshots = {n1}
  Keys = {}
  WithSecrets = {s2}
  DestroyOnIdle = {}
  RecordOps = {"destroy", "start", "stop", "snapshot"}
  Faults = {"crash", "backend"}
  NoTask = NoTask
  NoBox = NoBox
  NoKey = NoKey
  NoImage = NoImage
SYMMETRY Symmetry
SPECIFICATION Spec
CHECK_DEADLOCK FALSE
INVARIANTS DurableTracksAnswers AnsweredIsSaved RunningHasFlag DestroyedIsLeftAlone
PROPERTY ImplementsLifecycle
