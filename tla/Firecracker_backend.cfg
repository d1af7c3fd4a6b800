CONSTANTS
  MaxWrites = 4
  Regimes = {{"error", "cancel"}, {"crash", "exit"}, {"error", "cancel", "crash", "exit"}}
SPECIFICATION FairSpec
CHECK_DEADLOCK FALSE
INVARIANTS TypeOK AckedWritesSurvive GuestMatchesDisk PausedIsWhole
PROPERTIES CallsReturn ImplementsContract
