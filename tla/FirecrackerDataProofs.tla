------------------------- MODULE FirecrackerDataProofs -------------------------
(***************************************************************************)
(* What the files, the memory and the VMM of a Firecracker sandbox have to *)
(* do with each other, for every number of guest writes and every set of   *)
(* faults: checkpoints are whole unless the file a restart found lagged    *)
(* behind memory, and while the server lives a guest runs on its own disk  *)
(* and keeps what was acknowledged.                                        *)
(***************************************************************************)
EXTENDS FirecrackerProofs

(* The files of a checkpoint are there and of one instant.                 *)
Whole == Complete /\ ckpt.dump.sees = ckpt.disk

(* A checkpoint is whole from the step that ends its capture until the     *)
(* next capture begins; what is captured is the disk of a frozen guest.    *)
Kept ==
  /\ dir => rootfs # 0
  /\ vmm \in {"running", "frozen"} => guest.ver # 0
  /\ ckpt.dump = NoGuest \/ ckpt.dump.ver # 0
  /\ pausedSnapshot /\ dir => Complete
  /\ state = "Creating" => ~pausedSnapshot
  /\ step \in {"clone", "load"} => pausedSnapshot
  /\ step \in {"freeze", "copy", "dump"} => guest.sees = rootfs
  /\ step = "dump" /\ op # "snapshot" => ckpt.disk = rootfs
  /\ step \in {"kill", "mark"} /\ op \in {"pause", "checkpoint"} => Whole
  /\ up /\ state = "Running" /\ ~running /\ op # "recover" /\ dir => Whole
  /\ state = "Paused" /\ dir /\ ~behind => Whole

(* While the server lives: a guest and its disk go together, and so do the *)
(* memory and the disk it is started from.                                 *)
Paired ==
  /\ up /\ op # "recover"
  /\ vmm \in {"running", "frozen"} => guest.sees = rootfs
  /\ pausedSnapshot /\ dir /\ ~running => Whole
  /\ step = "load" => rootfs = ckpt.disk
  /\ step \in {"clone", "load", "boot"} => vmm = "booting"

(* While the server lives: wherever a sandbox may be started from, what a  *)
(* client knows to be on its disk is there.                                *)
HasAcked == ckpt.dump.ver >= acked /\ ckpt.disk >= acked
NotOlder ==
  /\ acked <= written
  /\ state = "Creating" => acked = 0
  /\ dir => rootfs >= acked
  /\ vmm \in {"running", "frozen"} => guest.ver >= acked
  /\ pausedSnapshot /\ dir /\ ~running => HasAcked
  /\ step \in {"kill", "mark"} /\ op \in {"pause", "checkpoint"} => HasAcked
  /\ step = "dump" /\ op # "snapshot" => ckpt.disk >= acked

(* No step of a call, fault or guest leaves a checkpoint of two captures   *)
(* where a paused or checkpointed sandbox will look for it.                *)
LEMMA KeptStep == Inv /\ Kept /\ [Next]_vars => Kept'
  <1> SUFFICES ASSUME Inv, Kept, [Next]_vars PROVE Kept'
    OBVIOUS
  <1> USE DEF Inv, TypeOK, Versions, Guests, Flags, Guarded, Stage,
        Undone, Holds, From, Captures, Boots, Starts, Flagged, NoGuest, NoCheckpoint, Complete, Whole,
        Kept, files, flags, at, ghosts, world, To, Return
  <1>1. CASE Make
    BY <1>1 DEF Make
  <1>2. ASSUME NEW o \in DOMAIN From, Begin(o) PROVE Kept'
    BY <1>2 DEF Begin, First
  <1>3. CASE Spawn
    BY <1>3 DEF Spawn, LoadFrom
  <1>4. CASE CloneRootfs
    BY <1>4 DEF CloneRootfs
  <1>5. CASE LoadSnapshot
    BY <1>5 DEF LoadSnapshot
  <1>6. CASE ConfigureFresh
    BY <1>6 DEF ConfigureFresh
  <1>7. CASE BootstrapAgent
    BY <1>7 DEF BootstrapAgent
  <1>8. CASE Cleanup
    BY <1>8 DEF Cleanup, AfterError, RemoveDirectory
  <1>9. CASE Sync
    BY <1>9 DEF Sync
  <1>10. CASE Freeze
    BY <1>10 DEF Freeze, CapturedVmm
  <1>11. CASE CopyRootfs
    BY <1>11 DEF CopyRootfs
  <1>12. CASE DumpMemory
    BY <1>12 DEF DumpMemory, AfterDump
  <1>13. CASE Thaw
    BY <1>13 DEF Thaw
  <1>14. CASE Publish
    BY <1>14 DEF Publish
  <1>15. CASE Terminate
    BY <1>15 DEF Terminate
  <1>16. CASE Remove
    BY <1>16 DEF Remove, RemoveDirectory
  <1>17. CASE Mark
    BY <1>17 DEF Mark, AfterSuccess, SnapshotAfter
  <1>18. CASE NothingToDo
    BY <1>18 DEF NothingToDo, AfterSuccess
  <1>19. CASE Use
    BY <1>19 DEF Use
  <1>20. CASE StartFails
    BY <1>20 DEF StartFails
  <1>21. CASE BootFails
    BY <1>21 DEF BootFails, SpawnFails, AfterError
  <1>22. CASE CaptureFails
    BY <1>22 DEF CaptureFails
  <1>23. CASE RemoveFails
    BY <1>23 DEF RemoveFails
  <1>24. CASE UseFails
    BY <1>24 DEF UseFails
  <1>25. CASE RecoverFails
    BY <1>25 DEF RecoverFails, RemoveDirectory
  <1>26. CASE GuestWrites
    BY <1>26 DEF GuestWrites
  <1>27. CASE GuestFlushes
    BY <1>27 DEF GuestFlushes
  <1>28. CASE Cancel
    BY <1>28 DEF Cancel
  <1>29. CASE Crash
    BY <1>29 DEF Crash, ProcessEnds
  <1>30. CASE Exit
    BY <1>30 DEF Exit, ProcessEnds
  <1>31. CASE Recover
    BY <1>31 DEF Recover, Complete
  <1>32. CASE Save
    BY <1>32 DEF Save
  <1>33. CASE UNCHANGED vars
    BY <1>33 DEF vars
  <1> QED
    BY <1>1, <1>2, <1>3, <1>4, <1>5, <1>6, <1>7, <1>8, <1>9, <1>10, <1>11, <1>12,
       <1>13, <1>14, <1>15, <1>16, <1>17, <1>18, <1>19, <1>20, <1>21, <1>22,
       <1>23, <1>24, <1>25, <1>26, <1>27, <1>28, <1>29, <1>30, <1>31, <1>32,
       <1>33 DEF Next, Serve, Err

(* Checkpoints are whole in every reachable state.                         *)
LEMMA KeptInvariance == Spec => []Kept
  <1>1. Init => Kept
    BY DEF Init, Kept, NoCheckpoint, NoGuest, Whole, Complete
  <1>2. Inv /\ Kept /\ [Next]_vars => Kept'
    BY KeptStep
  <1> QED
    BY <1>1, <1>2, Invariance, PTL DEF Spec

(* The checkpoint of a paused sandbox is complete and its memory and disk  *)
(* are of one instant, whatever fails, is cancelled, crashes or exits: the *)
(* state says "Paused" only after capture_to() has ended, and the next     *)
(* capture needs a running one.  What it excepts is a restart from a file  *)
(* that says "Paused" of a sandbox that has been resumed.                  *)
THEOREM PausedCheckpointsAreWhole == Spec => []PausedIsWhole
  <1>1. Kept => PausedIsWhole
    BY DEF Kept, PausedIsWhole, Whole, Complete
  <1> QED
    BY <1>1, KeptInvariance, PTL

-----------------------------------------------------------------------------
(* What may go wrong is chosen with the behaviour.                         *)
LEMMA FaultsAreGiven == [Next]_vars => faults' = faults
  BY DEF Next, Serve, Err, vars, world, Make, Begin, Spawn, CloneRootfs, LoadSnapshot,
     ConfigureFresh, BootstrapAgent, Cleanup, Sync, Freeze, CopyRootfs, DumpMemory, Thaw,
     Publish, Terminate, Remove, Mark, NothingToDo, Use, StartFails, BootFails, CaptureFails,
     RemoveFails, UseFails, RecoverFails, GuestWrites, GuestFlushes, Cancel, Save, Crash, Exit,
     ProcessEnds, Recover

(* Within one life of the server no step puts a guest on another disk.     *)
LEMMA PairedStep ==
    ASSUME ServerLives
    PROVE  Inv /\ Kept /\ Paired /\ [Next]_vars => Paired'
  <1> SUFFICES ASSUME Inv, Kept, Paired, [Next]_vars PROVE Paired'
    OBVIOUS
  <1> USE DEF Inv, TypeOK, Versions, Guests, Flags, Guarded, Stage,
        Undone, Holds, From, Captures, Boots, Starts, Flagged, NoGuest, NoCheckpoint, Complete, Whole,
        Kept, files, flags, at, ghosts, world, To, Return, ServerLives, Paired
  <1>1. CASE Make
    BY <1>1 DEF Make
  <1>2. ASSUME NEW o \in DOMAIN From, Begin(o) PROVE Paired'
    BY <1>2 DEF Begin, First
  <1>3. CASE Spawn
    BY <1>3 DEF Spawn, LoadFrom
  <1>4. CASE CloneRootfs
    BY <1>4 DEF CloneRootfs
  <1>5. CASE LoadSnapshot
    BY <1>5 DEF LoadSnapshot
  <1>6. CASE ConfigureFresh
    BY <1>6 DEF ConfigureFresh
  <1>7. CASE BootstrapAgent
    BY <1>7 DEF BootstrapAgent
  <1>8. CASE Cleanup
    BY <1>8 DEF Cleanup, AfterError, RemoveDirectory
  <1>9. CASE Sync
    BY <1>9 DEF Sync
  <1>10. CASE Freeze
    BY <1>10 DEF Freeze, CapturedVmm
  <1>11. CASE CopyRootfs
    BY <1>11 DEF CopyRootfs
  <1>12. CASE DumpMemory
    BY <1>12 DEF DumpMemory, AfterDump
  <1>13. CASE Thaw
    BY <1>13 DEF Thaw
  <1>14. CASE Publish
    BY <1>14 DEF Publish
  <1>15. CASE Terminate
    BY <1>15 DEF Terminate
  <1>16. CASE Remove
    BY <1>16 DEF Remove, RemoveDirectory
  <1>17. CASE Mark
    BY <1>17 DEF Mark, AfterSuccess, SnapshotAfter
  <1>18. CASE NothingToDo
    BY <1>18 DEF NothingToDo, AfterSuccess
  <1>19. CASE Use
    BY <1>19 DEF Use
  <1>20. CASE StartFails
    BY <1>20 DEF StartFails
  <1>21. CASE BootFails
    BY <1>21 DEF BootFails, SpawnFails, AfterError
  <1>22. CASE CaptureFails
    BY <1>22 DEF CaptureFails
  <1>23. CASE RemoveFails
    BY <1>23 DEF RemoveFails
  <1>24. CASE UseFails
    BY <1>24 DEF UseFails
  <1>25. CASE RecoverFails
    BY <1>25 DEF RecoverFails, RemoveDirectory
  <1>26. CASE GuestWrites
    BY <1>26 DEF GuestWrites
  <1>27. CASE GuestFlushes
    BY <1>27 DEF GuestFlushes
  <1>28. CASE Cancel
    BY <1>28 DEF Cancel
  <1>29. CASE Crash
    BY <1>29 DEF Crash, ProcessEnds
  <1>30. CASE Exit
    BY <1>30 DEF Exit, ProcessEnds
  <1>31. CASE Recover
    BY <1>31 DEF Recover, Complete
  <1>32. CASE Save
    BY <1>32 DEF Save
  <1>33. CASE UNCHANGED vars
    BY <1>33 DEF vars
  <1> QED
    BY <1>1, <1>2, <1>3, <1>4, <1>5, <1>6, <1>7, <1>8, <1>9, <1>10, <1>11, <1>12,
       <1>13, <1>14, <1>15, <1>16, <1>17, <1>18, <1>19, <1>20, <1>21, <1>22,
       <1>23, <1>24, <1>25, <1>26, <1>27, <1>28, <1>29, <1>30, <1>31, <1>32,
       <1>33 DEF Next, Serve, Err

(* Within one life of the server guest and disk go together.               *)
LEMMA PairedInvariance == Spec => [](ServerLives => Paired)
  <1>1. Init => (ServerLives => Paired)
    BY DEF Init, Paired, Whole, Complete
  <1>2. Inv /\ Kept /\ (ServerLives => Paired) /\ [Next]_vars => (ServerLives => Paired)'
    BY PairedStep, FaultsAreGiven DEF ServerLives
  <1> QED
    BY <1>1, <1>2, Invariance, KeptInvariance, PTL DEF Spec

(* Where calls fail and are dropped but the server lives, a guest never    *)
(* runs on a disk other than the one its memory goes with: load_snapshot() *)
(* clones the checkpoint's disk before the memory that belongs to it.      *)
THEOREM GuestsRunOnTheirDisk == Spec => []GuestMatchesDisk
  <1>1. (ServerLives => Paired) => GuestMatchesDisk
    BY DEF Paired, GuestMatchesDisk
  <1> QED
    BY <1>1, PairedInvariance, PTL

(* Within one life of the server no step goes back behind an acknowledged  *)
(* write.                                                                  *)
LEMMA NotOlderStep ==
    ASSUME ServerLives
    PROVE  Inv /\ Kept /\ Paired /\ NotOlder /\ [Next]_vars => NotOlder'
  <1> SUFFICES ASSUME Inv, Kept, Paired, NotOlder, [Next]_vars PROVE NotOlder'
    OBVIOUS
  <1> USE DEF Inv, TypeOK, Versions, Guests, Flags, Guarded, Stage,
        Undone, Holds, From, Captures, Boots, Starts, Flagged, NoGuest, NoCheckpoint, Complete, Whole,
        Kept, files, flags, at, ghosts, world, To, Return, ServerLives, Paired, HasAcked, NotOlder
  <1>1. CASE Make
    BY <1>1 DEF Make
  <1>2. ASSUME NEW o \in DOMAIN From, Begin(o) PROVE NotOlder'
    BY <1>2 DEF Begin, First
  <1>3. CASE Spawn
    BY <1>3 DEF Spawn, LoadFrom
  <1>4. CASE CloneRootfs
    BY <1>4 DEF CloneRootfs
  <1>5. CASE LoadSnapshot
    BY <1>5 DEF LoadSnapshot
  <1>6. CASE ConfigureFresh
    BY <1>6 DEF ConfigureFresh
  <1>7. CASE BootstrapAgent
    BY <1>7 DEF BootstrapAgent
  <1>8. CASE Cleanup
    BY <1>8 DEF Cleanup, AfterError, RemoveDirectory
  <1>9. CASE Sync
    BY <1>9 DEF Sync
  <1>10. CASE Freeze
    BY <1>10 DEF Freeze, CapturedVmm
  <1>11. CASE CopyRootfs
    BY <1>11 DEF CopyRootfs
  <1>12. CASE DumpMemory
    BY <1>12 DEF DumpMemory, AfterDump
  <1>13. CASE Thaw
    BY <1>13 DEF Thaw
  <1>14. CASE Publish
    BY <1>14 DEF Publish
  <1>15. CASE Terminate
    BY <1>15 DEF Terminate
  <1>16. CASE Remove
    BY <1>16 DEF Remove, RemoveDirectory
  <1>17. CASE Mark
    BY <1>17 DEF Mark, AfterSuccess, SnapshotAfter
  <1>18. CASE NothingToDo
    BY <1>18 DEF NothingToDo, AfterSuccess
  <1>19. CASE Use
    BY <1>19 DEF Use
  <1>20. CASE StartFails
    BY <1>20 DEF StartFails
  <1>21. CASE BootFails
    BY <1>21 DEF BootFails, SpawnFails, AfterError
  <1>22. CASE CaptureFails
    BY <1>22 DEF CaptureFails
  <1>23. CASE RemoveFails
    BY <1>23 DEF RemoveFails
  <1>24. CASE UseFails
    BY <1>24 DEF UseFails
  <1>25. CASE RecoverFails
    BY <1>25 DEF RecoverFails, RemoveDirectory
  <1>26. CASE GuestWrites
    BY <1>26 DEF GuestWrites
  <1>27. CASE GuestFlushes
    BY <1>27 DEF GuestFlushes
  <1>28. CASE Cancel
    BY <1>28 DEF Cancel
  <1>29. CASE Crash
    BY <1>29 DEF Crash, ProcessEnds
  <1>30. CASE Exit
    BY <1>30 DEF Exit, ProcessEnds
  <1>31. CASE Recover
    BY <1>31 DEF Recover, Complete
  <1>32. CASE Save
    BY <1>32 DEF Save
  <1>33. CASE UNCHANGED vars
    BY <1>33 DEF vars
  <1> QED
    BY <1>1, <1>2, <1>3, <1>4, <1>5, <1>6, <1>7, <1>8, <1>9, <1>10, <1>11, <1>12,
       <1>13, <1>14, <1>15, <1>16, <1>17, <1>18, <1>19, <1>20, <1>21, <1>22,
       <1>23, <1>24, <1>25, <1>26, <1>27, <1>28, <1>29, <1>30, <1>31, <1>32,
       <1>33 DEF Next, Serve, Err

(* Where calls fail and are dropped but the server lives, what a client    *)
(* synced to its disk is there whenever its guest runs, through every      *)
(* sequence of pause, resume, stop, start, snapshot and checkpoint.        *)
THEOREM AcknowledgedWritesSurvive == Spec => []AckedWritesSurvive
  <1>1. Init => (ServerLives => NotOlder)
    BY BackendAssumption DEF Init, NotOlder, HasAcked, Versions
  <1>2. /\ Inv /\ Kept /\ (ServerLives => Paired) /\ (ServerLives => NotOlder)
        /\ [Next]_vars
        => (ServerLives => NotOlder)'
    BY NotOlderStep, FaultsAreGiven DEF ServerLives
  <1>3. (ServerLives => NotOlder) => AckedWritesSurvive
    BY DEF NotOlder, AckedWritesSurvive, ContentsSurvive
  <1> QED
    BY <1>1, <1>2, <1>3, Invariance, KeptInvariance, PairedInvariance, PTL DEF Spec

=============================================================================
