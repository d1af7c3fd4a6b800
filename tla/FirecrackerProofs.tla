--------------------------- MODULE FirecrackerProofs ---------------------------
(***************************************************************************)
(* The Firecracker backend implements the contract of SandboxBackend, for  *)
(* every number of guest writes and every set of faults.  The inductive    *)
(* invariant says, for each step of a call, which call it belongs to and   *)
(* what the backend held when that call began.                             *)
(***************************************************************************)
EXTENDS FirecrackerBackend, TLAPS

(* What the server's view of the sandbox, its flag and its VMM have to do  *)
(* with each other, between calls and within them.                         *)
Flags ==
  /\ ~dir => vmm = "none"
  /\ running => state = "Running"
  /\ state = "Running" /\ ~running /\ op # "recover" => vmm = "none"
  /\ ~up => op = "none" /\ ~running /\ vmm = "none"
  /\ op = "none" <=> step = "none"

(* The state of the record stays what the guard of the call found.         *)
Guarded ==
  /\ op = "recover" => state = "Running"
  /\ op \in DOMAIN From => state \in From[op]
  /\ op = "create" => dir
  /\ op = "none" => before = "absent"

(* A call that stops or destroys: what it found is still to be seen in     *)
(* directory and flag once its VMM is gone.                                *)
Undone ==
  before \in (IF ~dir THEN {"absent"} ELSE IF running THEN Flagged ELSE {"idle", "stray"})

(* Each step, with the call it belongs to and what that call began on.     *)
Stage ==
  /\ step \in {"spawn", "clone", "load", "boot", "ready", "clean"} =>
       /\ op \in Boots /\ ~running
       /\ before \in (IF dir THEN {"idle", "stray"} ELSE {"absent"})
  /\ step \in {"clone", "load", "boot", "ready", "clean"} => dir
  /\ step = "clean" => vmm = "none"
  /\ step = "ready" => vmm = "running"
  /\ step = "done" => op \in {"pause", "checkpoint"} /\ ~running /\ before = Holds
  /\ step = "sync" => op \in Captures /\ running /\ before = Holds
  /\ step \in {"freeze", "copy", "dump", "thaw", "publish"} =>
       op \in Captures /\ running /\ dir /\ before = "running"
  /\ step \in {"freeze", "publish"} => vmm = "running"
  /\ step \in {"copy", "dump", "thaw"} => vmm = "frozen"
  /\ step \in {"thaw", "publish"} => op = "snapshot"
  /\ step = "refuse" => op = "snapshot" /\ ~running /\ before = Holds
  /\ step = "kill" =>
       \/ /\ op \in {"pause", "checkpoint"} /\ running /\ dir
          /\ vmm = "frozen" /\ before = "running"
       \/ op \in {"stop", "destroy"} /\ before = Holds
  /\ step = "remove" => op = "destroy" /\ vmm = "none" /\ Undone
  /\ step = "mark" =>
       /\ vmm = "none"
       /\ \/ op \in {"pause", "checkpoint"} /\ running /\ dir /\ before = "running"
          \/ op = "stop" /\ Undone
          \/ op = "destroy" /\ ~dir /\ before # "absent"
  /\ step = "ask" => op = "use" /\ before = Holds

Inv == TypeOK /\ Flags /\ Guarded /\ Stage

-----------------------------------------------------------------------------
(* The contents of a missing guest and of a missing checkpoint have the    *)
(* types of the others.                                                    *)
LEMMA Blanks ==
    0 \in Versions /\ NoGuest \in Guests /\ NoCheckpoint \in [disk : Versions, dump : Guests]
  BY BackendAssumption DEF NoGuest, NoCheckpoint, Guests, Versions

(* Every step of every call keeps the variables within their types: no     *)
(* call is left at a step it does not have.                                *)
LEMMA TypeStep == TypeOK /\ [Next]_vars => TypeOK'
  <1> SUFFICES ASSUME TypeOK, [Next]_vars PROVE TypeOK'
    OBVIOUS
  <1> USE DEF TypeOK, Guests, From, Backends,
        Boots, Starts, Flagged, files, flags, at, ghosts, world, To, Return
  <1>1. CASE Make
    BY <1>1, Blanks, BackendAssumption DEF Make, Versions
  <1>2. ASSUME NEW o \in DOMAIN From, Begin(o) PROVE TypeOK'
    BY <1>2 DEF Begin, First, Holds
  <1>3. CASE Spawn
    BY <1>3, Blanks DEF Spawn, LoadFrom
  <1>4. CASE CloneRootfs
    BY <1>4 DEF CloneRootfs
  <1>5. CASE LoadSnapshot
    BY <1>5 DEF LoadSnapshot
  <1>6. CASE ConfigureFresh
    BY <1>6 DEF ConfigureFresh
  <1>7. CASE BootstrapAgent
    BY <1>7 DEF BootstrapAgent
  <1>8. CASE Cleanup
    <2>1. ckpt' \in [disk : Versions, dump : Guests]
      BY ONLY <1>8, Blanks, TypeOK DEF Cleanup, RemoveDirectory, TypeOK, files
    <2>2. dir' \in BOOLEAN /\ rootfs' \in Versions
      BY ONLY <1>8, Blanks, TypeOK DEF Cleanup, RemoveDirectory, TypeOK, files
    <2> QED
      BY <1>8, <2>1, <2>2, Blanks DEF Cleanup, AfterError
  <1>9. CASE Sync
    BY <1>9 DEF Sync
  <1>10. CASE Freeze
    BY <1>10 DEF Freeze, CapturedVmm
  <1>11. CASE CopyRootfs
    BY <1>11 DEF CopyRootfs
  <1>12. CASE DumpMemory
    BY <1>12 DEF DumpMemory, AfterDump
  <1>13. CASE Thaw
    BY <1>13 DEF Thaw
  <1>14. CASE Publish
    BY <1>14 DEF Publish
  <1>15. CASE Terminate
    BY <1>15, Blanks DEF Terminate
  <1>16. CASE Remove
    <2>1. ckpt' \in [disk : Versions, dump : Guests]
      BY ONLY <1>16, Blanks, TypeOK DEF Remove, RemoveDirectory, TypeOK, files
    <2>2. dir' \in BOOLEAN /\ rootfs' \in Versions
      BY ONLY <1>16, Blanks, TypeOK DEF Remove, RemoveDirectory, TypeOK, files
    <2> QED
      BY <1>16, <2>1, <2>2, Blanks DEF Remove
  <1>17. CASE Mark
    BY <1>17 DEF Mark, AfterSuccess, SnapshotAfter
  <1>18. CASE NothingToDo
    BY <1>18 DEF NothingToDo, AfterSuccess
  <1>19. CASE Use
    BY <1>19, Blanks, BackendAssumption DEF Use, Versions
  <1>20. CASE StartFails
    BY <1>20, Blanks DEF StartFails
  <1>21. CASE BootFails
    BY <1>21, Blanks DEF BootFails, SpawnFails, AfterError
  <1>22. CASE CaptureFails
    BY <1>22 DEF CaptureFails
  <1>23. CASE RemoveFails
    BY <1>23 DEF RemoveFails
  <1>24. CASE UseFails
    BY <1>24 DEF UseFails
  <1>25. CASE RecoverFails
    <2>1. ckpt' \in [disk : Versions, dump : Guests]
      BY ONLY <1>25, Blanks, TypeOK DEF RecoverFails, RemoveDirectory, TypeOK,
         files
    <2>2. dir' \in BOOLEAN /\ rootfs' \in Versions
      BY ONLY <1>25, Blanks, TypeOK DEF RecoverFails, RemoveDirectory, TypeOK,
         files
    <2> QED
      BY <1>25, <2>1, <2>2, Blanks DEF RecoverFails
  <1>26. CASE GuestWrites
    BY <1>26, Blanks, BackendAssumption DEF GuestWrites, Versions
  <1>27. CASE GuestFlushes
    BY <1>27 DEF GuestFlushes
  <1>28. CASE Cancel
    BY <1>28 DEF Cancel
  <1>29. CASE Crash
    BY <1>29, Blanks DEF Crash, ProcessEnds
  <1>30. CASE Exit
    BY <1>30, Blanks DEF Exit, ProcessEnds
  <1>31. CASE Recover
    BY <1>31 DEF Recover, Holds, Complete
  <1>32. CASE Save
    BY <1>32 DEF Save
  <1>33. CASE UNCHANGED vars
    BY <1>33 DEF vars
  <1> QED
    BY <1>1, <1>2, <1>3, <1>4, <1>5, <1>6, <1>7, <1>8, <1>9, <1>10, <1>11,
       <1>12, <1>13, <1>14, <1>15, <1>16, <1>17, <1>18, <1>19, <1>20, <1>21,
       <1>22, <1>23, <1>24, <1>25, <1>26, <1>27, <1>28, <1>29, <1>30, <1>31,
       <1>32, <1>33 DEF Next, Serve, Err

(* A step of a call keeps what that call began on in sight: the record's   *)
(* state, the flag and the directory still say it when the call returns.   *)
LEMMA StageStep == Inv /\ [Next]_vars => (Flags /\ Guarded /\ Stage)'
  <1> SUFFICES ASSUME Inv, [Next]_vars PROVE (Flags /\ Guarded /\ Stage)'
    OBVIOUS
  <1> USE DEF Inv, TypeOK, Flags, Guarded, Stage, Undone, Holds, From, Captures,
        Boots, Starts, Flagged, files, flags, at, ghosts, world, To, Return
  <1>1. CASE Make
    BY <1>1 DEF Make
  <1>2. ASSUME NEW o \in DOMAIN From, Begin(o) PROVE (Flags /\ Guarded /\ Stage)'
    BY <1>2 DEF Begin, First
  <1>3. CASE Spawn
    BY <1>3 DEF Spawn, LoadFrom
  <1>4. CASE CloneRootfs
    BY <1>4 DEF CloneRootfs
  <1>5. CASE LoadSnapshot
    BY <1>5 DEF LoadSnapshot
  <1>6. CASE ConfigureFresh
    BY <1>6 DEF ConfigureFresh
  <1>7. CASE BootstrapAgent
    BY <1>7 DEF BootstrapAgent
  <1>8. CASE Cleanup
    BY <1>8 DEF Cleanup, AfterError, RemoveDirectory
  <1>9. CASE Sync
    BY <1>9 DEF Sync
  <1>10. CASE Freeze
    BY <1>10 DEF Freeze, CapturedVmm
  <1>11. CASE CopyRootfs
    BY <1>11 DEF CopyRootfs
  <1>12. CASE DumpMemory
    BY <1>12 DEF DumpMemory, AfterDump
  <1>13. CASE Thaw
    BY <1>13 DEF Thaw
  <1>14. CASE Publish
    BY <1>14 DEF Publish
  <1>15. CASE Terminate
    BY <1>15 DEF Terminate
  <1>16. CASE Remove
    BY <1>16 DEF Remove, RemoveDirectory
  <1>17. CASE Mark
    BY <1>17 DEF Mark, AfterSuccess, SnapshotAfter
  <1>18. CASE NothingToDo
    BY <1>18 DEF NothingToDo, AfterSuccess
  <1>19. CASE Use
    BY <1>19 DEF Use
  <1>20. CASE StartFails
    BY <1>20 DEF StartFails
  <1>21. CASE BootFails
    BY <1>21 DEF BootFails, SpawnFails, AfterError
  <1>22. CASE CaptureFails
    BY <1>22 DEF CaptureFails
  <1>23. CASE RemoveFails
    BY <1>23 DEF RemoveFails
  <1>24. CASE UseFails
    BY <1>24 DEF UseFails
  <1>25. CASE RecoverFails
    BY <1>25 DEF RecoverFails, RemoveDirectory
  <1>26. CASE GuestWrites
    BY <1>26 DEF GuestWrites
  <1>27. CASE GuestFlushes
    BY <1>27 DEF GuestFlushes
  <1>28. CASE Cancel
    BY <1>28 DEF Cancel
  <1>29. CASE Crash
    BY <1>29 DEF Crash, ProcessEnds
  <1>30. CASE Exit
    BY <1>30 DEF Exit, ProcessEnds
  <1>31. CASE Recover
    BY <1>31 DEF Recover, Complete
  <1>32. CASE Save
    BY <1>32 DEF Save
  <1>33. CASE UNCHANGED vars
    BY <1>33 DEF vars
  <1> QED
    BY <1>1, <1>2, <1>3, <1>4, <1>5, <1>6, <1>7, <1>8, <1>9, <1>10, <1>11,
       <1>12, <1>13, <1>14, <1>15, <1>16, <1>17, <1>18, <1>19, <1>20, <1>21,
       <1>22, <1>23, <1>24, <1>25, <1>26, <1>27, <1>28, <1>29, <1>30, <1>31,
       <1>32, <1>33 DEF Next, Serve, Err

(* The invariant holds of every reachable state.                           *)
LEMMA Invariance == Spec => []Inv
  <1>1. Init => Inv
    BY Blanks DEF Init, Inv, TypeOK, Flags, Guarded, Stage, From, Backends
  <1>2. Inv /\ [Next]_vars => Inv'
    BY TypeStep, StageStep DEF Inv
  <1> QED
    BY <1>1, <1>2, PTL DEF Spec

(* The types of the backend's state hold for every number of writes and    *)
(* every set of faults.                                                    *)
THEOREM BackendTypeCorrect == Spec => []TypeOK
  <1>1. Inv => TypeOK
    BY DEF Inv
  <1> QED
    BY <1>1, Invariance, PTL

-----------------------------------------------------------------------------
(* Every step of the backend is a step of the contract, or one the caller  *)
(* cannot see: a call takes effect when it returns.                        *)
LEMMA ContractStep == Inv /\ [Next]_vars => [Contract!Next]_(Contract!vars)
  <1> SUFFICES ASSUME Inv, [Next]_vars PROVE [Contract!Next]_(Contract!vars)
    OBVIOUS
  <1> USE DEF Inv, TypeOK, Flags, Guarded, Stage, Undone, Holds, From, Captures,
        Boots, Starts, Flagged, files, flags, at, ghosts, world, To, Return
  <1>1. CASE Make
    <2>1. Contract!Make
      BY <1>1 DEF Make,
         Contract!Make
    <2> QED
      BY <2>1 DEF Contract!Next
  <1>2. ASSUME NEW o \in DOMAIN From, Begin(o) PROVE [Contract!Next]_(Contract!vars)
    <2>1. Contract!Begin
      BY <1>2 DEF Begin, First,
         Contract!Begin, Contract!Calls, Contract!Starts
    <2> QED
      BY <2>1 DEF Contract!Next
  <1>3. CASE Spawn
    BY <1>3 DEF Spawn, LoadFrom, Contract!vars
  <1>4. CASE CloneRootfs
    BY <1>4 DEF CloneRootfs, Contract!vars
  <1>5. CASE LoadSnapshot
    BY <1>5 DEF LoadSnapshot, Contract!vars
  <1>6. CASE ConfigureFresh
    BY <1>6 DEF ConfigureFresh, Contract!vars
  <1>7. CASE BootstrapAgent
    <2>1. Contract!Succeed
      BY <1>7 DEF BootstrapAgent,
         Contract!Succeed, Contract!Return, Contract!Serves, Contract!After,
         Contract!Starts, Contract!Flagged
    <2> QED
      BY <2>1 DEF Contract!Next
  <1>8. CASE Cleanup
    <2>1. Contract!Fail
      BY <1>8 DEF Cleanup, AfterError, RemoveDirectory,
         Contract!Fail, Contract!Return, Contract!CanBreak, Contract!Broken,
         Contract!Starts, Contract!Flagged
    <2> QED
      BY <2>1 DEF Contract!Next
  <1>9. CASE Sync
    BY <1>9 DEF Sync, Contract!vars
  <1>10. CASE Freeze
    BY <1>10 DEF Freeze, CapturedVmm, Contract!vars
  <1>11. CASE CopyRootfs
    BY <1>11 DEF CopyRootfs, Contract!vars
  <1>12. CASE DumpMemory
    BY <1>12 DEF DumpMemory, AfterDump, Contract!vars
  <1>13. CASE Thaw
    BY <1>13 DEF Thaw, Contract!vars
  <1>14. CASE Publish
    <2>1. Contract!Succeed
      BY <1>14 DEF Publish,
         Contract!Succeed, Contract!Return, Contract!Serves, Contract!After,
         Contract!Starts, Contract!Flagged
    <2> QED
      BY <2>1 DEF Contract!Next
  <1>15. CASE Terminate
    BY <1>15 DEF Terminate, Contract!vars
  <1>16. CASE Remove
    BY <1>16 DEF Remove, RemoveDirectory, Contract!vars
  <1>17. CASE Mark
    <2>1. Contract!Succeed
      BY <1>17 DEF Mark, AfterSuccess, SnapshotAfter,
         Contract!Succeed, Contract!Return, Contract!Serves, Contract!After,
         Contract!Starts, Contract!Flagged
    <2> QED
      BY <2>1 DEF Contract!Next
  <1>18. CASE NothingToDo
    <2>1. Contract!Succeed
      BY <1>18 DEF NothingToDo, AfterSuccess,
         Contract!Succeed, Contract!Return, Contract!Serves, Contract!After,
         Contract!Starts, Contract!Flagged
    <2> QED
      BY <2>1 DEF Contract!Next
  <1>19. CASE Use
    <2>1. Contract!Succeed
      BY <1>19 DEF Use,
         Contract!Succeed, Contract!Return, Contract!Serves, Contract!After,
         Contract!Starts, Contract!Flagged
    <2> QED
      BY <2>1 DEF Contract!Next
  <1>20. CASE StartFails
    BY <1>20 DEF StartFails, Contract!vars
  <1>21. CASE BootFails
    <2>1. Contract!Fail
      BY <1>21 DEF BootFails, SpawnFails, AfterError,
         Contract!Fail, Contract!Return, Contract!CanBreak, Contract!Broken,
         Contract!Starts, Contract!Flagged
    <2> QED
      BY <2>1 DEF Contract!Next
  <1>22. CASE CaptureFails
    <2>1. op \in Captures /\ op' = "none" /\ outcome' = "error" /\ Holds' = Holds
      BY <1>22 DEF CaptureFails
    <2>2. op = "snapshot" \/ before \notin {"idle", "stray"}
      BY <1>22 DEF CaptureFails
    <2>3. before = Holds \/ (before = "running" /\ Holds \in {"running", "frozen"})
      BY <1>22 DEF CaptureFails
    <2>4. Contract!CanBreak(op, before) /\ Holds \in Contract!Broken(op, before)
      BY ONLY <2>1, <2>2, <2>3 DEF Captures, Contract!CanBreak, Contract!Broken,
         Contract!Starts, Contract!Flagged
    <2>5. Contract!Fail
      BY ONLY <2>1, <2>4 DEF Captures, Contract!Fail, Contract!Return
    <2> QED
      BY <2>5 DEF Contract!Next
  <1>23. CASE RemoveFails
    <2>1. Contract!Fail
      BY <1>23 DEF RemoveFails,
         Contract!Fail, Contract!Return, Contract!CanBreak, Contract!Broken,
         Contract!Starts, Contract!Flagged
    <2> QED
      BY <2>1 DEF Contract!Next
  <1>24. CASE UseFails
    <2>1. Contract!Fail
      BY <1>24 DEF UseFails,
         Contract!Fail, Contract!Return, Contract!CanBreak, Contract!Broken,
         Contract!Starts, Contract!Flagged
    <2> QED
      BY <2>1 DEF Contract!Next
  <1>25. CASE RecoverFails
    <2>1. Contract!Drop
      BY <1>25 DEF RecoverFails, RemoveDirectory,
         Contract!Drop, Contract!Return, Contract!Interrupted, Contract!Broken,
         Contract!Starts, Contract!Flagged
    <2> QED
      BY <2>1 DEF Contract!Next
  <1>26. CASE GuestWrites
    BY <1>26 DEF GuestWrites, Contract!vars
  <1>27. CASE GuestFlushes
    BY <1>27 DEF GuestFlushes, Contract!vars
  <1>28. CASE Cancel
    <2>1. op \in DOMAIN From /\ op' = "none" /\ outcome' = "none" /\ Holds' = Holds
      BY <1>28 DEF Cancel
    <2>2. Holds \in Interrupted(op, before)
      <3>1. CASE step \in {"spawn", "clone", "load", "boot", "ready", "clean"}
        <4>1. op \in Starts
          BY <1>28, <3>1 DEF Cancel
        <4>2. \/ before = "absent" /\ Holds = "absent"
              \/ before \in {"idle", "stray"} /\ Holds \in {"idle", "stray"}
          BY ONLY <3>1, Stage, running \in BOOLEAN DEF Stage, Holds
        <4> QED
          BY ONLY <4>1, <4>2 DEF Interrupted, Broken, Starts
      <3>2. CASE step \in {"freeze", "copy", "dump", "thaw", "publish"}
        <4>1. before = "running" /\ Holds \in {"running", "frozen"}
          BY <3>2
        <4>2. op \in Captures
          BY <3>2
        <4> QED
          BY ONLY <4>1, <4>2 DEF Interrupted, Broken, Captures, Starts
      <3>3. CASE step \in {"kill", "remove", "mark"}
        <4>1. CASE step = "kill"
          <5>1. \/ before = Holds
                \/ op \in {"pause", "checkpoint"} /\ before = "running" /\ Holds = "frozen"
            BY <4>1
          <5> QED
            BY ONLY <5>1 DEF Interrupted, Broken, Starts
        <4>2. CASE step \in {"remove", "mark"} /\ op \in {"stop", "destroy"} /\ Undone
          <5>1. vmm = "none"
            BY <4>2
          <5>2. \/ before = "absent" /\ Holds = "absent"
                \/ before \in Flagged /\ Holds = "dead"
                \/ before \in {"idle", "stray"} /\ Holds = "idle"
            BY ONLY <4>2, <5>1, running \in BOOLEAN DEF Undone, Holds
          <5> QED
            BY ONLY <4>2, <5>2 DEF Interrupted, Broken, Starts, Flagged
        <4>3. CASE step = "mark" /\ op \in {"pause", "checkpoint"}
          <5>1. before = "running" /\ Holds = "dead"
            BY <4>3
          <5> QED
            BY ONLY <4>3, <5>1 DEF Interrupted, Flagged
        <4>4. CASE step = "mark" /\ op = "destroy" /\ ~dir
          BY ONLY <4>4 DEF Interrupted, Holds
        <4> QED
          BY <3>3, <4>1, <4>2, <4>3, <4>4
      <3>4. CASE step \in {"done", "refuse", "ask", "sync"}
        <4>1. before = Holds
          BY <3>4
        <4> QED
          BY ONLY <4>1 DEF Interrupted
      <3> QED
        BY <1>28, <3>1, <3>2, <3>3, <3>4 DEF Cancel
    <2>3. Contract!Interrupted(op, before) = Interrupted(op, before)
      BY ONLY TRUE DEF Contract!Interrupted, Interrupted, Contract!Broken, Broken,
         Contract!Starts, Contract!Flagged, Starts, Flagged
    <2>4. Contract!Drop
      BY ONLY <2>1, <2>2, <2>3 DEF From, Contract!Drop, Contract!Return
    <2> QED
      BY <2>4 DEF Contract!Next
  <1>29. CASE Crash
    <2>1. Contract!ProcessEnds
      BY <1>29 DEF Crash, ProcessEnds,
         Contract!ProcessEnds, Contract!Return, Contract!Orphaned,
         Contract!Interrupted, Contract!Broken, Contract!Starts, Contract!Flagged
    <2> QED
      BY <2>1 DEF Contract!Next
  <1>30. CASE Exit
    <2>1. Contract!ProcessEnds
      BY <1>30 DEF Exit, ProcessEnds,
         Contract!ProcessEnds, Contract!Return, Contract!Orphaned,
         Contract!Interrupted, Contract!Broken, Contract!Starts, Contract!Flagged
    <2> QED
      BY <2>1 DEF Contract!Next
  <1>31. CASE Recover
    <2>1. CASE saved = "Running"
      <3>1. Contract!Begin
        BY <1>31, <2>1 DEF Recover, Complete, Contract!Begin, Contract!Calls,
           Contract!Starts
      <3> QED
        BY <3>1 DEF Contract!Next
    <2>2. CASE saved # "Running"
      BY <1>31, <2>2 DEF Recover, Complete, Contract!vars
    <2> QED
      BY <2>1, <2>2
  <1>32. CASE Save
    BY <1>32 DEF Save, Contract!vars
  <1>33. CASE UNCHANGED vars
    BY <1>33 DEF vars, Contract!vars
  <1> QED
    BY <1>1, <1>2, <1>3, <1>4, <1>5, <1>6, <1>7, <1>8, <1>9, <1>10, <1>11,
       <1>12, <1>13, <1>14, <1>15, <1>16, <1>17, <1>18, <1>19, <1>20, <1>21,
       <1>22, <1>23, <1>24, <1>25, <1>26, <1>27, <1>28, <1>29, <1>30, <1>31,
       <1>32, <1>33 DEF Next, Serve, Err

(* The backend keeps the contract the control plane is written against,    *)
(* whatever fails, is cancelled or crashes between two of its steps.       *)
THEOREM FirecrackerImplementsContract == Spec => ImplementsContract
  <1>1. Init => Contract!Init
    BY DEF Init, Contract!Init, Holds
  <1>2. Inv /\ [Next]_vars => [Contract!Next]_(Contract!vars)
    BY ContractStep
  <1> QED
    BY <1>1, <1>2, Invariance, PTL DEF Spec, ImplementsContract, Contract!Spec
=============================================================================
