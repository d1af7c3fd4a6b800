------------------------- MODULE VmRuntimeSafetyProofs -------------------------
(***************************************************************************)
(* What the control plane keeps of the sandboxes: no backend call on a     *)
(* destroyed one, no flag set behind an idle one, one sandbox per key. The *)
(* strengthening says which ids are known to whom: an id is in `used`      *)
(* before anything refers to it (Known), and until its record is inserted  *)
(* only its creator does (BootIsPrivate), so no other task can touch it.   *)
(***************************************************************************)
EXTENDS VmRuntimeProofs

(* While the process is down no task runs and no VMM is left.              *)
DownIsCold ==
  server = "down" =>
    /\ \A t \in Tasks : pc[t] = "idle"
    /\ \A s \in Sandboxes : backend[s] \in {"idle", "absent"}

(* An id is handed out before memory, a task or a file names it.           *)
ImageKnown(i) ==
  /\ \A s \in Sandboxes : i.state[s] # "none" => s \in used
  /\ \A k \in Keys : i.keys[k] # NoBox => i.keys[k] \in used

Known ==
  /\ boxes \subseteq used /\ expired \subseteq used
  /\ \A t \in Tasks : todo[t] \subseteq used /\ (call[t].box # NoBox => call[t].box \in used)
  /\ \A k \in Keys : keys[k] # NoBox => keys[k] \in used
  /\ ImageKnown(disk)
  /\ tmp # NoImage => ImageKnown(tmp)
  /\ \A t \in Tasks : ImageKnown(image[t])
  /\ \A d \in detached : ImageKnown(d.image)

(* A sandbox whose first start runs is known to its creator only.          *)
BootIsPrivate ==
  \A t \in Tasks : pc[t] = "boot" =>
    LET s == call[t].box IN
      /\ s \notin boxes \cup expired
      /\ backend[s] = "idle"
      /\ \A k \in Keys : keys[k] # s
      /\ \A u \in Tasks : s \notin todo[u] /\ (u # t => call[u].box # s)

(* What require_state() found still holds while the backend call runs.     *)
GuardHolds ==
  \A t \in Tasks : pc[t] = "backend" => info[call[t].box] \in From[call[t].op]

-----------------------------------------------------------------------------
(* Only the end of the process brings it down, and nothing runs until it   *)
(* has restarted.                                                          *)
LEMMA DownStep == TypeOK /\ DownIsCold /\ [Next]_vars => DownIsCold'
  <1> SUFFICES ASSUME TypeOK, DownIsCold, [Next]_vars PROVE DownIsCold'
    OBVIOUS
  <1>types. pc \in [Tasks -> Places] /\ backend \in [Sandboxes -> Backends]
    BY DEF TypeOK
  <1> USE <1>types, TasksAssumption DEF DownIsCold, Tasks, Backends, local, Go, Return
  <1>1. ASSUME NEW t \in Clients, NEW k \in Keys \cup {NoKey}, BeginCreate(t, k)
        PROVE  DownIsCold'
    BY <1>1 DEF BeginCreate
  <1>2. ASSUME NEW t \in Clients, NEW o \in RecordOps, NEW s \in Sandboxes, BeginOp(t, o, s)
        PROVE  DownIsCold'
    BY <1>2 DEF BeginOp
  <1>3. ASSUME NEW t \in Clients, NEW n \in Snapshots, DeleteSnapshot(t, n)
        PROVE  DownIsCold'
    BY <1>3 DEF DeleteSnapshot
  <1>4. ASSUME NEW t \in Clients, Cancel(t)
        PROVE  DownIsCold'
    BY <1>4 DEF Cancel
  <1>5. ASSUME NEW t \in Tasks, CreateGuard(t)
        PROVE  DownIsCold'
    BY <1>5 DEF CreateGuard
  <1>6. ASSUME NEW t \in Tasks, CreateLookup(t)
        PROVE  DownIsCold'
    BY <1>6 DEF CreateLookup
  <1>7. ASSUME NEW t \in Tasks, CreateReplay(t)
        PROVE  DownIsCold'
    BY <1>7 DEF CreateReplay
  <1>8. ASSUME NEW t \in Tasks, NEW s \in Sandboxes, CreateMake(t, s)
        PROVE  DownIsCold'
    BY <1>8 DEF CreateMake
  <1>9. ASSUME NEW t \in Tasks, CreateMakeFails(t)
        PROVE  DownIsCold'
    BY <1>9 DEF CreateMakeFails
  <1>10. ASSUME NEW t \in Tasks, CreateBoot(t)
        PROVE  DownIsCold'
    BY <1>10 DEF CreateBoot
  <1>11. ASSUME NEW t \in Tasks, CreateBootFails(t)
        PROVE  DownIsCold'
    BY <1>11 DEF CreateBootFails
  <1>12. ASSUME NEW t \in Tasks, CreateBind(t)
        PROVE  DownIsCold'
    BY <1>12 DEF CreateBind
  <1>13. ASSUME NEW t \in Tasks, LockRecord(t)
        PROVE  DownIsCold'
    BY <1>13 DEF LockRecord
  <1>14. ASSUME NEW t \in Tasks, BackendOk(t)
        PROVE  DownIsCold'
    BY <1>14 DEF BackendOk
  <1>15. ASSUME NEW t \in Tasks, BackendFails(t)
        PROVE  DownIsCold'
    BY <1>15 DEF BackendFails, Drained
  <1>16. ASSUME NEW t \in Tasks, DestroyUnmap(t)
        PROVE  DownIsCold'
    BY <1>16 DEF DestroyUnmap
  <1>17. ASSUME NEW t \in Tasks, DestroyUnbind(t)
        PROVE  DownIsCold'
    BY <1>17 DEF DestroyUnbind
  <1>18. ASSUME NEW t \in Tasks, PersistBegin(t)
        PROVE  DownIsCold'
    BY <1>18 DEF PersistBegin
  <1>19. ASSUME NEW t \in Tasks, NEW s \in Sandboxes, PersistCapture(t, s)
        PROVE  DownIsCold'
    BY <1>19 DEF PersistCapture
  <1>38. ASSUME NEW t \in Tasks, PersistSnapshots(t)
        PROVE  DownIsCold'
    BY <1>38 DEF PersistSnapshots
  <1>20. ASSUME NEW t \in Tasks, PersistIndex(t)
        PROVE  DownIsCold'
    BY <1>20 DEF PersistIndex
  <1>21. ASSUME NEW t \in Tasks, PersistWrite(t)
        PROVE  DownIsCold'
    BY <1>21 DEF PersistWrite
  <1>22. ASSUME NEW t \in Tasks, PersistRename(t)
        PROVE  DownIsCold'
    BY <1>22 DEF PersistRename, Drained
  <1>23. ASSUME NEW t \in Tasks, PersistFails(t)
        PROVE  DownIsCold'
    BY <1>23 DEF PersistFails, Drained
  <1>24. ASSUME NEW s \in Sandboxes, Expire(s)
        PROVE  DownIsCold'
    BY <1>24 DEF Expire
  <1>25. CASE ReapBegin
    BY <1>25 DEF ReapBegin
  <1>26. ASSUME NEW s \in Sandboxes, ReapList(s)
        PROVE  DownIsCold'
    BY <1>26 DEF ReapList
  <1>27. CASE ReapFilter
    BY <1>27 DEF ReapFilter
  <1>28. ASSUME NEW s \in Sandboxes, ReapAct(s)
        PROVE  DownIsCold'
    BY <1>28 DEF ReapAct
  <1>29. CASE ShutdownBegin
    BY <1>29 DEF ShutdownBegin
  <1>30. ASSUME NEW s \in Sandboxes, ShutdownVisit(s)
        PROVE  DownIsCold'
    BY <1>30 DEF ShutdownVisit
  <1>31. CASE ShutdownDone
    BY <1>31 DEF ShutdownDone
  <1>32. ASSUME NEW d \in detached, Detached(d)
        PROVE  DownIsCold'
    BY <1>32 DEF Detached
  <1>33. CASE Crash
    BY <1>33 DEF Crash, ProcessEnds, Orphaned, Interrupted, Broken, Starts
  <1>34. CASE Exit
    BY <1>34 DEF Exit, ProcessEnds, Orphaned, Interrupted, Broken, Starts
  <1>35. CASE Restart
    BY <1>35 DEF Restart
  <1>36. CASE RestartFails
    BY <1>36 DEF RestartFails, Orphaned, Interrupted, Broken, Starts
  <1>37. CASE UNCHANGED vars
    BY <1>37 DEF vars
  <1> QED
    BY <1>1, <1>2, <1>3, <1>4, <1>5, <1>6, <1>7, <1>8, <1>9, <1>10, <1>11,
       <1>12, <1>13, <1>14,
       <1>15, <1>16, <1>17, <1>18, <1>19, <1>20, <1>21, <1>22, <1>23, <1>24, <1>25, <1>26,
       <1>27, <1>28, <1>29, <1>30, <1>31, <1>32, <1>33, <1>34, <1>35, <1>36, <1>37, <1>38
       DEF Next, Begin, Create, Operate, Persist, Continue, Reap, ShutdownStep

(* Ids spread from `used` to memory, tasks and files, never the other way. *)
LEMMA KnownStep == TypeOK /\ Placed /\ Known /\ [Next]_vars => Known'
  <1> SUFFICES ASSUME TypeOK, Placed, Known, [Next]_vars PROVE Known'
    OBVIOUS
  <1>types. /\ pc \in [Tasks -> Places] /\ call \in [Tasks -> Calls]
            /\ keys \in [Keys -> Sandboxes \cup {NoBox}] /\ todo \in [Tasks -> SUBSET Sandboxes]
            /\ image \in [Tasks -> Images] /\ boxes \subseteq Sandboxes /\ disk \in Images
    BY DEF TypeOK
  <1>blank. /\ \A s \in Sandboxes : Blank.state[s] = "none"
            /\ \A k \in Keys : Blank.keys[k] = NoBox
    BY DEF Blank
  <1> USE <1>types, <1>blank, TasksAssumption, DataAssumption, NoCallType
      DEF Placed, Known, ImageKnown, Creating, Tasks, memory, local, files, Go, Return
  <1>1. ASSUME NEW t \in Clients, NEW k \in Keys \cup {NoKey}, BeginCreate(t, k)
        PROVE  Known'
    BY <1>1 DEF BeginCreate, Serve
  <1>2. ASSUME NEW t \in Clients, NEW o \in RecordOps, NEW s \in Sandboxes, BeginOp(t, o, s)
        PROVE  Known'
    BY <1>2 DEF BeginOp, Serve
  <1>3. ASSUME NEW t \in Clients, NEW n \in Snapshots, DeleteSnapshot(t, n)
        PROVE  Known'
    BY <1>3 DEF DeleteSnapshot, Serve
  <1>4. ASSUME NEW t \in Clients, Cancel(t)
        PROVE  Known'
    BY <1>4 DEF Cancel, Abandon
  <1>5. ASSUME NEW t \in Tasks, CreateGuard(t)
        PROVE  Known'
    BY <1>5 DEF CreateGuard
  <1>6. ASSUME NEW t \in Tasks, CreateLookup(t)
        PROVE  Known'
    BY <1>6 DEF CreateLookup, Serve
  <1>7. ASSUME NEW t \in Tasks, CreateReplay(t)
        PROVE  Known'
    BY <1>7 DEF CreateReplay
  <1>8. ASSUME NEW t \in Tasks, NEW s \in Sandboxes, CreateMake(t, s)
        PROVE  Known'
    BY <1>8 DEF CreateMake, Serve
  <1>9. ASSUME NEW t \in Tasks, CreateMakeFails(t)
        PROVE  Known'
    BY <1>9 DEF CreateMakeFails
  <1>10. ASSUME NEW t \in Tasks, CreateBoot(t)
        PROVE  Known'
    BY <1>10 DEF CreateBoot
  <1>11. ASSUME NEW t \in Tasks, CreateBootFails(t)
        PROVE  Known'
    BY <1>11 DEF CreateBootFails
  <1>12. ASSUME NEW t \in Tasks, CreateBind(t)
        PROVE  Known'
    BY <1>12 DEF CreateBind
  <1>13. ASSUME NEW t \in Tasks, LockRecord(t)
        PROVE  Known'
    BY <1>13 DEF LockRecord
  <1>14. ASSUME NEW t \in Tasks, BackendOk(t)
        PROVE  Known'
    BY <1>14 DEF BackendOk, NextPlace
  <1>15. ASSUME NEW t \in Tasks, BackendFails(t)
        PROVE  Known'
    BY <1>15 DEF BackendFails, Drained
  <1>16. ASSUME NEW t \in Tasks, DestroyUnmap(t)
        PROVE  Known'
    BY <1>16 DEF DestroyUnmap
  <1>17. ASSUME NEW t \in Tasks, DestroyUnbind(t)
        PROVE  Known'
    BY <1>17 DEF DestroyUnbind
  <1>18. ASSUME NEW t \in Tasks, PersistBegin(t)
        PROVE  Known'
    BY <1>18 DEF PersistBegin
  <1>19. ASSUME NEW t \in Tasks, NEW s \in Sandboxes, PersistCapture(t, s)
        PROVE  Known'
    BY <1>19 DEF PersistCapture
  <1>38. ASSUME NEW t \in Tasks, PersistSnapshots(t)
        PROVE  Known'
    BY <1>38 DEF PersistSnapshots
  <1>20. ASSUME NEW t \in Tasks, PersistIndex(t)
        PROVE  Known'
    BY <1>20 DEF PersistIndex
  <1>21. ASSUME NEW t \in Tasks, PersistWrite(t)
        PROVE  Known'
    BY <1>21 DEF PersistWrite
  <1>22. ASSUME NEW t \in Tasks, PersistRename(t)
        PROVE  Known'
    BY <1>22 DEF PersistRename, Drained
  <1>23. ASSUME NEW t \in Tasks, PersistFails(t)
        PROVE  Known'
    BY <1>23 DEF PersistFails, Drained
  <1>24. ASSUME NEW s \in Sandboxes, Expire(s)
        PROVE  Known'
    BY <1>24 DEF Expire
  <1>25. CASE ReapBegin
    BY <1>25 DEF ReapBegin
  <1>26. ASSUME NEW s \in Sandboxes, ReapList(s)
        PROVE  Known'
    BY <1>26 DEF ReapList
  <1>27. CASE ReapFilter
    BY <1>27 DEF ReapFilter
  <1>28. ASSUME NEW s \in Sandboxes, ReapAct(s)
        PROVE  Known'
    BY <1>28 DEF ReapAct, Serve
  <1>29. CASE ShutdownBegin
    BY <1>29 DEF ShutdownBegin, Serve
  <1>30. ASSUME NEW s \in Sandboxes, ShutdownVisit(s)
        PROVE  Known'
    BY <1>30 DEF ShutdownVisit, Serve
  <1>31. CASE ShutdownDone
    BY <1>31 DEF ShutdownDone
  <1>32. ASSUME NEW d \in detached, Detached(d)
        PROVE  Known'
    BY <1>32 DEF Detached
  <1>33. CASE Crash
    BY <1>33 DEF Crash, ProcessEnds
  <1>34. CASE Exit
    BY <1>34 DEF Exit, ProcessEnds
  <1>35. CASE Restart
    BY <1>35 DEF Restart, Saved
  <1>36. CASE RestartFails
    BY <1>36 DEF RestartFails, DownIsCold
  <1>37. CASE UNCHANGED vars
    BY <1>37 DEF vars
  <1> QED
    BY <1>1, <1>2, <1>3, <1>4, <1>5, <1>6, <1>7, <1>8, <1>9, <1>10, <1>11,
       <1>12, <1>13, <1>14,
       <1>15, <1>16, <1>17, <1>18, <1>19, <1>20, <1>21, <1>22, <1>23, <1>24, <1>25, <1>26,
       <1>27, <1>28, <1>29, <1>30, <1>31, <1>32, <1>33, <1>34, <1>35, <1>36, <1>37, <1>38
       DEF Next, Begin, Create, Operate, Persist, Continue, Reap, ShutdownStep

(* Nobody else can come by the id of a sandbox that is being created.      *)
LEMMA PrivateStep ==
  TypeOK /\ Placed /\ LockDiscipline /\ DownIsCold /\ Known /\ BootIsPrivate /\ [Next]_vars
    => BootIsPrivate'
  <1> SUFFICES ASSUME TypeOK, Placed, LockDiscipline, DownIsCold, Known, BootIsPrivate, [Next]_vars
               PROVE  BootIsPrivate'
    OBVIOUS
  <1>types. /\ pc \in [Tasks -> Places] /\ call \in [Tasks -> Calls]
            /\ keys \in [Keys -> Sandboxes \cup {NoBox}] /\ todo \in [Tasks -> SUBSET Sandboxes]
            /\ backend \in [Sandboxes -> Backends] /\ boxes \subseteq Sandboxes
    BY DEF TypeOK
  <1>known. /\ boxes \subseteq used /\ expired \subseteq used
            /\ \A t \in Tasks : todo[t] \subseteq used /\ (call[t].box # NoBox => call[t].box \in used)
            /\ \A k \in Keys : keys[k] # NoBox => keys[k] \in used
    BY DEF Known
  <1> USE <1>types, <1>known, TasksAssumption, DataAssumption, NoCallType
      DEF Placed, BootIsPrivate, Creating, Tasks, memory, local, Go, Return
  <1>1. ASSUME NEW t \in Clients, NEW k \in Keys \cup {NoKey}, BeginCreate(t, k)
        PROVE  BootIsPrivate'
    BY <1>1 DEF BeginCreate, Serve
  <1>2. ASSUME NEW t \in Clients, NEW o \in RecordOps, NEW s \in Sandboxes, BeginOp(t, o, s)
        PROVE  BootIsPrivate'
    BY <1>2 DEF BeginOp, Serve
  <1>3. ASSUME NEW t \in Clients, NEW n \in Snapshots, DeleteSnapshot(t, n)
        PROVE  BootIsPrivate'
    BY <1>3 DEF DeleteSnapshot, Serve
  <1>4. ASSUME NEW t \in Clients, Cancel(t)
        PROVE  BootIsPrivate'
    BY <1>4 DEF Cancel
  <1>5. ASSUME NEW t \in Tasks, CreateGuard(t)
        PROVE  BootIsPrivate'
    BY <1>5 DEF CreateGuard
  <1>6. ASSUME NEW t \in Tasks, CreateLookup(t)
        PROVE  BootIsPrivate'
    BY <1>6 DEF CreateLookup, Serve
  <1>7. ASSUME NEW t \in Tasks, CreateReplay(t)
        PROVE  BootIsPrivate'
    BY <1>7 DEF CreateReplay
  <1>8. ASSUME NEW t \in Tasks, NEW s \in Sandboxes, CreateMake(t, s)
        PROVE  BootIsPrivate'
    BY <1>8 DEF CreateMake, Serve
  <1>9. ASSUME NEW t \in Tasks, CreateMakeFails(t)
        PROVE  BootIsPrivate'
    BY <1>9 DEF CreateMakeFails
  <1>10. ASSUME NEW t \in Tasks, CreateBoot(t)
        PROVE  BootIsPrivate'
    BY <1>10 DEF CreateBoot
  <1>11. ASSUME NEW t \in Tasks, CreateBootFails(t)
        PROVE  BootIsPrivate'
    BY <1>11 DEF CreateBootFails
  <1>12. ASSUME NEW t \in Tasks, CreateBind(t)
        PROVE  BootIsPrivate'
    BY <1>12 DEF CreateBind
  <1>13. ASSUME NEW t \in Tasks, LockRecord(t)
        PROVE  BootIsPrivate'
    BY <1>13 DEF LockRecord
  <1>14. ASSUME NEW t \in Tasks, BackendOk(t)
        PROVE  BootIsPrivate'
    BY <1>14 DEF BackendOk, NextPlace
  <1>15. ASSUME NEW t \in Tasks, BackendFails(t)
        PROVE  BootIsPrivate'
    BY <1>15 DEF BackendFails, Drained
  <1>16. ASSUME NEW t \in Tasks, DestroyUnmap(t)
        PROVE  BootIsPrivate'
    BY <1>16 DEF DestroyUnmap
  <1>17. ASSUME NEW t \in Tasks, DestroyUnbind(t)
        PROVE  BootIsPrivate'
    BY <1>17 DEF DestroyUnbind
  <1>18. ASSUME NEW t \in Tasks, PersistBegin(t)
        PROVE  BootIsPrivate'
    BY <1>18 DEF PersistBegin
  <1>19. ASSUME NEW t \in Tasks, NEW s \in Sandboxes, PersistCapture(t, s)
        PROVE  BootIsPrivate'
    BY <1>19 DEF PersistCapture
  <1>38. ASSUME NEW t \in Tasks, PersistSnapshots(t)
        PROVE  BootIsPrivate'
    BY <1>38 DEF PersistSnapshots
  <1>20. ASSUME NEW t \in Tasks, PersistIndex(t)
        PROVE  BootIsPrivate'
    BY <1>20 DEF PersistIndex
  <1>21. ASSUME NEW t \in Tasks, PersistWrite(t)
        PROVE  BootIsPrivate'
    BY <1>21 DEF PersistWrite
  <1>22. ASSUME NEW t \in Tasks, PersistRename(t)
        PROVE  BootIsPrivate'
    BY <1>22 DEF PersistRename, Drained
  <1>23. ASSUME NEW t \in Tasks, PersistFails(t)
        PROVE  BootIsPrivate'
    BY <1>23 DEF PersistFails, Drained
  <1>24. ASSUME NEW s \in Sandboxes, Expire(s)
        PROVE  BootIsPrivate'
    BY <1>24 DEF Expire
  <1>25. CASE ReapBegin
    BY <1>25 DEF ReapBegin
  <1>26. ASSUME NEW s \in Sandboxes, ReapList(s)
        PROVE  BootIsPrivate'
    BY <1>26 DEF ReapList
  <1>27. CASE ReapFilter
    BY <1>27 DEF ReapFilter
  <1>28. ASSUME NEW s \in Sandboxes, ReapAct(s)
        PROVE  BootIsPrivate'
    BY <1>28 DEF ReapAct, Serve
  <1>29. CASE ShutdownBegin
    BY <1>29 DEF ShutdownBegin, Serve
  <1>30. ASSUME NEW s \in Sandboxes, ShutdownVisit(s)
        PROVE  BootIsPrivate'
    BY <1>30 DEF ShutdownVisit, Serve
  <1>31. CASE ShutdownDone
    BY <1>31 DEF ShutdownDone
  <1>32. ASSUME NEW d \in detached, Detached(d)
        PROVE  BootIsPrivate'
    BY <1>32 DEF Detached
  <1>33. CASE Crash
    BY <1>33 DEF Crash, ProcessEnds, Orphaned, Interrupted, Broken, Starts
  <1>34. CASE Exit
    BY <1>34 DEF Exit, ProcessEnds, Orphaned, Interrupted, Broken, Starts
  <1>35. CASE Restart
    BY <1>35 DEF Restart, DownIsCold
  <1>36. CASE RestartFails
    BY <1>36 DEF RestartFails, DownIsCold
  <1>37. CASE UNCHANGED vars
    BY <1>37 DEF vars
  <1> QED
    BY <1>1, <1>2, <1>3, <1>4, <1>5, <1>6, <1>7, <1>8, <1>9, <1>10, <1>11,
       <1>12, <1>13, <1>14,
       <1>15, <1>16, <1>17, <1>18, <1>19, <1>20, <1>21, <1>22, <1>23, <1>24, <1>25, <1>26,
       <1>27, <1>28, <1>29, <1>30, <1>31, <1>32, <1>33, <1>34, <1>35, <1>36, <1>37, <1>38
       DEF Next, Begin, Create, Operate, Persist, Continue, Reap, ShutdownStep

(* The state of a record changes only under its lock.                      *)
LEMMA GuardStep ==
  TypeOK /\ Placed /\ LockDiscipline /\ DownIsCold /\ BootIsPrivate /\ GuardHolds /\ [Next]_vars
    => GuardHolds'
  <1> SUFFICES ASSUME TypeOK, Placed, LockDiscipline, DownIsCold, BootIsPrivate, GuardHolds, [Next]_vars
               PROVE  GuardHolds'
    OBVIOUS
  <1>types. /\ pc \in [Tasks -> Places] /\ call \in [Tasks -> Calls]
            /\ lock \in [Sandboxes -> Tasks \cup {NoTask}]
            /\ info \in [Sandboxes -> States]
    BY DEF TypeOK
  <1>locked. \A t, u \in Tasks :
               pc[t] = "backend" /\ pc[u] = "backend" /\ call[t].box = call[u].box => t = u
    BY DEF LockDiscipline, Placed
  <1>fresh. \A t, u \in Tasks : pc[t] = "boot" /\ u # t => call[u].box # call[t].box
    BY DEF BootIsPrivate
  <1> USE <1>types, <1>locked, <1>fresh, TasksAssumption, DataAssumption, NoCallType
      DEF Placed, GuardHolds, Creating, Tasks, memory, local, Go, Return
  <1>1. ASSUME NEW t \in Clients, NEW k \in Keys \cup {NoKey}, BeginCreate(t, k)
        PROVE  GuardHolds'
    BY <1>1 DEF BeginCreate, Serve
  <1>2. ASSUME NEW t \in Clients, NEW o \in RecordOps, NEW s \in Sandboxes, BeginOp(t, o, s)
        PROVE  GuardHolds'
    BY <1>2 DEF BeginOp, Serve
  <1>3. ASSUME NEW t \in Clients, NEW n \in Snapshots, DeleteSnapshot(t, n)
        PROVE  GuardHolds'
    BY <1>3 DEF DeleteSnapshot, Serve
  <1>4. ASSUME NEW t \in Clients, Cancel(t)
        PROVE  GuardHolds'
    BY <1>4 DEF Cancel
  <1>5. ASSUME NEW t \in Tasks, CreateGuard(t)
        PROVE  GuardHolds'
    BY <1>5 DEF CreateGuard
  <1>6. ASSUME NEW t \in Tasks, CreateLookup(t)
        PROVE  GuardHolds'
    BY <1>6 DEF CreateLookup, Serve
  <1>7. ASSUME NEW t \in Tasks, CreateReplay(t)
        PROVE  GuardHolds'
    BY <1>7 DEF CreateReplay
  <1>8. ASSUME NEW t \in Tasks, NEW s \in Sandboxes, CreateMake(t, s)
        PROVE  GuardHolds'
    BY <1>8 DEF CreateMake, Serve
  <1>9. ASSUME NEW t \in Tasks, CreateMakeFails(t)
        PROVE  GuardHolds'
    BY <1>9 DEF CreateMakeFails
  <1>10. ASSUME NEW t \in Tasks, CreateBoot(t)
        PROVE  GuardHolds'
    BY <1>10 DEF CreateBoot
  <1>11. ASSUME NEW t \in Tasks, CreateBootFails(t)
        PROVE  GuardHolds'
    BY <1>11 DEF CreateBootFails
  <1>12. ASSUME NEW t \in Tasks, CreateBind(t)
        PROVE  GuardHolds'
    BY <1>12 DEF CreateBind
  <1>13. ASSUME NEW t \in Tasks, LockRecord(t)
        PROVE  GuardHolds'
    BY <1>13 DEF LockRecord, Allowed
  <1>14. ASSUME NEW t \in Tasks, BackendOk(t)
        PROVE  GuardHolds'
    BY <1>14 DEF BackendOk, NextPlace
  <1>15. ASSUME NEW t \in Tasks, BackendFails(t)
        PROVE  GuardHolds'
    BY <1>15 DEF BackendFails, Drained
  <1>16. ASSUME NEW t \in Tasks, DestroyUnmap(t)
        PROVE  GuardHolds'
    BY <1>16 DEF DestroyUnmap
  <1>17. ASSUME NEW t \in Tasks, DestroyUnbind(t)
        PROVE  GuardHolds'
    BY <1>17 DEF DestroyUnbind
  <1>18. ASSUME NEW t \in Tasks, PersistBegin(t)
        PROVE  GuardHolds'
    BY <1>18 DEF PersistBegin
  <1>19. ASSUME NEW t \in Tasks, NEW s \in Sandboxes, PersistCapture(t, s)
        PROVE  GuardHolds'
    BY <1>19 DEF PersistCapture
  <1>38. ASSUME NEW t \in Tasks, PersistSnapshots(t)
        PROVE  GuardHolds'
    BY <1>38 DEF PersistSnapshots
  <1>20. ASSUME NEW t \in Tasks, PersistIndex(t)
        PROVE  GuardHolds'
    BY <1>20 DEF PersistIndex
  <1>21. ASSUME NEW t \in Tasks, PersistWrite(t)
        PROVE  GuardHolds'
    BY <1>21 DEF PersistWrite
  <1>22. ASSUME NEW t \in Tasks, PersistRename(t)
        PROVE  GuardHolds'
    BY <1>22 DEF PersistRename, Drained
  <1>23. ASSUME NEW t \in Tasks, PersistFails(t)
        PROVE  GuardHolds'
    BY <1>23 DEF PersistFails, Drained
  <1>24. ASSUME NEW s \in Sandboxes, Expire(s)
        PROVE  GuardHolds'
    BY <1>24 DEF Expire
  <1>25. CASE ReapBegin
    BY <1>25 DEF ReapBegin
  <1>26. ASSUME NEW s \in Sandboxes, ReapList(s)
        PROVE  GuardHolds'
    BY <1>26 DEF ReapList
  <1>27. CASE ReapFilter
    BY <1>27 DEF ReapFilter
  <1>28. ASSUME NEW s \in Sandboxes, ReapAct(s)
        PROVE  GuardHolds'
    BY <1>28 DEF ReapAct, Serve
  <1>29. CASE ShutdownBegin
    BY <1>29 DEF ShutdownBegin, Serve
  <1>30. ASSUME NEW s \in Sandboxes, ShutdownVisit(s)
        PROVE  GuardHolds'
    BY <1>30 DEF ShutdownVisit, Serve, Allowed
  <1>31. CASE ShutdownDone
    BY <1>31 DEF ShutdownDone
  <1>32. ASSUME NEW d \in detached, Detached(d)
        PROVE  GuardHolds'
    BY <1>32 DEF Detached
  <1>33. CASE Crash
    BY <1>33 DEF Crash, ProcessEnds
  <1>34. CASE Exit
    BY <1>34 DEF Exit, ProcessEnds
  <1>35. CASE Restart
    BY <1>35 DEF Restart, DownIsCold
  <1>36. CASE RestartFails
    BY <1>36 DEF RestartFails
  <1>37. CASE UNCHANGED vars
    BY <1>37 DEF vars
  <1> QED
    BY <1>1, <1>2, <1>3, <1>4, <1>5, <1>6, <1>7, <1>8, <1>9, <1>10, <1>11,
       <1>12, <1>13, <1>14,
       <1>15, <1>16, <1>17, <1>18, <1>19, <1>20, <1>21, <1>22, <1>23, <1>24, <1>25, <1>26,
       <1>27, <1>28, <1>29, <1>30, <1>31, <1>32, <1>33, <1>34, <1>35, <1>36, <1>37, <1>38
       DEF Next, Begin, Create, Operate, Persist, Continue, Reap, ShutdownStep

(* No step gives a VMM to a sandbox that is, or becomes, idle.             *)
LEMMA IdleStep ==
  TypeOK /\ Placed /\ LockDiscipline /\ DownIsCold /\ BootIsPrivate /\ Known /\ IdleHasNoFlag /\ [Next]_vars
    => IdleHasNoFlag'
  <1> SUFFICES ASSUME TypeOK, Placed, LockDiscipline, DownIsCold, BootIsPrivate, Known, IdleHasNoFlag, [Next]_vars
               PROVE  IdleHasNoFlag'
    OBVIOUS
  <1>types. /\ pc \in [Tasks -> Places] /\ call \in [Tasks -> Calls] /\ info \in [Sandboxes -> States]
            /\ backend \in [Sandboxes -> Backends] /\ boxes \subseteq Sandboxes
    BY DEF TypeOK
  <1> USE <1>types, TasksAssumption, DataAssumption, NoCallType
      DEF Placed, RecordCalls, IdleHasNoFlag, Flagged, Creating, Tasks, memory, local, Go, Return
  <1>1. ASSUME NEW t \in Clients, NEW k \in Keys \cup {NoKey}, BeginCreate(t, k)
        PROVE  IdleHasNoFlag'
    BY <1>1 DEF BeginCreate
  <1>2. ASSUME NEW t \in Clients, NEW o \in RecordOps, NEW s \in Sandboxes, BeginOp(t, o, s)
        PROVE  IdleHasNoFlag'
    BY <1>2 DEF BeginOp
  <1>3. ASSUME NEW t \in Clients, NEW n \in Snapshots, DeleteSnapshot(t, n)
        PROVE  IdleHasNoFlag'
    BY <1>3 DEF DeleteSnapshot
  <1>4. ASSUME NEW t \in Clients, Cancel(t)
        PROVE  IdleHasNoFlag'
    BY <1>4 DEF Cancel, Interrupted, Broken, Starts
  <1>5. ASSUME NEW t \in Tasks, CreateGuard(t)
        PROVE  IdleHasNoFlag'
    BY <1>5 DEF CreateGuard
  <1>6. ASSUME NEW t \in Tasks, CreateLookup(t)
        PROVE  IdleHasNoFlag'
    BY <1>6 DEF CreateLookup
  <1>7. ASSUME NEW t \in Tasks, CreateReplay(t)
        PROVE  IdleHasNoFlag'
    BY <1>7 DEF CreateReplay
  <1>8. ASSUME NEW t \in Tasks, NEW s \in Sandboxes, CreateMake(t, s)
        PROVE  IdleHasNoFlag'
    BY <1>8 DEF CreateMake
  <1>9. ASSUME NEW t \in Tasks, CreateMakeFails(t)
        PROVE  IdleHasNoFlag'
    BY <1>9 DEF CreateMakeFails
  <1>10. ASSUME NEW t \in Tasks, CreateBoot(t)
        PROVE  IdleHasNoFlag'
    BY <1>10 DEF CreateBoot, After
  <1>11. ASSUME NEW t \in Tasks, CreateBootFails(t)
        PROVE  IdleHasNoFlag'
    BY <1>11 DEF CreateBootFails, Broken, Starts, BootIsPrivate
  <1>12. ASSUME NEW t \in Tasks, CreateBind(t)
        PROVE  IdleHasNoFlag'
    BY <1>12 DEF CreateBind
  <1>13. ASSUME NEW t \in Tasks, LockRecord(t)
        PROVE  IdleHasNoFlag'
    BY <1>13 DEF LockRecord
  <1>14. ASSUME NEW t \in Tasks, BackendOk(t)
        PROVE  IdleHasNoFlag'
    BY <1>14 DEF BackendOk, After, Target, Starts
  <1>15. ASSUME NEW t \in Tasks, BackendFails(t)
        PROVE  IdleHasNoFlag'
    BY <1>15 DEF BackendFails, Broken, Starts
  <1>16. ASSUME NEW t \in Tasks, DestroyUnmap(t)
        PROVE  IdleHasNoFlag'
    BY <1>16 DEF DestroyUnmap
  <1>17. ASSUME NEW t \in Tasks, DestroyUnbind(t)
        PROVE  IdleHasNoFlag'
    BY <1>17 DEF DestroyUnbind
  <1>18. ASSUME NEW t \in Tasks, PersistBegin(t)
        PROVE  IdleHasNoFlag'
    BY <1>18 DEF PersistBegin
  <1>19. ASSUME NEW t \in Tasks, NEW s \in Sandboxes, PersistCapture(t, s)
        PROVE  IdleHasNoFlag'
    BY <1>19 DEF PersistCapture
  <1>38. ASSUME NEW t \in Tasks, PersistSnapshots(t)
        PROVE  IdleHasNoFlag'
    BY <1>38 DEF PersistSnapshots
  <1>20. ASSUME NEW t \in Tasks, PersistIndex(t)
        PROVE  IdleHasNoFlag'
    BY <1>20 DEF PersistIndex
  <1>21. ASSUME NEW t \in Tasks, PersistWrite(t)
        PROVE  IdleHasNoFlag'
    BY <1>21 DEF PersistWrite
  <1>22. ASSUME NEW t \in Tasks, PersistRename(t)
        PROVE  IdleHasNoFlag'
    BY <1>22 DEF PersistRename
  <1>23. ASSUME NEW t \in Tasks, PersistFails(t)
        PROVE  IdleHasNoFlag'
    BY <1>23 DEF PersistFails
  <1>24. ASSUME NEW s \in Sandboxes, Expire(s)
        PROVE  IdleHasNoFlag'
    BY <1>24 DEF Expire
  <1>25. CASE ReapBegin
    BY <1>25 DEF ReapBegin
  <1>26. ASSUME NEW s \in Sandboxes, ReapList(s)
        PROVE  IdleHasNoFlag'
    BY <1>26 DEF ReapList
  <1>27. CASE ReapFilter
    BY <1>27 DEF ReapFilter
  <1>28. ASSUME NEW s \in Sandboxes, ReapAct(s)
        PROVE  IdleHasNoFlag'
    BY <1>28 DEF ReapAct
  <1>29. CASE ShutdownBegin
    BY <1>29 DEF ShutdownBegin
  <1>30. ASSUME NEW s \in Sandboxes, ShutdownVisit(s)
        PROVE  IdleHasNoFlag'
    BY <1>30 DEF ShutdownVisit
  <1>31. CASE ShutdownDone
    BY <1>31 DEF ShutdownDone
  <1>32. ASSUME NEW d \in detached, Detached(d)
        PROVE  IdleHasNoFlag'
    BY <1>32 DEF Detached
  <1>33. CASE Crash
    BY <1>33 DEF Crash, ProcessEnds, Orphaned, Interrupted, Broken, Starts
  <1>34. CASE Exit
    BY <1>34 DEF Exit, ProcessEnds, Orphaned, Interrupted, Broken, Starts
  <1>35. CASE Restart
    BY <1>35 DEF Restart, Recovered, Loaded, Saved, DownIsCold, Starts, After
  <1>36. CASE RestartFails
    BY <1>36 DEF RestartFails, Orphaned, Interrupted, Broken, Starts
  <1>37. CASE UNCHANGED vars
    BY <1>37 DEF vars
  <1> QED
    BY <1>1, <1>2, <1>3, <1>4, <1>5, <1>6, <1>7, <1>8, <1>9, <1>10, <1>11,
       <1>12, <1>13, <1>14,
       <1>15, <1>16, <1>17, <1>18, <1>19, <1>20, <1>21, <1>22, <1>23, <1>24, <1>25, <1>26,
       <1>27, <1>28, <1>29, <1>30, <1>31, <1>32, <1>33, <1>34, <1>35, <1>36, <1>37, <1>38
       DEF Next, Begin, Create, Operate, Persist, Continue, Reap, ShutdownStep

-----------------------------------------------------------------------------
Inv ==
  /\ TypeOK /\ Placed /\ LockDiscipline
  /\ DownIsCold /\ Known /\ BootIsPrivate /\ GuardHolds /\ IdleHasNoFlag

(* The parts above hold at the start.                                      *)
LEMMA InvInit == Init => Inv
  <1> SUFFICES ASSUME Init PROVE Inv
    OBVIOUS
  <1>1. TypeOK /\ LockDiscipline
    BY TypeInit, LockInit
  <1>2. Placed /\ BootIsPrivate /\ GuardHolds
    BY DEF Init, Placed, BootIsPrivate, GuardHolds, Creating
  <1>3. Known
    BY NoCallType DEF Init, Known, ImageKnown, Blank
  <1>4. DownIsCold /\ IdleHasNoFlag
    BY DEF Init, DownIsCold, IdleHasNoFlag
  <1> QED
    BY <1>1, <1>2, <1>3, <1>4 DEF Inv

(* Every step keeps them.                                                  *)
LEMMA InvStep == Inv /\ [Next]_vars => Inv'
  BY TypeStep, LockStep, DownStep, KnownStep, PrivateStep, GuardStep, IdleStep
     DEF Inv

(* They hold for ever.                                                     *)
LEMMA Invariance == Spec => []Inv
  BY InvInit, InvStep, PTL DEF Spec

(* No handler, however long it waited for the record, reaches the backend  *)
(* of a sandbox that was destroyed meanwhile.                              *)
THEOREM NoCallAfterDestroy == Spec => []DestroyedIsLeftAlone
  <1>1. Inv => DestroyedIsLeftAlone
    <2>1. \A o \in RecordCalls : "Destroyed" \notin From[o]
      BY DEF RecordCalls, From
    <2> QED
      BY <2>1 DEF Inv, GuardHolds, Placed, DestroyedIsLeftAlone
  <1> QED
    BY <1>1, Invariance, PTL

(* The backend of a paused, stopped or failed sandbox has its flag         *)
(* cleared, after any failure, cancellation, crash and restart: the next   *)
(* start or resume is not skipped.                                         *)
THEOREM IdleSandboxesAreNotFlagged == Spec => []IdleHasNoFlag
  BY Invariance, PTL DEF Inv

(* Whatever a step does to a record in the map is a transition that        *)
(* update_state() allows.                                                  *)
LEMMA LegalStep ==
  ASSUME Inv, [Next]_vars, NEW z \in boxes, server # "down", info'[z] # info[z]
  PROVE  info'[z] \in Lifecycle!Successors[info[z]]
  <1>types. /\ pc \in [Tasks -> Places] /\ call \in [Tasks -> Calls]
            /\ info \in [Sandboxes -> States] /\ boxes \subseteq Sandboxes
    BY DEF Inv, TypeOK
  <1>fresh. \A t \in Tasks : pc[t] = "boot" => call[t].box # z
    BY DEF Inv, BootIsPrivate
  <1>back. \A t \in Tasks : pc[t] = "backend" => info[call[t].box] \in From[call[t].op]
    BY DEF Inv, GuardHolds
  <1> USE <1>types, <1>fresh, TasksAssumption DEF Tasks, memory, local, files, history, Go, Return
  <1> DEFINE Legal == info'[z] \in Lifecycle!Successors[info[z]]
  <1> HIDE DEF Legal
  <1>1. ASSUME NEW t \in Clients, NEW k \in Keys \cup {NoKey}, BeginCreate(t, k)
        PROVE  Legal
    BY <1>1 DEF BeginCreate, Serve
  <1>2. ASSUME NEW t \in Clients, NEW o \in RecordOps, NEW s \in Sandboxes, BeginOp(t, o, s)
        PROVE  Legal
    BY <1>2 DEF BeginOp, Serve
  <1>3. ASSUME NEW t \in Clients, NEW n \in Snapshots, DeleteSnapshot(t, n)
        PROVE  Legal
    BY <1>3 DEF DeleteSnapshot, Serve
  <1>4. ASSUME NEW t \in Clients, Cancel(t)
        PROVE  Legal
    BY <1>4 DEF Cancel
  <1>5. ASSUME NEW t \in Tasks, CreateGuard(t)
        PROVE  Legal
    BY <1>5 DEF CreateGuard
  <1>6. ASSUME NEW t \in Tasks, CreateLookup(t)
        PROVE  Legal
    BY <1>6 DEF CreateLookup, Serve
  <1>7. ASSUME NEW t \in Tasks, CreateReplay(t)
        PROVE  Legal
    BY <1>7 DEF CreateReplay
  <1>8. ASSUME NEW t \in Tasks, NEW s \in Sandboxes, CreateMake(t, s)
        PROVE  Legal
    BY <1>8 DEF CreateMake, Serve
  <1>9. ASSUME NEW t \in Tasks, CreateMakeFails(t)
        PROVE  Legal
    BY <1>9 DEF CreateMakeFails
  <1>10. ASSUME NEW t \in Tasks, CreateBoot(t)
        PROVE  Legal
    BY <1>10 DEF CreateBoot
  <1>11. ASSUME NEW t \in Tasks, CreateBootFails(t)
        PROVE  Legal
    BY <1>11 DEF CreateBootFails
  <1>12. ASSUME NEW t \in Tasks, CreateBind(t)
        PROVE  Legal
    BY <1>12 DEF CreateBind
  <1>13. ASSUME NEW t \in Tasks, LockRecord(t)
        PROVE  Legal
    BY <1>13 DEF LockRecord
  <1>14. ASSUME NEW t \in Tasks, BackendOk(t)
        PROVE  Legal
    <2> DEFINE o == call[t].op
    <2>1. /\ o \in DOMAIN Target /\ z = call[t].box /\ info'[z] = Target[o]
          /\ info[z] \in From[o]
      BY <1>14, <1>back DEF BackendOk
    <2>2. o \in {"start", "resume", "stop", "pause", "destroy"}
      BY <2>1 DEF Target
    <2>3. CASE o = "start"
      BY <2>3, <2>1 DEF Target, From, Lifecycle!Successors, Legal
    <2>4. CASE o = "resume"
      BY <2>4, <2>1 DEF Target, From, Lifecycle!Successors, Legal
    <2>5. CASE o = "stop"
      BY <2>5, <2>1 DEF Target, From, Lifecycle!Successors, Legal
    <2>6. CASE o = "pause"
      BY <2>6, <2>1 DEF Target, From, Lifecycle!Successors, Legal
    <2>7. CASE o = "destroy"
      BY <2>7, <2>1 DEF Target, From, States, Lifecycle!Successors, Legal
    <2> QED
      BY <2>2, <2>3, <2>4, <2>5, <2>6, <2>7
  <1>15. ASSUME NEW t \in Tasks, BackendFails(t)
        PROVE  Legal
    BY <1>15 DEF BackendFails, Drained
  <1>16. ASSUME NEW t \in Tasks, DestroyUnmap(t)
        PROVE  Legal
    BY <1>16 DEF DestroyUnmap
  <1>17. ASSUME NEW t \in Tasks, DestroyUnbind(t)
        PROVE  Legal
    BY <1>17 DEF DestroyUnbind
  <1>18. ASSUME NEW t \in Tasks, PersistBegin(t)
        PROVE  Legal
    BY <1>18 DEF PersistBegin
  <1>19. ASSUME NEW t \in Tasks, NEW s \in Sandboxes, PersistCapture(t, s)
        PROVE  Legal
    BY <1>19 DEF PersistCapture
  <1>38. ASSUME NEW t \in Tasks, PersistSnapshots(t)
        PROVE  Legal
    BY <1>38 DEF PersistSnapshots
  <1>20. ASSUME NEW t \in Tasks, PersistIndex(t)
        PROVE  Legal
    BY <1>20 DEF PersistIndex
  <1>21. ASSUME NEW t \in Tasks, PersistWrite(t)
        PROVE  Legal
    BY <1>21 DEF PersistWrite
  <1>22. ASSUME NEW t \in Tasks, PersistRename(t)
        PROVE  Legal
    BY <1>22 DEF PersistRename, Drained
  <1>23. ASSUME NEW t \in Tasks, PersistFails(t)
        PROVE  Legal
    BY <1>23 DEF PersistFails, Drained
  <1>24. ASSUME NEW s \in Sandboxes, Expire(s)
        PROVE  Legal
    BY <1>24 DEF Expire
  <1>25. ASSUME ReapBegin
        PROVE  Legal
    BY <1>25 DEF ReapBegin
  <1>26. ASSUME NEW s \in Sandboxes, ReapList(s)
        PROVE  Legal
    BY <1>26 DEF ReapList
  <1>27. ASSUME ReapFilter
        PROVE  Legal
    BY <1>27 DEF ReapFilter
  <1>28. ASSUME NEW s \in Sandboxes, ReapAct(s)
        PROVE  Legal
    BY <1>28 DEF ReapAct, Serve
  <1>29. ASSUME ShutdownBegin
        PROVE  Legal
    BY <1>29 DEF ShutdownBegin, Serve
  <1>30. ASSUME NEW s \in Sandboxes, ShutdownVisit(s)
        PROVE  Legal
    BY <1>30 DEF ShutdownVisit, Serve
  <1>31. ASSUME ShutdownDone
        PROVE  Legal
    BY <1>31 DEF ShutdownDone
  <1>32. ASSUME NEW d \in detached, Detached(d)
        PROVE  Legal
    BY <1>32 DEF Detached
  <1>33. ASSUME Crash
        PROVE  Legal
    BY <1>33 DEF Crash, ProcessEnds
  <1>34. ASSUME Exit
        PROVE  Legal
    BY <1>34 DEF Exit, ProcessEnds
  <1>35. ASSUME Restart
        PROVE  Legal
    BY <1>35 DEF Restart
  <1>36. ASSUME RestartFails
        PROVE  Legal
    BY <1>36 DEF RestartFails
  <1>37. ASSUME UNCHANGED vars
        PROVE  Legal
    BY <1>37 DEF vars
  <1>39. Legal
    BY <1>1, <1>2, <1>3, <1>4, <1>5, <1>6, <1>7, <1>8, <1>9, <1>10, <1>11, <1>12, <1>13, <1>14,
       <1>15, <1>16, <1>17, <1>18, <1>19, <1>20, <1>21, <1>22, <1>23, <1>24, <1>25, <1>26,
       <1>27, <1>28, <1>29, <1>30, <1>31, <1>32, <1>33, <1>34, <1>35, <1>36, <1>37, <1>38
       DEF Next, Begin, Create, Operate, Persist, Continue, Reap, ShutdownStep
  <1> QED
    BY <1>39 DEF Legal

(* update_state() never refuses: whatever fails, is dropped or crashes,    *)
(* the state of a record moves as can_transition_to allows.                *)
THEOREM StatesMoveLegally == Spec => TransitionsAreLegal
  <1>1. ASSUME Inv, [Next]_vars
        PROVE  [\A s \in boxes : server # "down" /\ info'[s] # info[s] =>
                  info'[s] \in Lifecycle!Successors[info[s]]]_vars
    BY <1>1, LegalStep
  <1> QED
    BY <1>1, Invariance, PTL DEF Spec, TransitionsAreLegal

-----------------------------------------------------------------------------
(* A destroyed sandbox has no directory left, and neither has one that an  *)
(* image still calls destroyed: a start-up from such a file fails.         *)
Gone(s) == backend[s] = "absent" /\ s \in used

Buried(s) ==
  /\ info[s] = "Destroyed" \/ disk.state[s] = "Destroyed" => Gone(s)
  /\ tmp # NoImage /\ tmp.state[s] = "Destroyed" => Gone(s)
  /\ \A t \in Tasks : image[t].state[s] = "Destroyed" => Gone(s)
  /\ \A d \in detached : d.image.state[s] = "Destroyed" => Gone(s)

(* What is gone stays gone.                                                *)
LEMMA BuriedStep ==
  ASSUME Inv, [Next]_vars, NEW z \in Sandboxes, Buried(z)
  PROVE  Buried(z)'
  <1>types. /\ pc \in [Tasks -> Places] /\ call \in [Tasks -> Calls]
            /\ info \in [Sandboxes -> States] /\ backend \in [Sandboxes -> Backends]
            /\ image \in [Tasks -> Images] /\ disk \in Images /\ tmp \in Images \cup {NoImage}
            /\ \A d \in detached : d.image \in Images
    BY DEF Inv, TypeOK
  <1>boot. \A t \in Tasks : pc[t] = "boot" => backend[call[t].box] = "idle"
    BY DEF Inv, BootIsPrivate
  <1>absent. \A o \in Ops \cup {"none"} :
               /\ After(o, "absent") = "absent" /\ Broken(o, "absent") = {"absent"}
               /\ Interrupted(o, "absent") = {"absent"} /\ Orphaned(o, "absent") = {"absent"}
    <2>1. \A o \in Ops \cup {"none"} : After(o, "absent") = "absent" /\ Broken(o, "absent") = {"absent"}
      BY SMT DEF After, Broken, Starts, Flagged, Ops
    <2>2. \A o \in Ops \cup {"none"} : Interrupted(o, "absent") = {"absent"}
      BY <2>1, SMT DEF Interrupted, Flagged
    <2> QED
      BY <2>1, <2>2, SMT DEF Orphaned
  <1>blank. Blank.state[z] = "none"
    BY DEF Blank
  <1> USE <1>types, <1>boot, <1>blank, TasksAssumption
      DEF Buried, Gone, Tasks, memory, local, files, history, Go, Return
  <1>1. ASSUME NEW t \in Clients, NEW k \in Keys \cup {NoKey}, BeginCreate(t, k)
        PROVE  Buried(z)'
    BY <1>1 DEF BeginCreate, Serve
  <1>2. ASSUME NEW t \in Clients, NEW o \in RecordOps, NEW s \in Sandboxes, BeginOp(t, o, s)
        PROVE  Buried(z)'
    BY <1>2 DEF BeginOp, Serve
  <1>3. ASSUME NEW t \in Clients, NEW n \in Snapshots, DeleteSnapshot(t, n)
        PROVE  Buried(z)'
    BY <1>3 DEF DeleteSnapshot, Serve
  <1>4. ASSUME NEW t \in Clients, Cancel(t)
        PROVE  Buried(z)'
    <2>1. backend'[z] = "absent" \/ backend[z] # "absent"
      BY <1>4, <1>absent DEF Cancel, Calls, Unlock
    <2>2. UNCHANGED <<info, used, disk, tmp>>
      BY <1>4 DEF Cancel
    <2>3. \A u \in Tasks : image'[u].state[z] = "Destroyed" => image[u].state[z] = "Destroyed"
      BY <1>4 DEF Cancel
    <2>4. \A d \in detached' : d.image.state[z] = "Destroyed" =>
            \/ d \in detached
            \/ image[t].state[z] = "Destroyed"
      BY <1>4 DEF Cancel, Abandon
    <2> QED
      BY <2>1, <2>2, <2>3, <2>4
  <1>5. ASSUME NEW t \in Tasks, CreateGuard(t)
        PROVE  Buried(z)'
    BY <1>5 DEF CreateGuard
  <1>6. ASSUME NEW t \in Tasks, CreateLookup(t)
        PROVE  Buried(z)'
    BY <1>6 DEF CreateLookup, Serve
  <1>7. ASSUME NEW t \in Tasks, CreateReplay(t)
        PROVE  Buried(z)'
    BY <1>7 DEF CreateReplay
  <1>8. ASSUME NEW t \in Tasks, NEW s \in Sandboxes, CreateMake(t, s)
        PROVE  Buried(z)'
    BY <1>8 DEF CreateMake, Serve
  <1>9. ASSUME NEW t \in Tasks, CreateMakeFails(t)
        PROVE  Buried(z)'
    BY <1>9 DEF CreateMakeFails
  <1>10. ASSUME NEW t \in Tasks, CreateBoot(t)
        PROVE  Buried(z)'
    BY <1>10 DEF CreateBoot
  <1>11. ASSUME NEW t \in Tasks, CreateBootFails(t)
        PROVE  Buried(z)'
    BY <1>11 DEF CreateBootFails
  <1>12. ASSUME NEW t \in Tasks, CreateBind(t)
        PROVE  Buried(z)'
    BY <1>12 DEF CreateBind
  <1>13. ASSUME NEW t \in Tasks, LockRecord(t)
        PROVE  Buried(z)'
    BY <1>13 DEF LockRecord
  <1>14. ASSUME NEW t \in Tasks, BackendOk(t)
        PROVE  Buried(z)'
    <2>1. backend'[z] = "absent" \/ backend[z] # "absent"
      BY <1>14, <1>absent DEF BackendOk, Calls
    <2>2. /\ UNCHANGED <<image, disk, tmp, detached>>
          /\ used \subseteq used'
      BY <1>14 DEF BackendOk
    <2>3. info'[z] = "Destroyed" => info[z] = "Destroyed" \/ Gone(z)'
      <3>1. ASSUME info'[z] = "Destroyed", info[z] # "Destroyed" PROVE Gone(z)'
        <4>1. call[t].box = z /\ call[t].op = "destroy"
          BY <1>14, <3>1 DEF BackendOk, Target
        <4>2. z \in used
          BY <4>1, DataAssumption DEF Inv, Known
        <4>3. backend'[z] = After("destroy", backend[z])
          BY <1>14, <4>1 DEF BackendOk
        <4> QED
          BY <4>2, <4>3, <2>2 DEF After, Starts
      <3> QED
        BY <3>1
    <2> QED
      BY <2>1, <2>2, <2>3
  <1>15. ASSUME NEW t \in Tasks, BackendFails(t)
        PROVE  Buried(z)'
    <2>1. backend'[z] = "absent" \/ backend[z] # "absent"
      BY <1>15, <1>absent DEF BackendFails, Calls
    <2>2. UNCHANGED <<info, used, image, disk, tmp, detached>>
      BY <1>15 DEF BackendFails
    <2> QED
      BY <2>1, <2>2
  <1>16. ASSUME NEW t \in Tasks, DestroyUnmap(t)
        PROVE  Buried(z)'
    BY <1>16 DEF DestroyUnmap
  <1>17. ASSUME NEW t \in Tasks, DestroyUnbind(t)
        PROVE  Buried(z)'
    BY <1>17 DEF DestroyUnbind
  <1>18. ASSUME NEW t \in Tasks, PersistBegin(t)
        PROVE  Buried(z)'
    BY <1>18 DEF PersistBegin
  <1>19. ASSUME NEW t \in Tasks, NEW s \in Sandboxes, PersistCapture(t, s)
        PROVE  Buried(z)'
    BY <1>19 DEF PersistCapture
  <1>38. ASSUME NEW t \in Tasks, PersistSnapshots(t)
        PROVE  Buried(z)'
    BY <1>38 DEF PersistSnapshots
  <1>20. ASSUME NEW t \in Tasks, PersistIndex(t)
        PROVE  Buried(z)'
    BY <1>20 DEF PersistIndex
  <1>21. ASSUME NEW t \in Tasks, PersistWrite(t)
        PROVE  Buried(z)'
    BY <1>21 DEF PersistWrite
  <1>22. ASSUME NEW t \in Tasks, PersistRename(t)
        PROVE  Buried(z)'
    BY <1>22 DEF PersistRename, Drained, Answer
  <1>23. ASSUME NEW t \in Tasks, PersistFails(t)
        PROVE  Buried(z)'
    BY <1>23 DEF PersistFails, Drained
  <1>24. ASSUME NEW s \in Sandboxes, Expire(s)
        PROVE  Buried(z)'
    BY <1>24 DEF Expire
  <1>25. CASE ReapBegin
    BY <1>25 DEF ReapBegin
  <1>26. ASSUME NEW s \in Sandboxes, ReapList(s)
        PROVE  Buried(z)'
    BY <1>26 DEF ReapList
  <1>27. CASE ReapFilter
    BY <1>27 DEF ReapFilter
  <1>28. ASSUME NEW s \in Sandboxes, ReapAct(s)
        PROVE  Buried(z)'
    BY <1>28 DEF ReapAct, Serve
  <1>29. CASE ShutdownBegin
    BY <1>29 DEF ShutdownBegin, Serve
  <1>30. ASSUME NEW s \in Sandboxes, ShutdownVisit(s)
        PROVE  Buried(z)'
    BY <1>30 DEF ShutdownVisit, Serve
  <1>31. CASE ShutdownDone
    BY <1>31 DEF ShutdownDone
  <1>32. ASSUME NEW d \in detached, Detached(d)
        PROVE  Buried(z)'
    BY <1>32 DEF Detached
  <1>33. CASE Crash
    <2>1. backend'[z] = "absent" \/ backend[z] # "absent"
      BY <1>33, <1>absent DEF Crash, ProcessEnds, Calls
    <2> QED
      BY <1>33, <2>1 DEF Crash, ProcessEnds
  <1>34. CASE Exit
    <2>1. backend'[z] = "absent" \/ backend[z] # "absent"
      BY <1>34, <1>absent DEF Exit, ProcessEnds, Calls
    <2> QED
      BY <1>34, <2>1 DEF Exit, ProcessEnds
  <1>35. CASE Restart
    <2>1. backend'[z] = "absent" \/ backend[z] # "absent"
      <3>1. Loaded(z) = "Running" => z \in Saved
        BY <1>types DEF Loaded, Saved, Images, States
      <3> QED
        BY <1>35, <1>absent, <3>1 DEF Restart, Recovered, Ops
    <2>2. UNCHANGED <<used, image, detached>> /\ tmp' = NoImage
      BY <1>35 DEF Restart
    <2>3. info'[z] = "Destroyed" => info[z] = "Destroyed" \/ disk.state[z] = "Destroyed"
      BY <1>35 DEF Restart, Loaded
    <2>4. disk'.state[z] = "Destroyed" => disk.state[z] = "Destroyed"
      BY <1>35 DEF Restart, Loaded, Images
    <2> QED
      BY <2>1, <2>2, <2>3, <2>4
  <1>36. CASE RestartFails
    BY <1>36 DEF RestartFails
  <1>37. CASE UNCHANGED vars
    BY <1>37 DEF vars
  <1> QED
    BY <1>1, <1>2, <1>3, <1>4, <1>5, <1>6, <1>7, <1>8, <1>9, <1>10, <1>11, <1>12, <1>13, <1>14,
       <1>15, <1>16, <1>17, <1>18, <1>19, <1>20, <1>21, <1>22, <1>23, <1>24, <1>25, <1>26,
       <1>27, <1>28, <1>29, <1>30, <1>31, <1>32, <1>33, <1>34, <1>35, <1>36, <1>37, <1>38
       DEF Next, Begin, Create, Operate, Persist, Continue, Reap, ShutdownStep

(* No step takes it out of that state.                                     *)
LEMMA BurialLasts ==
  ASSUME Inv, [Next]_vars, NEW z \in Sandboxes, Buried(z), info[z] = "Destroyed"
  PROVE  info'[z] = "Destroyed"
  <1>types. /\ pc \in [Tasks -> Places] /\ call \in [Tasks -> Calls]
            /\ info \in [Sandboxes -> States]
    BY DEF Inv, TypeOK
  <1>gone. backend[z] = "absent"
    BY DEF Buried, Gone
  <1>boot. \A t \in Tasks : pc[t] = "boot" => call[t].box # z
    BY <1>gone DEF Inv, BootIsPrivate
  <1>back. \A t \in Tasks : pc[t] = "backend" => call[t].box # z
    <2>1. \A o \in RecordCalls : "Destroyed" \notin From[o]
      BY DEF RecordCalls, From
    <2> QED
      BY <2>1 DEF Inv, GuardHolds, Placed
  <1> USE <1>types, <1>gone, <1>boot, <1>back, TasksAssumption
      DEF Tasks, memory, local, files, history, Go, Return
  <1>1. ASSUME NEW t \in Clients, NEW k \in Keys \cup {NoKey}, BeginCreate(t, k)
        PROVE  info'[z] = "Destroyed"
    BY <1>1 DEF BeginCreate, Serve
  <1>2. ASSUME NEW t \in Clients, NEW o \in RecordOps, NEW s \in Sandboxes, BeginOp(t, o, s)
        PROVE  info'[z] = "Destroyed"
    BY <1>2 DEF BeginOp, Serve
  <1>3. ASSUME NEW t \in Clients, NEW n \in Snapshots, DeleteSnapshot(t, n)
        PROVE  info'[z] = "Destroyed"
    BY <1>3 DEF DeleteSnapshot, Serve
  <1>4. ASSUME NEW t \in Clients, Cancel(t)
        PROVE  info'[z] = "Destroyed"
    BY <1>4 DEF Cancel
  <1>5. ASSUME NEW t \in Tasks, CreateGuard(t)
        PROVE  info'[z] = "Destroyed"
    BY <1>5 DEF CreateGuard
  <1>6. ASSUME NEW t \in Tasks, CreateLookup(t)
        PROVE  info'[z] = "Destroyed"
    BY <1>6 DEF CreateLookup, Serve
  <1>7. ASSUME NEW t \in Tasks, CreateReplay(t)
        PROVE  info'[z] = "Destroyed"
    BY <1>7 DEF CreateReplay
  <1>8. ASSUME NEW t \in Tasks, NEW s \in Sandboxes, CreateMake(t, s)
        PROVE  info'[z] = "Destroyed"
    BY <1>8 DEF CreateMake, Serve
  <1>9. ASSUME NEW t \in Tasks, CreateMakeFails(t)
        PROVE  info'[z] = "Destroyed"
    BY <1>9 DEF CreateMakeFails
  <1>10. ASSUME NEW t \in Tasks, CreateBoot(t)
        PROVE  info'[z] = "Destroyed"
    BY <1>10 DEF CreateBoot
  <1>11. ASSUME NEW t \in Tasks, CreateBootFails(t)
        PROVE  info'[z] = "Destroyed"
    BY <1>11 DEF CreateBootFails
  <1>12. ASSUME NEW t \in Tasks, CreateBind(t)
        PROVE  info'[z] = "Destroyed"
    BY <1>12 DEF CreateBind
  <1>13. ASSUME NEW t \in Tasks, LockRecord(t)
        PROVE  info'[z] = "Destroyed"
    BY <1>13 DEF LockRecord
  <1>14. ASSUME NEW t \in Tasks, BackendOk(t)
        PROVE  info'[z] = "Destroyed"
    BY <1>14 DEF BackendOk
  <1>15. ASSUME NEW t \in Tasks, BackendFails(t)
        PROVE  info'[z] = "Destroyed"
    BY <1>15 DEF BackendFails, Drained
  <1>16. ASSUME NEW t \in Tasks, DestroyUnmap(t)
        PROVE  info'[z] = "Destroyed"
    BY <1>16 DEF DestroyUnmap
  <1>17. ASSUME NEW t \in Tasks, DestroyUnbind(t)
        PROVE  info'[z] = "Destroyed"
    BY <1>17 DEF DestroyUnbind
  <1>18. ASSUME NEW t \in Tasks, PersistBegin(t)
        PROVE  info'[z] = "Destroyed"
    BY <1>18 DEF PersistBegin
  <1>19. ASSUME NEW t \in Tasks, NEW s \in Sandboxes, PersistCapture(t, s)
        PROVE  info'[z] = "Destroyed"
    BY <1>19 DEF PersistCapture
  <1>38. ASSUME NEW t \in Tasks, PersistSnapshots(t)
        PROVE  info'[z] = "Destroyed"
    BY <1>38 DEF PersistSnapshots
  <1>20. ASSUME NEW t \in Tasks, PersistIndex(t)
        PROVE  info'[z] = "Destroyed"
    BY <1>20 DEF PersistIndex
  <1>21. ASSUME NEW t \in Tasks, PersistWrite(t)
        PROVE  info'[z] = "Destroyed"
    BY <1>21 DEF PersistWrite
  <1>22. ASSUME NEW t \in Tasks, PersistRename(t)
        PROVE  info'[z] = "Destroyed"
    BY <1>22 DEF PersistRename, Drained
  <1>23. ASSUME NEW t \in Tasks, PersistFails(t)
        PROVE  info'[z] = "Destroyed"
    BY <1>23 DEF PersistFails, Drained
  <1>24. ASSUME NEW s \in Sandboxes, Expire(s)
        PROVE  info'[z] = "Destroyed"
    BY <1>24 DEF Expire
  <1>25. ASSUME ReapBegin
        PROVE  info'[z] = "Destroyed"
    BY <1>25 DEF ReapBegin
  <1>26. ASSUME NEW s \in Sandboxes, ReapList(s)
        PROVE  info'[z] = "Destroyed"
    BY <1>26 DEF ReapList
  <1>27. ASSUME ReapFilter
        PROVE  info'[z] = "Destroyed"
    BY <1>27 DEF ReapFilter
  <1>28. ASSUME NEW s \in Sandboxes, ReapAct(s)
        PROVE  info'[z] = "Destroyed"
    BY <1>28 DEF ReapAct, Serve
  <1>29. ASSUME ShutdownBegin
        PROVE  info'[z] = "Destroyed"
    BY <1>29 DEF ShutdownBegin, Serve
  <1>30. ASSUME NEW s \in Sandboxes, ShutdownVisit(s)
        PROVE  info'[z] = "Destroyed"
    BY <1>30 DEF ShutdownVisit, Serve
  <1>31. ASSUME ShutdownDone
        PROVE  info'[z] = "Destroyed"
    BY <1>31 DEF ShutdownDone
  <1>32. ASSUME NEW d \in detached, Detached(d)
        PROVE  info'[z] = "Destroyed"
    BY <1>32 DEF Detached
  <1>33. ASSUME Crash
        PROVE  info'[z] = "Destroyed"
    BY <1>33 DEF Crash, ProcessEnds
  <1>34. ASSUME Exit
        PROVE  info'[z] = "Destroyed"
    BY <1>34 DEF Exit, ProcessEnds
  <1>35. ASSUME Restart
        PROVE  info'[z] = "Destroyed"
    BY <1>35 DEF Restart, Saved
  <1>36. ASSUME RestartFails
        PROVE  info'[z] = "Destroyed"
    BY <1>36 DEF RestartFails
  <1>37. ASSUME UNCHANGED vars
        PROVE  info'[z] = "Destroyed"
    BY <1>37 DEF vars
  <1> QED
    BY <1>1, <1>2, <1>3, <1>4, <1>5, <1>6, <1>7, <1>8, <1>9, <1>10, <1>11, <1>12, <1>13, <1>14,
       <1>15, <1>16, <1>17, <1>18, <1>19, <1>20, <1>21, <1>22, <1>23, <1>24, <1>25, <1>26,
       <1>27, <1>28, <1>29, <1>30, <1>31, <1>32, <1>33, <1>34, <1>35, <1>36, <1>37, <1>38
       DEF Next, Begin, Create, Operate, Persist, Continue, Reap, ShutdownStep

(* It holds for ever.                                                      *)
LEMMA BuriedInvariance == Spec => [](\A s \in Sandboxes : Buried(s))
  <1>1. ASSUME Init PROVE \A s \in Sandboxes : Buried(s)
    BY <1>1 DEF Init, Buried, Blank
  <1>2. ASSUME Inv, \A s \in Sandboxes : Buried(s), [Next]_vars
        PROVE  (\A s \in Sandboxes : Buried(s))'
    BY <1>2, BuriedStep
  <1> QED
    BY <1>1, <1>2, Invariance, PTL DEF Spec

(* Nothing brings a destroyed sandbox back, whatever is dropped, fails or  *)
(* is written late, not even a restart from a file that still has it: its  *)
(* state never changes again and it has neither VMM nor directory.         *)
THEOREM DestroyedStaysDestroyed ==
  Spec => /\ [](\A s \in Sandboxes : info[s] = "Destroyed" => backend[s] = "absent")
          /\ [][\A s \in Sandboxes : info[s] = "Destroyed" => info'[s] = "Destroyed"]_vars
  <1>1. (\A s \in Sandboxes : Buried(s)) =>
          \A s \in Sandboxes : info[s] = "Destroyed" => backend[s] = "absent"
    BY DEF Buried, Gone
  <1>2. ASSUME Inv, \A s \in Sandboxes : Buried(s), [Next]_vars
        PROVE  [\A s \in Sandboxes : info[s] = "Destroyed" => info'[s] = "Destroyed"]_vars
    BY <1>2, BurialLasts
  <1> QED
    BY <1>1, <1>2, Invariance, BuriedInvariance, PTL DEF Spec

-----------------------------------------------------------------------------
(* One sandbox per Idempotency-Key, in a process that serves on and whose  *)
(* clients wait for their answers.                                         *)

StaysUp == server = "up"

(* The key of a live sandbox is bound to it, or its creator is about to    *)
(* bind it and, holding the create guard, is the only one to look it up.   *)
KeyBound ==
  /\ \A t \in Tasks : pc[t] \in {"make", "boot", "bind"} /\ call[t].key \in Keys =>
       keys[call[t].key] = NoBox
  /\ \A t \in Tasks : pc[t] \in {"boot", "bind"} => madeFor[call[t].box] = call[t].key
  /\ \A t \in Tasks : pc[t] \in {"unmap", "unbind"} => info[call[t].box] = "Destroyed"
  /\ \A s \in Sandboxes : Live(s) /\ madeFor[s] \in Keys =>
       keys[madeFor[s]] = s \/ \E t \in Tasks : pc[t] = "bind" /\ call[t].box = s

(* No handler breaks the binding of a key: creation is serialized, destroy *)
(* unbinds only what it has destroyed.                                     *)
LEMMA KeyStep ==
  ASSUME Faults \cap {"cancel", "crash"} = {}, Shutdown \notin Daemons,
         TypeOK, Placed, LockDiscipline, BootIsPrivate, Known, GuardHolds,
         StaysUp, KeyBound, [Next]_vars
  PROVE  StaysUp' /\ KeyBound'
  <1>types. /\ pc \in [Tasks -> Places] /\ call \in [Tasks -> Calls] /\ info \in [Sandboxes -> States]
            /\ keys \in [Keys -> Sandboxes \cup {NoBox}] /\ boxes \subseteq Sandboxes
            /\ madeFor \in [Sandboxes -> Keys \cup {NoKey}]
    BY DEF TypeOK
  <1>parts. \A t \in Tasks : call[t].key \in Keys \cup {NoKey}
    BY <1>types, CallParts
  <1>guard. \A t, u \in Tasks : pc[t] \in Creating /\ pc[u] \in Creating => t = u
    BY DEF LockDiscipline
  <1>known. boxes \subseteq used /\ \A t \in Tasks : call[t].box # NoBox => call[t].box \in used
    BY DEF Known
  <1>fresh. \A t \in Tasks : pc[t] = "boot" =>
              /\ call[t].box \notin boxes
              /\ \A u \in Tasks : u # t => call[u].box # call[t].box
    BY DEF BootIsPrivate
  <1>gone. \A s \in Sandboxes : info[s] = "Destroyed" \/ Allowed("destroy", s)
    BY <1>types DEF Allowed, From, NeedsNoSecrets
  <1>back. \A t \in Tasks :
             pc[t] = "backend" => \/ info[call[t].box] \notin {"Failed", "Destroyed"}
                                  \/ call[t].op = "destroy" /\ info[call[t].box] # "Destroyed"
    BY DEF GuardHolds, Placed, RecordCalls, From
  <1> USE <1>gone, <1>back, <1>types, <1>parts, <1>guard, <1>known, <1>fresh, TasksAssumption, DataAssumption, NoCallType
      DEF Placed, RecordCalls, KeyBound, StaysUp, Live, Creating, Tasks, memory, local, history, Go, Return
  <1>1. ASSUME NEW t \in Clients, NEW k \in Keys \cup {NoKey}, BeginCreate(t, k)
        PROVE  StaysUp' /\ KeyBound'
    BY <1>1 DEF BeginCreate, Serve
  <1>2. ASSUME NEW t \in Clients, NEW o \in RecordOps, NEW s \in Sandboxes, BeginOp(t, o, s)
        PROVE  StaysUp' /\ KeyBound'
    BY <1>2 DEF BeginOp, Serve
  <1>3. ASSUME NEW t \in Clients, NEW n \in Snapshots, DeleteSnapshot(t, n)
        PROVE  StaysUp' /\ KeyBound'
    BY <1>3 DEF DeleteSnapshot, Serve
  <1>4. ASSUME NEW t \in Clients, Cancel(t)
        PROVE  StaysUp' /\ KeyBound'
    BY <1>4 DEF Cancel
  <1>5. ASSUME NEW t \in Tasks, CreateGuard(t)
        PROVE  StaysUp' /\ KeyBound'
    BY <1>5 DEF CreateGuard
  <1>6. ASSUME NEW t \in Tasks, CreateLookup(t)
        PROVE  StaysUp' /\ KeyBound'
    BY <1>6 DEF CreateLookup, Serve
  <1>7. ASSUME NEW t \in Tasks, CreateReplay(t)
        PROVE  StaysUp' /\ KeyBound'
    BY <1>7 DEF CreateReplay
  <1>8. ASSUME NEW t \in Tasks, NEW s \in Sandboxes, CreateMake(t, s)
        PROVE  StaysUp' /\ KeyBound'
    BY <1>8 DEF CreateMake, Serve
  <1>9. ASSUME NEW t \in Tasks, CreateMakeFails(t)
        PROVE  StaysUp' /\ KeyBound'
    BY <1>9 DEF CreateMakeFails
  <1>10. ASSUME NEW t \in Tasks, CreateBoot(t)
        PROVE  StaysUp' /\ KeyBound'
    BY <1>10 DEF CreateBoot
  <1>11. ASSUME NEW t \in Tasks, CreateBootFails(t)
        PROVE  StaysUp' /\ KeyBound'
    BY <1>11 DEF CreateBootFails
  <1>12. ASSUME NEW t \in Tasks, CreateBind(t)
        PROVE  StaysUp' /\ KeyBound'
    BY <1>12 DEF CreateBind
  <1>13. ASSUME NEW t \in Tasks, LockRecord(t)
        PROVE  StaysUp' /\ KeyBound'
    BY <1>13 DEF LockRecord
  <1>14. ASSUME NEW t \in Tasks, BackendOk(t)
        PROVE  StaysUp' /\ KeyBound'
    BY <1>14 DEF BackendOk, NextPlace, Target
  <1>15. ASSUME NEW t \in Tasks, BackendFails(t)
        PROVE  StaysUp' /\ KeyBound'
    BY <1>15 DEF BackendFails, Drained
  <1>16. ASSUME NEW t \in Tasks, DestroyUnmap(t)
        PROVE  StaysUp' /\ KeyBound'
    BY <1>16 DEF DestroyUnmap
  <1>17. ASSUME NEW t \in Tasks, DestroyUnbind(t)
        PROVE  StaysUp' /\ KeyBound'
    BY <1>17 DEF DestroyUnbind
  <1>18. ASSUME NEW t \in Tasks, PersistBegin(t)
        PROVE  StaysUp' /\ KeyBound'
    BY <1>18 DEF PersistBegin
  <1>19. ASSUME NEW t \in Tasks, NEW s \in Sandboxes, PersistCapture(t, s)
        PROVE  StaysUp' /\ KeyBound'
    BY <1>19 DEF PersistCapture
  <1>38. ASSUME NEW t \in Tasks, PersistSnapshots(t)
        PROVE  StaysUp' /\ KeyBound'
    BY <1>38 DEF PersistSnapshots
  <1>20. ASSUME NEW t \in Tasks, PersistIndex(t)
        PROVE  StaysUp' /\ KeyBound'
    BY <1>20 DEF PersistIndex
  <1>21. ASSUME NEW t \in Tasks, PersistWrite(t)
        PROVE  StaysUp' /\ KeyBound'
    BY <1>21 DEF PersistWrite
  <1>22. ASSUME NEW t \in Tasks, PersistRename(t)
        PROVE  StaysUp' /\ KeyBound'
    BY <1>22 DEF PersistRename, Drained
  <1>23. ASSUME NEW t \in Tasks, PersistFails(t)
        PROVE  StaysUp' /\ KeyBound'
    BY <1>23 DEF PersistFails, Drained
  <1>24. ASSUME NEW s \in Sandboxes, Expire(s)
        PROVE  StaysUp' /\ KeyBound'
    BY <1>24 DEF Expire
  <1>25. CASE ReapBegin
    BY <1>25 DEF ReapBegin
  <1>26. ASSUME NEW s \in Sandboxes, ReapList(s)
        PROVE  StaysUp' /\ KeyBound'
    BY <1>26 DEF ReapList
  <1>27. CASE ReapFilter
    BY <1>27 DEF ReapFilter
  <1>28. ASSUME NEW s \in Sandboxes, ReapAct(s)
        PROVE  StaysUp' /\ KeyBound'
    BY <1>28 DEF ReapAct, Serve
  <1>29. CASE ShutdownBegin
    BY <1>29 DEF ShutdownBegin
  <1>30. ASSUME NEW s \in Sandboxes, ShutdownVisit(s)
        PROVE  StaysUp' /\ KeyBound'
    BY <1>30 DEF ShutdownVisit, Serve
  <1>31. CASE ShutdownDone
    BY <1>31 DEF ShutdownDone
  <1>32. ASSUME NEW d \in detached, Detached(d)
        PROVE  StaysUp' /\ KeyBound'
    BY <1>32 DEF Detached
  <1>33. CASE Crash
    BY <1>33 DEF Crash, ProcessEnds
  <1>34. CASE Exit
    BY <1>34 DEF Exit
  <1>35. CASE Restart
    BY <1>35 DEF Restart
  <1>36. CASE RestartFails
    BY <1>36 DEF RestartFails
  <1>37. CASE UNCHANGED vars
    BY <1>37 DEF vars
  <1> QED
    BY <1>1, <1>2, <1>3, <1>4, <1>5, <1>6, <1>7, <1>8, <1>9, <1>10, <1>11,
       <1>12, <1>13, <1>14,
       <1>15, <1>16, <1>17, <1>18, <1>19, <1>20, <1>21, <1>22, <1>23, <1>24, <1>25, <1>26,
       <1>27, <1>28, <1>29, <1>30, <1>31, <1>32, <1>33, <1>34, <1>35, <1>36, <1>37, <1>38
       DEF Next, Begin, Create, Operate, Persist, Continue, Reap, ShutdownStep

(* "Concurrent retries with the same key observe one sandbox"              *)
(* (vm-runtime/src/lib.rs:233), for any number of clients and keys, while  *)
(* no request is dropped and the process neither crashes nor shuts down;   *)
(* backend calls and file operations may fail.                             *)
THEOREM RetriesObserveOneSandbox ==
  ASSUME Faults \cap {"cancel", "crash"} = {}, Shutdown \notin Daemons
  PROVE  Spec => []OneSandboxPerKey
  <1>1. Init => StaysUp /\ KeyBound
    BY DEF Init, StaysUp, KeyBound, Live
  <1>2. Inv /\ StaysUp /\ KeyBound /\ [Next]_vars => (StaysUp /\ KeyBound)'
    BY KeyStep DEF Inv
  <1>3. Inv /\ KeyBound => OneSandboxPerKey
    <2> SUFFICES ASSUME Inv, KeyBound, NEW r \in Sandboxes, NEW s \in Sandboxes,
                        Live(r), Live(s), madeFor[r] = madeFor[s], madeFor[r] # NoKey
                 PROVE  r = s
      BY DEF OneSandboxPerKey
    <2>1. madeFor[r] \in Keys
      BY DEF Inv, TypeOK
    <2>2. \A t, u \in Tasks : pc[t] = "bind" /\ pc[u] = "bind" => t = u
      BY DEF Inv, LockDiscipline, Creating
    <2>3. \A t \in Tasks : pc[t] = "bind" /\ madeFor[call[t].box] \in Keys =>
            keys[madeFor[call[t].box]] = NoBox
      BY DEF KeyBound
    <2> QED
      BY <2>1, <2>2, <2>3, DataAssumption DEF KeyBound
  <1> QED
    BY <1>1, <1>2, <1>3, Invariance, PTL DEF Spec
=============================================================================
