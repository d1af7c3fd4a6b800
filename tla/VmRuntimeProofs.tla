---------------------------- MODULE VmRuntimeProofs ----------------------------
(***************************************************************************)
(* Types and mutexes of the control plane, for any number of clients,      *)
(* sandboxes and keys and under every fault.  TypeOK is not inductive on   *)
(* its own: the arguments of a call are what its place in the handler says *)
(* (Placed).  LockDiscipline then follows step by step.                    *)
(***************************************************************************)
EXTENDS VmRuntime, TLAPS

(* The fields of a call.                                                   *)
LEMMA CallParts ==
  ASSUME NEW c \in Calls
  PROVE  c.op \in Ops /\ c.box \in Sandboxes \cup {NoBox} /\ c.key \in Keys \cup {NoKey}
  BY DEF Calls

(* What Serve(t, o, s, k) does to the calls of all tasks.                  *)
LEMMA Served ==
  ASSUME call \in [Tasks -> Calls], NEW t \in Tasks, NEW o \in Ops,
         NEW s \in Sandboxes \cup {NoBox}, NEW k \in Keys \cup {NoKey}, Serve(t, o, s, k)
  PROVE  /\ call' \in [Tasks -> Calls]
         /\ \A u \in Tasks \ {t} : call'[u] = call[u]
         /\ call'[t].op = o /\ call'[t].box = s /\ call'[t].key = k
  <1> DEFINE c == [op |-> o, box |-> s, key |-> k]
  <1>1. c \in Calls /\ c.op = o /\ c.box = s /\ c.key = k
    BY DEF Calls
  <1>2. call' = [call EXCEPT ![t] = c]
    BY DEF Serve
  <1> QED
    BY <1>1, <1>2

(* A task between two requests has no arguments.                           *)
LEMMA NoCallType == NoCall \in Calls /\ NoCall.op = "none" /\ NoCall.box = NoBox
  BY DEF NoCall, Calls, Ops

(* The empty control-plane file is an image of one.                        *)
LEMMA BlankType == Blank \in Images
  BY DEF Blank, Images

(* One record captured: only its state in the image of t changes.          *)
LEMMA Captured ==
  ASSUME image \in [Tasks -> Images], info \in [Sandboxes -> States],
         NEW t \in Tasks, NEW s \in Sandboxes, PersistCapture(t, s)
  PROVE  /\ image' \in [Tasks -> Images]
         /\ \A u \in Tasks \ {t} : image'[u] = image[u]
         /\ image'[t].keys = image[t].keys
         /\ \A r \in Sandboxes \ {s} : image'[t].state[r] = image[t].state[r]
  <1> DEFINE st == [image[t].state EXCEPT ![s] = info[s]]
             i  == [image[t] EXCEPT !.state = st]
  <1>1. st \in [Sandboxes -> States \cup {"none"}]
    BY DEF Images
  <1>2. i \in Images /\ i.state = st /\ i.keys = image[t].keys
    BY <1>1 DEF Images
  <1>3. image' = [image EXCEPT ![t] = i]
    BY DEF PersistCapture
  <1>4. \A r \in Sandboxes \ {s} : st[r] = image[t].state[r]
    BY DEF Images
  <1> QED
    BY <1>2, <1>3, <1>4

(* The snapshots read: the records captured before stay as they are.       *)
LEMMA SnapshotsRead ==
  ASSUME image \in [Tasks -> Images], snaps \subseteq Snapshots, NEW t \in Tasks,
         PersistSnapshots(t)
  PROVE  /\ image' \in [Tasks -> Images]
         /\ \A u \in Tasks \ {t} : image'[u] = image[u]
         /\ image'[t].state = image[t].state /\ image'[t].snaps = snaps
  <1> DEFINE i == [image[t] EXCEPT !.snaps = snaps]
  <1>1. i \in Images /\ i.state = image[t].state /\ i.snaps = snaps
    BY DEF Images
  <1>2. image' = [image EXCEPT ![t] = i]
    BY DEF PersistSnapshots
  <1> QED
    BY <1>1, <1>2

(* The index read: records and snapshots stay as they are.                 *)
LEMMA Indexed ==
  ASSUME image \in [Tasks -> Images], keys \in [Keys -> Sandboxes \cup {NoBox}],
         NEW t \in Tasks, PersistIndex(t)
  PROVE  /\ image' \in [Tasks -> Images]
         /\ \A u \in Tasks \ {t} : image'[u] = image[u]
         /\ image'[t].state = image[t].state /\ image'[t].keys = keys
         /\ image'[t].snaps = image[t].snaps
  <1> DEFINE i == [image[t] EXCEPT !.keys = keys]
  <1>1. i \in Images /\ i.state = image[t].state /\ i.keys = keys /\ i.snaps = image[t].snaps
    BY DEF Images
  <1>2. image' = [image EXCEPT ![t] = i]
    BY DEF PersistIndex
  <1> QED
    BY <1>1, <1>2

(* The program starts with values of the right types.                      *)
LEMMA TypeInit == Init => TypeOK
  BY TasksAssumption, DataAssumption, NoCallType, BlankType
  DEF Init, TypeOK, Tasks, Places, States, Backends, Blank


-----------------------------------------------------------------------------
(* The calls made with a record locked.                                    *)
RecordCalls ==
  {"start", "pause", "resume", "stop", "destroy", "use", "peek", "snapshot", "checkpoint"}

(* What the arguments of a call are at each place of its handler.          *)
Placed ==
  \A t \in Tasks :
    /\ pc[t] \in {"guard"} \cup Creating => call[t].op = "create"
    /\ pc[t] \in {"lookup", "replay", "bind"} => call[t].key \in Keys
    /\ pc[t] \in {"replay", "boot", "bind", "lock", "backend", "unmap", "unbind"} =>
         call[t].box \in Sandboxes
    /\ pc[t] \in {"lock", "backend"} => call[t].op \in RecordCalls
    /\ pc[t] \in {"unmap", "unbind"} => call[t].op = "destroy"
    /\ pc[t] = "checkpoint" => call[t].op = "checkpoint"

(* Every step of every handler keeps types and places.                     *)
LEMMA TypeStep == TypeOK /\ Placed /\ [Next]_vars => TypeOK' /\ Placed'
  <1> SUFFICES ASSUME TypeOK, Placed, [Next]_vars PROVE TypeOK' /\ Placed'
    OBVIOUS
  <1> USE TasksAssumption, DataAssumption, NoCallType, BlankType
      DEF TypeOK, Placed, RecordCalls, Creating, Tasks, Places, States, Backends, memory,
          locks, local, files, history, Go, Return

  <1>1. ASSUME NEW t \in Clients, NEW k \in Keys \cup {NoKey}, BeginCreate(t, k)
        PROVE  TypeOK' /\ Placed'
    <2>1. "create" \in Ops
      BY DEF Ops
    <2>2. /\ call' \in [Tasks -> Calls]
          /\ \A u \in Tasks \ {t} : call'[u] = call[u]
          /\ call'[t].op = "create" /\ call'[t].box = NoBox /\ call'[t].key = k
      BY <1>1, <2>1, Served DEF BeginCreate
    <2>3. TypeOK'
      BY <1>1, <2>1, <2>2 DEF BeginCreate
    <2>4. Placed'
      BY <1>1, <2>1, <2>2 DEF BeginCreate
    <2> QED
      BY <2>3, <2>4
  <1>2. ASSUME NEW t \in Clients, NEW o \in RecordOps, NEW s \in Sandboxes, BeginOp(t, o, s)
        PROVE  TypeOK' /\ Placed'
    <2>1. o \in Ops
      BY DataAssumption DEF Ops
    <2>2. /\ call' \in [Tasks -> Calls]
          /\ \A u \in Tasks \ {t} : call'[u] = call[u]
          /\ call'[t].op = o /\ call'[t].box = s /\ call'[t].key = NoKey
      BY <1>2, <2>1, Served DEF BeginOp
    <2>3. TypeOK'
      BY <1>2, <2>1, <2>2 DEF BeginOp
    <2>4. Placed'
      BY <1>2, <2>1, <2>2 DEF BeginOp
    <2> QED
      BY <2>3, <2>4
  <1>3. ASSUME NEW t \in Clients, NEW n \in Snapshots, DeleteSnapshot(t, n)
        PROVE  TypeOK' /\ Placed'
    <2>1. "deleteSnapshot" \in Ops
      BY DEF Ops
    <2>2. /\ call' \in [Tasks -> Calls]
          /\ \A u \in Tasks \ {t} : call'[u] = call[u]
          /\ call'[t].op = "deleteSnapshot" /\ call'[t].box = NoBox /\ call'[t].key = NoKey
      BY <1>3, <2>1, Served DEF DeleteSnapshot
    <2>3. TypeOK'
      BY <1>3, <2>1, <2>2 DEF DeleteSnapshot
    <2>4. Placed'
      BY <1>3, <2>1, <2>2 DEF DeleteSnapshot
    <2> QED
      BY <2>3, <2>4
  <1>4. ASSUME NEW t \in Clients, Cancel(t)
        PROVE  TypeOK' /\ Placed'
    <2>1. TypeOK'
      BY <1>4 DEF Cancel, Abandon, Release, Unlock, Interrupted, Broken
    <2>2. Placed'
      BY <1>4 DEF Cancel, Abandon, Release, Unlock, Interrupted, Broken
    <2> QED
      BY <2>1, <2>2
  <1>5. ASSUME NEW t \in Tasks, CreateGuard(t)
        PROVE  TypeOK' /\ Placed'
    <2>1. call[t].key \in Keys \cup {NoKey}
      BY CallParts
    <2>2. TypeOK'
      BY <1>5, <2>1 DEF CreateGuard
    <2>3. Placed'
      BY <1>5, <2>1 DEF CreateGuard
    <2> QED
      BY <2>2, <2>3
  <1>6. ASSUME NEW t \in Tasks, CreateLookup(t)
        PROVE  TypeOK' /\ Placed'
    <2>1. call[t].key \in Keys /\ keys[call[t].key] \in Sandboxes \cup {NoBox}
      BY <1>6 DEF CreateLookup
    <2>2. "create" \in Ops
      BY DEF Ops
    <2>3. keys[call[t].key] # NoBox =>
          /\ call' \in [Tasks -> Calls]
          /\ \A u \in Tasks \ {t} : call'[u] = call[u]
          /\ call'[t].op = "create" /\ call'[t].box = keys[call[t].key] /\ call'[t].key = call[t].key
      BY <1>6, <2>1, <2>2, Served DEF CreateLookup
    <2>4. TypeOK'
      BY <1>6, <2>1, <2>2, <2>3 DEF CreateLookup
    <2>5. Placed'
      BY <1>6, <2>1, <2>2, <2>3 DEF CreateLookup
    <2> QED
      BY <2>4, <2>5
  <1>7. ASSUME NEW t \in Tasks, CreateReplay(t)
        PROVE  TypeOK' /\ Placed'
    <2>1. TypeOK'
      BY <1>7 DEF CreateReplay
    <2>2. Placed'
      BY <1>7 DEF CreateReplay
    <2> QED
      BY <2>1, <2>2
  <1>8. ASSUME NEW t \in Tasks, NEW s \in Sandboxes, CreateMake(t, s)
        PROVE  TypeOK' /\ Placed'
    <2>1. call[t].key \in Keys \cup {NoKey}
      BY CallParts
    <2>2. "create" \in Ops
      BY DEF Ops
    <2>3. /\ call' \in [Tasks -> Calls]
          /\ \A u \in Tasks \ {t} : call'[u] = call[u]
          /\ call'[t].op = "create" /\ call'[t].box = s /\ call'[t].key = call[t].key
      BY <1>8, <2>1, <2>2, Served DEF CreateMake
    <2>4. TypeOK'
      BY <1>8, <2>1, <2>2, <2>3 DEF CreateMake
    <2>5. Placed'
      BY <1>8, <2>1, <2>2, <2>3 DEF CreateMake
    <2> QED
      BY <2>4, <2>5
  <1>9. ASSUME NEW t \in Tasks, CreateMakeFails(t)
        PROVE  TypeOK' /\ Placed'
    <2>1. TypeOK'
      BY <1>9 DEF CreateMakeFails
    <2>2. Placed'
      BY <1>9 DEF CreateMakeFails
    <2> QED
      BY <2>1, <2>2
  <1>10. ASSUME NEW t \in Tasks, CreateBoot(t)
        PROVE  TypeOK' /\ Placed'
    <2>1. call[t].key \in Keys \cup {NoKey}
      BY CallParts
    <2>2. TypeOK'
      BY <1>10, <2>1 DEF CreateBoot, After
    <2>3. Placed'
      BY <1>10, <2>1 DEF CreateBoot, After
    <2> QED
      BY <2>2, <2>3
  <1>11. ASSUME NEW t \in Tasks, CreateBootFails(t)
        PROVE  TypeOK' /\ Placed'
    <2>1. TypeOK'
      BY <1>11 DEF CreateBootFails, Broken
    <2>2. Placed'
      BY <1>11 DEF CreateBootFails, Broken
    <2> QED
      BY <2>1, <2>2
  <1>12. ASSUME NEW t \in Tasks, CreateBind(t)
        PROVE  TypeOK' /\ Placed'
    <2>1. TypeOK'
      BY <1>12 DEF CreateBind
    <2>2. Placed'
      BY <1>12 DEF CreateBind
    <2> QED
      BY <2>1, <2>2
  <1>13. ASSUME NEW t \in Tasks, LockRecord(t)
        PROVE  TypeOK' /\ Placed'
    <2>1. TypeOK'
      BY <1>13 DEF LockRecord
    <2>2. Placed'
      BY <1>13 DEF LockRecord
    <2> QED
      BY <2>1, <2>2
  <1>14. ASSUME NEW t \in Tasks, BackendOk(t)
        PROVE  TypeOK' /\ Placed'
    <2>1. TypeOK'
      BY <1>14 DEF BackendOk, After, Target, Unlock, NextPlace
    <2>2. Placed'
      BY <1>14 DEF BackendOk, After, Target, Unlock, NextPlace
    <2> QED
      BY <2>1, <2>2
  <1>15. ASSUME NEW t \in Tasks, BackendFails(t)
        PROVE  TypeOK' /\ Placed'
    <2>1. TypeOK'
      BY <1>15 DEF BackendFails, Broken, Drained, Unlock
    <2>2. Placed'
      BY <1>15 DEF BackendFails, Broken, Drained, Unlock
    <2> QED
      BY <2>1, <2>2
  <1>16. ASSUME NEW t \in Tasks, DestroyUnmap(t)
        PROVE  TypeOK' /\ Placed'
    <2>1. TypeOK'
      BY <1>16 DEF DestroyUnmap
    <2>2. Placed'
      BY <1>16 DEF DestroyUnmap
    <2> QED
      BY <2>1, <2>2
  <1>17. ASSUME NEW t \in Tasks, DestroyUnbind(t)
        PROVE  TypeOK' /\ Placed'
    <2>1. TypeOK'
      BY <1>17 DEF DestroyUnbind
    <2>2. Placed'
      BY <1>17 DEF DestroyUnbind
    <2> QED
      BY <2>1, <2>2
  <1>18. ASSUME NEW t \in Tasks, PersistBegin(t)
        PROVE  TypeOK' /\ Placed'
    <2>1. TypeOK'
      BY <1>18 DEF PersistBegin
    <2>2. Placed'
      BY <1>18 DEF PersistBegin
    <2> QED
      BY <2>1, <2>2
  <1>19. ASSUME NEW t \in Tasks, NEW s \in Sandboxes, PersistCapture(t, s)
        PROVE  TypeOK' /\ Placed'
    <2>1. image' \in [Tasks -> Images]
      BY <1>19, Captured
    <2>2. TypeOK'
      BY <1>19, <2>1 DEF PersistCapture
    <2>3. Placed'
      BY <1>19, <2>1 DEF PersistCapture
    <2> QED
      BY <2>2, <2>3
  <1>38. ASSUME NEW t \in Tasks, PersistSnapshots(t)
        PROVE  TypeOK' /\ Placed'
    <2>1. image' \in [Tasks -> Images]
      BY <1>38, SnapshotsRead
    <2>2. TypeOK'
      BY <1>38, <2>1 DEF PersistSnapshots
    <2>3. Placed'
      BY <1>38, <2>1 DEF PersistSnapshots
    <2> QED
      BY <2>2, <2>3
  <1>20. ASSUME NEW t \in Tasks, PersistIndex(t)
        PROVE  TypeOK' /\ Placed'
    <2>1. image' \in [Tasks -> Images]
      BY <1>20, Indexed
    <2>2. TypeOK'
      BY <1>20, <2>1 DEF PersistIndex
    <2>3. Placed'
      BY <1>20, <2>1 DEF PersistIndex
    <2> QED
      BY <2>2, <2>3
  <1>21. ASSUME NEW t \in Tasks, PersistWrite(t)
        PROVE  TypeOK' /\ Placed'
    <2>1. TypeOK'
      BY <1>21 DEF PersistWrite
    <2>2. Placed'
      BY <1>21 DEF PersistWrite
    <2> QED
      BY <2>1, <2>2
  <1>22. ASSUME NEW t \in Tasks, PersistRename(t)
        PROVE  TypeOK' /\ Placed'
    <2>1. told' \in [Sandboxes -> {"nothing", "created", "destroyed"}]
      BY <1>22 DEF PersistRename, Answer
    <2>2. TypeOK'
      BY <1>22, <2>1 DEF PersistRename, Release, Drained
    <2>3. Placed'
      BY <1>22, <2>1 DEF PersistRename, Release, Drained
    <2> QED
      BY <2>2, <2>3
  <1>23. ASSUME NEW t \in Tasks, PersistFails(t)
        PROVE  TypeOK' /\ Placed'
    <2>1. TypeOK'
      BY <1>23 DEF PersistFails, Release, Drained
    <2>2. Placed'
      BY <1>23 DEF PersistFails, Release, Drained
    <2> QED
      BY <2>1, <2>2
  <1>24. ASSUME NEW s \in Sandboxes, Expire(s)
        PROVE  TypeOK' /\ Placed'
    <2>1. TypeOK'
      BY <1>24 DEF Expire
    <2>2. Placed'
      BY <1>24 DEF Expire
    <2> QED
      BY <2>1, <2>2
  <1>25. CASE ReapBegin
    <2>1. TypeOK'
      BY <1>25 DEF ReapBegin
    <2>2. Placed'
      BY <1>25 DEF ReapBegin
    <2> QED
      BY <2>1, <2>2
  <1>26. ASSUME NEW s \in Sandboxes, ReapList(s)
        PROVE  TypeOK' /\ Placed'
    <2>1. TypeOK'
      BY <1>26 DEF ReapList
    <2>2. Placed'
      BY <1>26 DEF ReapList
    <2> QED
      BY <2>1, <2>2
  <1>27. CASE ReapFilter
    <2>1. TypeOK'
      BY <1>27 DEF ReapFilter
    <2>2. Placed'
      BY <1>27 DEF ReapFilter
    <2> QED
      BY <2>1, <2>2
  <1>28. ASSUME NEW s \in Sandboxes, ReapAct(s)
        PROVE  TypeOK' /\ Placed'
    <2>1. IdleAction(s) \in Ops /\ IdleAction(s) \in {"destroy", "pause"}
      BY DEF Ops, IdleAction
    <2>2. s \in boxes =>
          /\ call' \in [Tasks -> Calls]
          /\ \A u \in Tasks \ {Reaper} : call'[u] = call[u]
          /\ call'[Reaper].op = IdleAction(s) /\ call'[Reaper].box = s /\ call'[Reaper].key = NoKey
      BY <1>28, <2>1, Served DEF ReapAct
    <2>3. TypeOK'
      BY <1>28, <2>1, <2>2 DEF ReapAct
    <2>4. Placed'
      BY <1>28, <2>1, <2>2 DEF ReapAct
    <2> QED
      BY <2>3, <2>4
  <1>29. CASE ShutdownBegin
    <2>1. "checkpoint" \in Ops
      BY DEF Ops
    <2>2. /\ call' \in [Tasks -> Calls]
          /\ \A u \in Tasks \ {Shutdown} : call'[u] = call[u]
          /\ call'[Shutdown].op = "checkpoint" /\ call'[Shutdown].box = NoBox /\ call'[Shutdown].key = NoKey
      BY <1>29, <2>1, Served DEF ShutdownBegin
    <2>3. TypeOK'
      BY <1>29, <2>1, <2>2 DEF ShutdownBegin
    <2>4. Placed'
      BY <1>29, <2>1, <2>2 DEF ShutdownBegin
    <2> QED
      BY <2>3, <2>4
  <1>30. ASSUME NEW s \in Sandboxes, ShutdownVisit(s)
        PROVE  TypeOK' /\ Placed'
    <2>1. "checkpoint" \in Ops
      BY DEF Ops
    <2>2. Allowed("checkpoint", s) =>
          /\ call' \in [Tasks -> Calls]
          /\ \A u \in Tasks \ {Shutdown} : call'[u] = call[u]
          /\ call'[Shutdown].op = "checkpoint" /\ call'[Shutdown].box = s /\ call'[Shutdown].key = NoKey
      BY <1>30, <2>1, Served DEF ShutdownVisit
    <2>3. TypeOK'
      BY <1>30, <2>1, <2>2 DEF ShutdownVisit
    <2>4. Placed'
      BY <1>30, <2>1, <2>2 DEF ShutdownVisit
    <2> QED
      BY <2>3, <2>4
  <1>31. CASE ShutdownDone
    <2>1. TypeOK'
      BY <1>31 DEF ShutdownDone
    <2>2. Placed'
      BY <1>31 DEF ShutdownDone
    <2> QED
      BY <2>1, <2>2
  <1>32. ASSUME NEW d \in detached, Detached(d)
        PROVE  TypeOK' /\ Placed'
    <2>1. TypeOK'
      BY <1>32 DEF Detached
    <2>2. Placed'
      BY <1>32 DEF Detached
    <2> QED
      BY <2>1, <2>2
  <1>33. CASE Crash
    <2>1. TypeOK'
      BY <1>33 DEF Crash, ProcessEnds
    <2>2. Placed'
      BY <1>33 DEF Crash, ProcessEnds
    <2> QED
      BY <2>1, <2>2
  <1>34. CASE Exit
    <2>1. TypeOK'
      BY <1>34 DEF Exit, ProcessEnds
    <2>2. Placed'
      BY <1>34 DEF Exit, ProcessEnds
    <2> QED
      BY <2>1, <2>2
  <1>35. CASE Restart
    <2>1. Saved \subseteq Sandboxes /\ \A s \in Saved : Loaded(s) \in States
      BY DEF Saved, Loaded, Images
    <2>2. \A s \in Sandboxes : Recovered(s) \in Backends
      BY DEF Recovered, After
    <2>3. disk.keys \in [Keys -> Sandboxes \cup {NoBox}] /\ disk.snaps \subseteq Snapshots
      BY DEF Images
    <2>4. disk' \in Images
      BY <1>35, <2>1 DEF Restart, Images
    <2>5. TypeOK'
      BY <1>35, <2>1, <2>2, <2>3, <2>4 DEF Restart
    <2>6. Placed'
      BY <1>35, <2>1, <2>2, <2>3, <2>4 DEF Restart
    <2> QED
      BY <2>5, <2>6
  <1>36. CASE RestartFails
    <2>1. backend' \in [Sandboxes -> Backends]
      BY <1>36 DEF RestartFails, Orphaned, Interrupted, Broken, Saved
    <2>2. TypeOK'
      BY <1>36, <2>1 DEF RestartFails
    <2>3. Placed'
      BY <1>36, <2>1 DEF RestartFails
    <2> QED
      BY <2>2, <2>3
  <1>37. CASE UNCHANGED vars
    BY <1>37 DEF vars
  <1> QED
    BY <1>1, <1>2, <1>3, <1>4, <1>5, <1>6, <1>7, <1>8, <1>9, <1>10, <1>11,
       <1>12, <1>13, <1>14,
       <1>15, <1>16, <1>17, <1>18, <1>19, <1>20, <1>21, <1>22, <1>23, <1>24, <1>25, <1>26,
       <1>27, <1>28, <1>29, <1>30, <1>31, <1>32, <1>33, <1>34, <1>35, <1>36, <1>37, <1>38
       DEF Next, Begin, Create, Operate, Persist, Continue, Reap, ShutdownStep

-----------------------------------------------------------------------------
(* No mutex is held at the start, and no task is in a section.             *)
LEMMA LockInit == Init => LockDiscipline
  BY TasksAssumption DEF Init, LockDiscipline, Creating, Persisting, Tasks

(* A mutex changes hands only with the place of the task that holds it:    *)
(* every early return, error and dropped future releases what it took.     *)
LEMMA LockStep == TypeOK /\ Placed /\ LockDiscipline /\ [Next]_vars => LockDiscipline'
  <1> SUFFICES ASSUME TypeOK, Placed, LockDiscipline, [Next]_vars PROVE LockDiscipline'
    OBVIOUS
  <1>types. /\ pc \in [Tasks -> Places] /\ call \in [Tasks -> Calls]
            /\ lock \in [Sandboxes -> Tasks \cup {NoTask}]
            /\ {createGuard, idemLock, persistGuard} \subseteq Tasks \cup {NoTask}
    BY DEF TypeOK
  <1> USE <1>types, TasksAssumption, DataAssumption, NoCallType
      DEF Placed, RecordCalls, LockDiscipline, Creating, Persisting, Tasks, locks, local, Go,
          Return

  <1>1. ASSUME NEW t \in Clients, NEW k \in Keys \cup {NoKey}, BeginCreate(t, k)
        PROVE  LockDiscipline'
    BY <1>1 DEF BeginCreate, Serve
  <1>2. ASSUME NEW t \in Clients, NEW o \in RecordOps, NEW s \in Sandboxes, BeginOp(t, o, s)
        PROVE  LockDiscipline'
    BY <1>2 DEF BeginOp, Serve
  <1>3. ASSUME NEW t \in Clients, NEW n \in Snapshots, DeleteSnapshot(t, n)
        PROVE  LockDiscipline'
    BY <1>3 DEF DeleteSnapshot, Serve
  <1>4. ASSUME NEW t \in Clients, Cancel(t)
        PROVE  LockDiscipline'
    BY <1>4 DEF Cancel, Abandon, Release, Unlock
  <1>5. ASSUME NEW t \in Tasks, CreateGuard(t)
        PROVE  LockDiscipline'
    BY <1>5 DEF CreateGuard, MayCreate
  <1>6. ASSUME NEW t \in Tasks, CreateLookup(t)
        PROVE  LockDiscipline'
    BY <1>6 DEF CreateLookup, Serve
  <1>7. ASSUME NEW t \in Tasks, CreateReplay(t)
        PROVE  LockDiscipline'
    BY <1>7 DEF CreateReplay
  <1>8. ASSUME NEW t \in Tasks, NEW s \in Sandboxes, CreateMake(t, s)
        PROVE  LockDiscipline'
    BY <1>8 DEF CreateMake, Serve
  <1>9. ASSUME NEW t \in Tasks, CreateMakeFails(t)
        PROVE  LockDiscipline'
    BY <1>9 DEF CreateMakeFails
  <1>10. ASSUME NEW t \in Tasks, CreateBoot(t)
        PROVE  LockDiscipline'
    BY <1>10 DEF CreateBoot
  <1>11. ASSUME NEW t \in Tasks, CreateBootFails(t)
        PROVE  LockDiscipline'
    BY <1>11 DEF CreateBootFails
  <1>12. ASSUME NEW t \in Tasks, CreateBind(t)
        PROVE  LockDiscipline'
    BY <1>12 DEF CreateBind
  <1>13. ASSUME NEW t \in Tasks, LockRecord(t)
        PROVE  LockDiscipline'
    BY <1>13 DEF LockRecord
  <1>14. ASSUME NEW t \in Tasks, BackendOk(t)
        PROVE  LockDiscipline'
    BY <1>14 DEF BackendOk, Target, Unlock, NextPlace
  <1>15. ASSUME NEW t \in Tasks, BackendFails(t)
        PROVE  LockDiscipline'
    BY <1>15 DEF BackendFails, Drained, Unlock
  <1>16. ASSUME NEW t \in Tasks, DestroyUnmap(t)
        PROVE  LockDiscipline'
    BY <1>16 DEF DestroyUnmap
  <1>17. ASSUME NEW t \in Tasks, DestroyUnbind(t)
        PROVE  LockDiscipline'
    BY <1>17 DEF DestroyUnbind
  <1>18. ASSUME NEW t \in Tasks, PersistBegin(t)
        PROVE  LockDiscipline'
    BY <1>18 DEF PersistBegin, MayPersist
  <1>19. ASSUME NEW t \in Tasks, NEW s \in Sandboxes, PersistCapture(t, s)
        PROVE  LockDiscipline'
    BY <1>19 DEF PersistCapture
  <1>38. ASSUME NEW t \in Tasks, PersistSnapshots(t)
        PROVE  LockDiscipline'
    BY <1>38 DEF PersistSnapshots
  <1>20. ASSUME NEW t \in Tasks, PersistIndex(t)
        PROVE  LockDiscipline'
    BY <1>20 DEF PersistIndex
  <1>21. ASSUME NEW t \in Tasks, PersistWrite(t)
        PROVE  LockDiscipline'
    BY <1>21 DEF PersistWrite
  <1>22. ASSUME NEW t \in Tasks, PersistRename(t)
        PROVE  LockDiscipline'
    BY <1>22 DEF PersistRename, Answer, Release, Drained
  <1>23. ASSUME NEW t \in Tasks, PersistFails(t)
        PROVE  LockDiscipline'
    BY <1>23 DEF PersistFails, Release, Drained
  <1>24. ASSUME NEW s \in Sandboxes, Expire(s)
        PROVE  LockDiscipline'
    BY <1>24 DEF Expire
  <1>25. CASE ReapBegin
    BY <1>25 DEF ReapBegin
  <1>26. ASSUME NEW s \in Sandboxes, ReapList(s)
        PROVE  LockDiscipline'
    BY <1>26 DEF ReapList
  <1>27. CASE ReapFilter
    BY <1>27 DEF ReapFilter
  <1>28. ASSUME NEW s \in Sandboxes, ReapAct(s)
        PROVE  LockDiscipline'
    BY <1>28 DEF ReapAct, Serve
  <1>29. CASE ShutdownBegin
    BY <1>29 DEF ShutdownBegin, Serve
  <1>30. ASSUME NEW s \in Sandboxes, ShutdownVisit(s)
        PROVE  LockDiscipline'
    BY <1>30 DEF ShutdownVisit, Serve
  <1>31. CASE ShutdownDone
    BY <1>31 DEF ShutdownDone
  <1>32. ASSUME NEW d \in detached, Detached(d)
        PROVE  LockDiscipline'
    BY <1>32 DEF Detached
  <1>33. CASE Crash
    BY <1>33 DEF Crash, ProcessEnds
  <1>34. CASE Exit
    BY <1>34 DEF Exit, ProcessEnds
  <1>35. CASE Restart
    BY <1>35 DEF Restart
  <1>36. CASE RestartFails
    BY <1>36 DEF RestartFails
  <1>37. CASE UNCHANGED vars
    BY <1>37 DEF vars
  <1> QED
    BY <1>1, <1>2, <1>3, <1>4, <1>5, <1>6, <1>7, <1>8, <1>9, <1>10, <1>11,
       <1>12, <1>13, <1>14,
       <1>15, <1>16, <1>17, <1>18, <1>19, <1>20, <1>21, <1>22, <1>23, <1>24, <1>25, <1>26,
       <1>27, <1>28, <1>29, <1>30, <1>31, <1>32, <1>33, <1>34, <1>35, <1>36, <1>37, <1>38
       DEF Next, Begin, Create, Operate, Persist, Continue, Reap, ShutdownStep

-----------------------------------------------------------------------------
(* Types, places and mutexes together are inductive.                       *)
LEMMA BasicInvariant == Spec => [](TypeOK /\ Placed /\ LockDiscipline)
  <1>1. Init => TypeOK /\ Placed /\ LockDiscipline
    <2>1. Init => Placed
      BY DEF Init, Placed, Creating
    <2> QED
      BY <2>1, TypeInit, LockInit
  <1>2. TypeOK /\ Placed /\ LockDiscipline /\ [Next]_vars => (TypeOK /\ Placed /\ LockDiscipline)'
    BY TypeStep, LockStep
  <1> QED
    BY <1>1, <1>2, PTL DEF Spec

(* Every variable of the control plane keeps its type, whatever fails, is  *)
(* cancelled or crashes.                                                   *)
THEOREM TypeCorrect == Spec => []TypeOK
  BY BasicInvariant, PTL

(* The create guard, the index, the persist guard and every record are     *)
(* held by exactly the task in the section they guard, with any number of  *)
(* handlers, and whatever future is dropped at whatever await.             *)
THEOREM MutexesAreDisciplined == Spec => []LockDiscipline
  BY BasicInvariant, PTL
=============================================================================
