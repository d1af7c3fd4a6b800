----------------------- MODULE VmRuntimeDurabilityProofs -----------------------
(***************************************************************************)
(* What the control plane has told its clients is in its file, and what it *)
(* reports as running has its backend's flag set: for any number of        *)
(* clients, sandboxes and keys, with failing backends, crashes, restarts.  *)
(***************************************************************************)
EXTENDS VmRuntimeSafetyProofs

(* The server runs and has not been told to stop.                          *)
Serving == server = "up" /\ (Shutdown \in Daemons => pc[Shutdown] = "idle")

(* A running sandbox has its flag set until the shutdown, which clears it  *)
(* without changing the state; the shutdown runs once, and then the server *)
(* serves no more.                                                         *)
FlagBehind ==
  /\ \A t \in Tasks : call[t].op = "checkpoint" => t = Shutdown
  /\ Shutdown \in Daemons =>
       /\ pc[Shutdown] \in {"idle", "checkpoint", "backend", "persist"} \cup Persisting
       /\ pc[Shutdown] # "idle" => call[Shutdown].op = "checkpoint"
  /\ Serving => \A s \in boxes : info[s] = "Running" => backend[s] \in Flagged

(* No step clears the flag of a sandbox that stays RUNNING.                *)
LEMMA FlagStep ==
  ASSUME "cancel" \notin Faults, Inv, FlagBehind, [Next]_vars
  PROVE  FlagBehind'
  <1>types. /\ pc \in [Tasks -> Places] /\ call \in [Tasks -> Calls] /\ info \in [Sandboxes -> States]
            /\ backend \in [Sandboxes -> Backends] /\ boxes \subseteq Sandboxes
    BY DEF Inv, TypeOK
  <1>fresh. \A t \in Tasks : pc[t] = "boot" =>
              call[t].box \notin boxes /\ backend[call[t].box] = "idle"
    BY DEF Inv, BootIsPrivate
  <1>known. boxes \subseteq used
    BY DEF Inv, Known
  <1>cold. server = "down" => \A s \in Sandboxes : backend[s] \in {"idle", "absent"}
    BY DEF Inv, DownIsCold
  <1>back. \A t \in Tasks : pc[t] = "backend" => info[call[t].box] \in From[call[t].op]
    BY DEF Inv, GuardHolds
  <1>placed. Placed
    BY DEF Inv
  <1> USE <1>types, <1>fresh, <1>known, <1>cold, <1>back, <1>placed,
        TasksAssumption, DataAssumption, NoCallType
      DEF Placed, RecordCalls, FlagBehind, Serving, Flagged, Persisting, Creating, Tasks, memory, local,
        history, Go, Return
  <1>1. ASSUME NEW t \in Clients, NEW k \in Keys \cup {NoKey}, BeginCreate(t, k)
        PROVE  FlagBehind'
    BY <1>1 DEF BeginCreate, Serve
  <1>2. ASSUME NEW t \in Clients, NEW o \in RecordOps, NEW s \in Sandboxes, BeginOp(t, o, s)
        PROVE  FlagBehind'
    BY <1>2 DEF BeginOp, Serve
  <1>3. ASSUME NEW t \in Clients, NEW n \in Snapshots, DeleteSnapshot(t, n)
        PROVE  FlagBehind'
    BY <1>3 DEF DeleteSnapshot, Serve
  <1>4. ASSUME NEW t \in Clients, Cancel(t)
        PROVE  FlagBehind'
    BY <1>4 DEF Cancel
  <1>5. ASSUME NEW t \in Tasks, CreateGuard(t)
        PROVE  FlagBehind'
    BY <1>5 DEF CreateGuard
  <1>6. ASSUME NEW t \in Tasks, CreateLookup(t)
        PROVE  FlagBehind'
    BY <1>6 DEF CreateLookup, Serve
  <1>7. ASSUME NEW t \in Tasks, CreateReplay(t)
        PROVE  FlagBehind'
    BY <1>7 DEF CreateReplay
  <1>8. ASSUME NEW t \in Tasks, NEW s \in Sandboxes, CreateMake(t, s)
        PROVE  FlagBehind'
    BY <1>8 DEF CreateMake, Serve
  <1>9. ASSUME NEW t \in Tasks, CreateMakeFails(t)
        PROVE  FlagBehind'
    BY <1>9 DEF CreateMakeFails
  <1>10. ASSUME NEW t \in Tasks, CreateBoot(t)
        PROVE  FlagBehind'
    BY <1>10 DEF CreateBoot, After, Starts
  <1>11. ASSUME NEW t \in Tasks, CreateBootFails(t)
        PROVE  FlagBehind'
    BY <1>11 DEF CreateBootFails, Broken, Starts
  <1>12. ASSUME NEW t \in Tasks, CreateBind(t)
        PROVE  FlagBehind'
    BY <1>12 DEF CreateBind
  <1>13. ASSUME NEW t \in Tasks, LockRecord(t)
        PROVE  FlagBehind'
    BY <1>13 DEF LockRecord
  <1>14. ASSUME NEW t \in Tasks, BackendOk(t)
        PROVE  FlagBehind'
    <2> DEFINE s == call[t].box
    <2> DEFINE o == call[t].op
    <2>1. s \in Sandboxes /\ o \in RecordCalls /\ Serves(o, backend[s])
      BY <1>14 DEF BackendOk
    <2>2. /\ boxes' = boxes /\ server' = server /\ pc[t] = "backend"
          /\ backend' = [backend EXCEPT ![s] = After(o, @)]
          /\ info' = IF o \in DOMAIN Target THEN [info EXCEPT ![s] = Target[o]] ELSE info
      BY <1>14 DEF BackendOk
    <2>3. info[s] = "Running" => o \notin {"start", "resume"}
      BY <1>14 DEF BackendOk, From
    <2>4. o # "checkpoint" /\ info'[s] = "Running" /\ (info[s] = "Running" => backend[s] \in Flagged)
            => backend'[s] \in Flagged
      <3>1. CASE o \in {"start", "resume"}
        BY <3>1, <2>1, <2>2 DEF Serves, After, Starts, Backends
      <3>2. CASE o \in {"use", "peek", "snapshot"}
        <4>1. o \notin DOMAIN Target
          BY <3>2 DEF Target
        <4>2. After(o, backend[s]) = backend[s]
          BY <3>2 DEF After, Starts
        <4>3. backend[s] = "running"
          BY <3>2, <2>1 DEF Serves, Starts
        <4> QED
          BY <4>1, <4>2, <4>3, <2>1, <2>2
      <3>3. CASE o \in {"pause", "stop", "destroy"}
        <4>1. o \in DOMAIN Target /\ Target[o] # "Running"
          BY <3>3 DEF Target
        <4> QED
          BY <4>1, <2>1, <2>2
      <3> QED
        BY <3>1, <3>2, <3>3, <2>1
    <2>5. \A r \in Sandboxes : r # s => info'[r] = info[r] /\ backend'[r] = backend[r]
      BY <2>1, <2>2
    <2>6. t = Shutdown <=> o = "checkpoint"
      BY <1>14, <2>2
    <2>7. /\ \A u \in Tasks : call'[u].op = "checkpoint" => u = Shutdown
          /\ Shutdown \in Daemons =>
               /\ pc'[Shutdown] \in {"idle", "checkpoint", "backend", "persist"} \cup Persisting
               /\ pc'[Shutdown] # "idle" => call'[Shutdown].op = "checkpoint"
               /\ pc'[Shutdown] = "idle" => pc[Shutdown] = "idle" /\ t # Shutdown
      BY <1>14, <2>6 DEF BackendOk, NextPlace
    <2>8. Serving' => Serving /\ o # "checkpoint"
      BY <2>2, <2>6, <2>7
    <2> HIDE DEF s, o
    <2> QED
      BY <2>2, <2>4, <2>5, <2>7, <2>8
  <1>15. ASSUME NEW t \in Tasks, BackendFails(t)
        PROVE  FlagBehind'
    BY <1>15 DEF BackendFails, Drained, Broken, Starts, From
  <1>16. ASSUME NEW t \in Tasks, DestroyUnmap(t)
        PROVE  FlagBehind'
    BY <1>16 DEF DestroyUnmap
  <1>17. ASSUME NEW t \in Tasks, DestroyUnbind(t)
        PROVE  FlagBehind'
    BY <1>17 DEF DestroyUnbind
  <1>18. ASSUME NEW t \in Tasks, PersistBegin(t)
        PROVE  FlagBehind'
    BY <1>18 DEF PersistBegin
  <1>19. ASSUME NEW t \in Tasks, NEW s \in Sandboxes, PersistCapture(t, s)
        PROVE  FlagBehind'
    BY <1>19 DEF PersistCapture
  <1>38. ASSUME NEW t \in Tasks, PersistSnapshots(t)
        PROVE  FlagBehind'
    BY <1>38 DEF PersistSnapshots
  <1>20. ASSUME NEW t \in Tasks, PersistIndex(t)
        PROVE  FlagBehind'
    BY <1>20 DEF PersistIndex
  <1>21. ASSUME NEW t \in Tasks, PersistWrite(t)
        PROVE  FlagBehind'
    BY <1>21 DEF PersistWrite
  <1>22. ASSUME NEW t \in Tasks, PersistRename(t)
        PROVE  FlagBehind'
    BY <1>22 DEF PersistRename, Drained
  <1>23. ASSUME NEW t \in Tasks, PersistFails(t)
        PROVE  FlagBehind'
    BY <1>23 DEF PersistFails, Drained
  <1>24. ASSUME NEW s \in Sandboxes, Expire(s)
        PROVE  FlagBehind'
    BY <1>24 DEF Expire
  <1>25. CASE ReapBegin
    BY <1>25 DEF ReapBegin
  <1>26. ASSUME NEW s \in Sandboxes, ReapList(s)
        PROVE  FlagBehind'
    BY <1>26 DEF ReapList
  <1>27. CASE ReapFilter
    BY <1>27 DEF ReapFilter
  <1>28. ASSUME NEW s \in Sandboxes, ReapAct(s)
        PROVE  FlagBehind'
    BY <1>28 DEF ReapAct, Serve, IdleAction
  <1>29. CASE ShutdownBegin
    BY <1>29 DEF ShutdownBegin, Serve
  <1>30. ASSUME NEW s \in Sandboxes, ShutdownVisit(s)
        PROVE  FlagBehind'
    BY <1>30 DEF ShutdownVisit, Serve
  <1>31. CASE ShutdownDone
    BY <1>31 DEF ShutdownDone
  <1>32. ASSUME NEW d \in detached, Detached(d)
        PROVE  FlagBehind'
    BY <1>32 DEF Detached
  <1>33. CASE Crash
    BY <1>33 DEF Crash, ProcessEnds
  <1>34. CASE Exit
    BY <1>34 DEF Exit, ProcessEnds
  <1>35. CASE Restart
    BY <1>35 DEF Restart, Recovered, Loaded, Saved, Starts, After
  <1>36. CASE RestartFails
    BY <1>36 DEF RestartFails, Orphaned, Interrupted, Broken, Starts
  <1>37. CASE UNCHANGED vars
    BY <1>37 DEF vars
  <1> QED
    BY <1>1, <1>2, <1>3, <1>4, <1>5, <1>6, <1>7, <1>8, <1>9, <1>10, <1>11, <1>12, <1>13, <1>14,
       <1>15, <1>16, <1>17, <1>18, <1>19, <1>20, <1>21, <1>22, <1>23, <1>24, <1>25, <1>26,
       <1>27, <1>28, <1>29, <1>30, <1>31, <1>32, <1>33, <1>34, <1>35, <1>36, <1>37, <1>38
       DEF Next, Begin, Create, Operate, Persist, Continue, Reap, ShutdownStep

(* The backend of a sandbox reported RUNNING has its flag set: after any   *)
(* failure of the backend or of the file, and any crash, until the server  *)
(* is told to stop, while no request is dropped.  Whether its VMM serves   *)
(* is another matter: a failed snapshot or destroy may have frozen or      *)
(* ended it.                                                               *)
THEOREM RunningSandboxesAreFlagged ==
  ASSUME "cancel" \notin Faults
  PROVE  Spec => []RunningHasFlag
  <1>1. Init => FlagBehind
    BY NoCallType DEF Init, FlagBehind, Tasks
  <1>2. Inv /\ FlagBehind /\ [Next]_vars => FlagBehind'
    BY FlagStep
  <1>3. FlagBehind => RunningHasFlag
    BY DEF FlagBehind, Serving, RunningHasFlag
  <1> QED
    BY <1>1, <1>2, <1>3, Invariance, PTL DEF Spec

-----------------------------------------------------------------------------
(* Whatever replaces the file while s is in memory lists it: each persist  *)
(* has captured s, or will.                                                *)
Listed(s) ==
  /\ disk.state[s] # "none" /\ s \in boxes
  /\ \A t \in Tasks : pc[t] \in Persisting =>
       image[t].state[s] # "none" \/ (pc[t] = "capture" /\ s \in todo[t])

(* Nothing that may replace the file lists s again.                        *)
Forgotten(s) ==
  /\ disk.state[s] = "none" /\ s \notin boxes
  /\ \A t \in Tasks : pc[t] \in Persisting => image[t].state[s] = "none" /\ s \notin todo[t]

(* An answer is given for what the file, and all that may replace it, says.*)
Answers ==
  \A s \in Sandboxes :
    /\ told[s] = "created" /\ info[s] # "Destroyed" => Listed(s)
    /\ told[s] = "destroyed" => Forgotten(s)
    /\ told[s] # "nothing" => s \in used /\ \A t \in Tasks : pc[t] = "boot" => call[t].box # s

(* A create that is being persisted will be listed, unless a destroy has   *)
(* overtaken it.                                                           *)
CreatesList ==
  \A t \in Tasks : call[t].op = "create" /\ pc[t] \in {"bind", "persist"} \cup Persisting =>
    \/ info[call[t].box] = "Destroyed"
    \/ /\ call[t].box \in boxes
       /\ pc[t] \in Persisting => \/ image[t].state[call[t].box] # "none"
                                  \/ pc[t] = "capture" /\ call[t].box \in todo[t]

(* A destroy that is being persisted will not be listed.                   *)
DestroysForget ==
  \A t \in Tasks :
    call[t].op = "destroy" /\ pc[t] \in {"unmap", "unbind", "persist"} \cup Persisting =>
      /\ call[t].box \in Sandboxes /\ info[call[t].box] = "Destroyed"
      /\ pc[t] # "unmap" => call[t].box \notin boxes
      /\ pc[t] \in Persisting =>
           image[t].state[call[t].box] = "none" /\ call[t].box \notin todo[t]

(* A key answers for a sandbox that is listed, or whose creator is still   *)
(* at it and holds the create guard: a replay does not come between.       *)
KeysAreListed ==
  server # "down" =>
    \A k \in Keys, s \in Sandboxes : keys[k] = s /\ s \in boxes /\ info[s] # "Destroyed" =>
      Listed(s) \/ \E t \in Tasks : /\ call[t].op = "create" /\ call[t].box = s
                                    /\ pc[t] \in {"persist"} \cup Persisting

(* A replay answers for what the key is bound to: it holds the index.      *)
ReplaysHit == \A t \in Tasks : pc[t] = "replay" => keys[call[t].key] = call[t].box

(* What is to be renamed is what the holder of persist_guard has captured. *)
Written ==
  /\ detached = {}
  /\ \A t \in Tasks : /\ pc[t] \notin Persisting => image[t] = Blank
                      /\ pc[t] = "rename" => tmp = image[t]

Durable == Answers /\ CreatesList /\ DestroysForget /\ KeysAreListed /\ ReplaysHit /\ Written

(* Between answer, memory, image and file no step loses a sandbox or       *)
(* brings one back.                                                        *)
LEMMA DurableStep ==
  ASSUME Faults \cap {"cancel", "io"} = {}, Inv, Durable, [Next]_vars
  PROVE  Durable'
  <1>types. /\ pc \in [Tasks -> Places] /\ call \in [Tasks -> Calls] /\ info \in [Sandboxes -> States]
            /\ boxes \subseteq Sandboxes /\ keys \in [Keys -> Sandboxes \cup {NoBox}]
            /\ todo \in [Tasks -> SUBSET Sandboxes] /\ image \in [Tasks -> Images]
            /\ disk \in Images /\ told \in [Sandboxes -> {"nothing", "created", "destroyed"}]
    BY DEF Inv, TypeOK
  <1>fresh. \A t \in Tasks : pc[t] = "boot" =>
              /\ call[t].box \notin boxes
              /\ \A k \in Keys : keys[k] # call[t].box
              /\ \A u \in Tasks : call[t].box \notin todo[u] /\ (u # t => call[u].box # call[t].box)
    BY DEF Inv, BootIsPrivate
  <1>known. /\ boxes \subseteq used
            /\ \A t \in Tasks : call[t].box # NoBox => call[t].box \in used
    BY DEF Inv, Known
  <1>cold. server = "down" => \A t \in Tasks : pc[t] = "idle"
    BY DEF Inv, DownIsCold
  <1>back. \A t \in Tasks : pc[t] = "backend" => info[call[t].box] # "Destroyed"
    <2>1. \A o \in RecordCalls : "Destroyed" \notin From[o]
      BY DEF RecordCalls, From
    <2> QED
      BY <2>1 DEF Inv, GuardHolds, Placed
  <1>one. \A t, u \in Tasks : pc[t] \in Persisting /\ pc[u] \in Persisting => t = u
    BY DEF Inv, LockDiscipline
  <1>guard. \A t, u \in Tasks :
              pc[t] = "replay" /\ call[u].op = "create" /\ pc[u] \in {"persist"} \cup Persisting => t = u
    BY DEF Inv, LockDiscipline, Creating
  <1>index. \A t \in Tasks : idemLock = t <=> pc[t] = "replay"
    BY DEF Inv, LockDiscipline
  <1>placed. Placed
    BY DEF Inv
  <1>gone. \A s \in Sandboxes : info[s] = "Destroyed" \/ Allowed("destroy", s)
    BY <1>types DEF Allowed, From, NeedsNoSecrets
  <1>blank. \A s \in Sandboxes : Blank.state[s] = "none"
    BY DEF Blank
  <1> USE <1>types, <1>fresh, <1>known, <1>cold, <1>back, <1>one, <1>guard, <1>index, <1>placed, <1>gone,
        <1>blank, TasksAssumption, DataAssumption, NoCallType
      DEF Placed, RecordCalls, Durable, Answers, Listed, Forgotten, CreatesList, DestroysForget,
        KeysAreListed, ReplaysHit, Written, Persisting, Creating, Tasks, memory, local,
        files, history, Go, Return
  <1>1. ASSUME NEW t \in Clients, NEW k \in Keys \cup {NoKey}, BeginCreate(t, k)
        PROVE  Durable'
    BY <1>1 DEF BeginCreate, Serve
  <1>2. ASSUME NEW t \in Clients, NEW o \in RecordOps, NEW s \in Sandboxes, BeginOp(t, o, s)
        PROVE  Durable'
    BY <1>2 DEF BeginOp, Serve
  <1>3. ASSUME NEW t \in Clients, NEW n \in Snapshots, DeleteSnapshot(t, n)
        PROVE  Durable'
    BY <1>3 DEF DeleteSnapshot, Serve
  <1>4. ASSUME NEW t \in Clients, Cancel(t)
        PROVE  Durable'
    BY <1>4 DEF Cancel
  <1>5. ASSUME NEW t \in Tasks, CreateGuard(t)
        PROVE  Durable'
    BY <1>5 DEF CreateGuard
  <1>6. ASSUME NEW t \in Tasks, CreateLookup(t)
        PROVE  Durable'
    BY <1>6 DEF CreateLookup, Serve
  <1>7. ASSUME NEW t \in Tasks, CreateReplay(t)
        PROVE  Durable'
    <2> DEFINE s == call[t].box
    <2>1. /\ s \in boxes => told' = [told EXCEPT ![s] = "created"]
          /\ s \notin boxes => told' = told
          /\ s \in Sandboxes /\ pc[t] = "replay"
          /\ pc' = [pc EXCEPT ![t] = "idle"] /\ call' = [call EXCEPT ![t] = NoCall]
          /\ UNCHANGED <<server, boxes, info, keys, used, todo, image, tmp, disk, detached>>
      BY <1>7 DEF CreateReplay
    <2>2. s \in boxes /\ info[s] # "Destroyed" => Listed(s)
      <3>1. keys[call[t].key] = s /\ call[t].key \in Keys /\ server # "down"
        BY <2>1
      <3>2. ~\E u \in Tasks : call[u].op = "create" /\ pc[u] \in {"persist"} \cup Persisting
        BY <2>1
      <3> QED
        BY <3>1, <3>2, <2>1
    <2>3. s \in boxes => s \in used /\ told[s] # "destroyed" /\ \A u \in Tasks : pc[u] = "boot" => call[u].box # s
      BY <2>1
    <2>4. \A r \in Sandboxes : told'[r] = told[r] \/ (r = s /\ s \in boxes /\ told'[r] = "created")
      BY <2>1
    <2> HIDE DEF s
    <2>5. Answers'
      BY <2>1, <2>2, <2>3, <2>4
    <2>6. CreatesList' /\ DestroysForget' /\ ReplaysHit' /\ Written'
      BY <2>1
    <2>7. KeysAreListed'
      BY <2>1
    <2> QED
      BY <2>5, <2>6, <2>7
  <1>8. ASSUME NEW t \in Tasks, NEW s \in Sandboxes, CreateMake(t, s)
        PROVE  Durable'
    BY <1>8 DEF CreateMake, Serve
  <1>9. ASSUME NEW t \in Tasks, CreateMakeFails(t)
        PROVE  Durable'
    BY <1>9 DEF CreateMakeFails
  <1>10. ASSUME NEW t \in Tasks, CreateBoot(t)
        PROVE  Durable'
    BY <1>10 DEF CreateBoot
  <1>11. ASSUME NEW t \in Tasks, CreateBootFails(t)
        PROVE  Durable'
    BY <1>11 DEF CreateBootFails
  <1>12. ASSUME NEW t \in Tasks, CreateBind(t)
        PROVE  Durable'
    BY <1>12 DEF CreateBind
  <1>13. ASSUME NEW t \in Tasks, LockRecord(t)
        PROVE  Durable'
    BY <1>13 DEF LockRecord
  <1>14. ASSUME NEW t \in Tasks, BackendOk(t)
        PROVE  Durable'
    <2> DEFINE s == call[t].box
    <2> DEFINE o == call[t].op
    <2>1. /\ pc[t] = "backend" /\ s \in Sandboxes /\ o \in RecordCalls /\ info[s] # "Destroyed"
          /\ info' = IF o \in DOMAIN Target THEN [info EXCEPT ![s] = Target[o]] ELSE info
          /\ \/ o = "peek" /\ pc' = [pc EXCEPT ![t] = "idle"] /\ call' = [call EXCEPT ![t] = NoCall]
             \/ o # "peek" /\ pc' = [pc EXCEPT ![t] = NextPlace(o)] /\ call' = call
          /\ todo' = todo \/ todo' = [todo EXCEPT ![t] = @ \ {s}]
          /\ used \subseteq used'
          /\ UNCHANGED <<server, boxes, keys, image, tmp, disk, detached, told>>
      BY <1>14 DEF BackendOk
    <2>2. /\ \A r \in Sandboxes : r # s => info'[r] = info[r]
          /\ info'[s] = "Destroyed" <=> o = "destroy"
      BY <2>1 DEF Target
    <2>3. /\ pc'[t] \in {"idle", "unmap", "checkpoint", "persist"}
          /\ o = "destroy" => pc'[t] = "unmap" /\ call'[t] = call[t]
          /\ o # "destroy" => call'[t].op \notin {"create", "destroy"}
          /\ \A u \in Tasks : u # t => pc'[u] = pc[u] /\ call'[u] = call[u] /\ todo'[u] = todo[u]
      BY <2>1 DEF NextPlace
    <2> HIDE DEF s, o
    <2>4. \A r \in Sandboxes : (Listed(r) => Listed(r)') /\ (Forgotten(r) => Forgotten(r)')
      BY <2>1, <2>3
    <2>5. Answers'
      BY <2>1, <2>2, <2>3, <2>4 DEF Answers
    <2>6. CreatesList'
      BY <2>1, <2>2, <2>3 DEF s, o
    <2>7. DestroysForget'
      BY <2>1, <2>2, <2>3 DEF s, o
    <2>8. KeysAreListed'
      BY <2>1, <2>2, <2>3, <2>4
    <2>9. ReplaysHit' /\ Written'
      BY <2>1, <2>3
    <2> QED
      BY <2>5, <2>6, <2>7, <2>8, <2>9
  <1>15. ASSUME NEW t \in Tasks, BackendFails(t)
        PROVE  Durable'
    <2>1. /\ pc[t] = "backend"
          /\ pc' = [pc EXCEPT ![t] = "idle"] /\ call' = [call EXCEPT ![t] = NoCall]
          /\ todo' = [todo EXCEPT ![t] = {}]
          /\ server' # "down" => server # "down"
          /\ UNCHANGED <<boxes, info, keys, used, image, tmp, disk, detached, told>>
      BY <1>15 DEF BackendFails, Drained
    <2>2. /\ pc'[t] = "idle" /\ call'[t] = NoCall
          /\ \A u \in Tasks : u # t => pc'[u] = pc[u] /\ call'[u] = call[u] /\ todo'[u] = todo[u]
      BY <2>1
    <2>3. \A r \in Sandboxes : (Listed(r) => Listed(r)') /\ (Forgotten(r) => Forgotten(r)')
      BY <2>1, <2>2
    <2>4. Answers'
      BY <2>1, <2>2, <2>3 DEF Answers
    <2>5. CreatesList' /\ DestroysForget'
      BY <2>1, <2>2
    <2>6. KeysAreListed'
      BY <2>1, <2>2, <2>3
    <2>7. ReplaysHit' /\ Written'
      BY <2>1, <2>2
    <2> QED
      BY <2>4, <2>5, <2>6, <2>7
  <1>16. ASSUME NEW t \in Tasks, DestroyUnmap(t)
        PROVE  Durable'
    BY <1>16 DEF DestroyUnmap
  <1>17. ASSUME NEW t \in Tasks, DestroyUnbind(t)
        PROVE  Durable'
    BY <1>17 DEF DestroyUnbind
  <1>18. ASSUME NEW t \in Tasks, PersistBegin(t)
        PROVE  Durable'
    <2>1. /\ pc[t] = "persist" /\ pc' = [pc EXCEPT ![t] = "capture"]
          /\ todo' = [todo EXCEPT ![t] = boxes] /\ image[t] = Blank
          /\ UNCHANGED <<server, boxes, info, keys, used, call, image, tmp, disk, detached, told>>
      BY <1>18 DEF PersistBegin
    <2>2. \A s \in Sandboxes : image'[t].state[s] = "none" /\ (s \in boxes <=> s \in todo'[t])
      BY <2>1
    <2>3. /\ pc'[t] = "capture"
          /\ \A u \in Tasks : u # t => pc'[u] = pc[u] /\ todo'[u] = todo[u]
      BY <2>1
    <2>4. \A s \in Sandboxes : (Listed(s) => Listed(s)') /\ (Forgotten(s) => Forgotten(s)')
      BY <2>1, <2>2, <2>3
    <2>5. Answers'
      BY <2>1, <2>3, <2>4 DEF Answers
    <2>6. CreatesList'
      BY <2>1, <2>2, <2>3
    <2>7. DestroysForget'
      BY <2>1, <2>2, <2>3
    <2>8. KeysAreListed'
      BY <2>1, <2>3, <2>4
    <2>9. ReplaysHit' /\ Written'
      BY <2>1, <2>3
    <2> QED
      BY <2>5, <2>6, <2>7, <2>8, <2>9
  <1>19. ASSUME NEW t \in Tasks, NEW s \in Sandboxes, PersistCapture(t, s)
        PROVE  Durable'
    <2>1. /\ pc[t] = "capture" /\ s \in todo[t] /\ pc' = pc
          /\ todo' = [todo EXCEPT ![t] = @ \ {s}]
          /\ image' = [image EXCEPT ![t].state[s] = info[s]]
          /\ UNCHANGED <<server, boxes, info, keys, used, call, tmp, disk, detached, told>>
      BY <1>19 DEF PersistCapture
    <2>2. /\ image'[t].state[s] # "none"
          /\ \A r \in Sandboxes : r # s => image'[t].state[r] = image[t].state[r]
          /\ \A u \in Tasks : u # t => image'[u] = image[u]
      BY <2>1 DEF Images, States
    <2>3. /\ \A r \in Sandboxes : r # s => (r \in todo'[t] <=> r \in todo[t])
          /\ \A u \in Tasks : u # t => todo'[u] = todo[u]
      BY <2>1
    <2>4. \A r \in Sandboxes : (Listed(r) => Listed(r)') /\ (Forgotten(r) => Forgotten(r)')
      BY <2>1, <2>2, <2>3
    <2>5. Answers'
      BY <2>1, <2>4 DEF Answers
    <2>6. CreatesList'
      BY <2>1, <2>2, <2>3
    <2>7. DestroysForget'
      BY <2>1, <2>2, <2>3
    <2>8. KeysAreListed'
      BY <2>1, <2>4
    <2>9. ReplaysHit' /\ Written'
      BY <2>1, <2>2
    <2> QED
      BY <2>5, <2>6, <2>7, <2>8, <2>9
  <1>38. ASSUME NEW t \in Tasks, PersistSnapshots(t)
        PROVE  Durable'
    BY <1>38 DEF PersistSnapshots
  <1>20. ASSUME NEW t \in Tasks, PersistIndex(t)
        PROVE  Durable'
    BY <1>20 DEF PersistIndex
  <1>21. ASSUME NEW t \in Tasks, PersistWrite(t)
        PROVE  Durable'
    BY <1>21 DEF PersistWrite
  <1>22. ASSUME NEW t \in Tasks, PersistRename(t)
        PROVE  Durable'
    BY <1>22 DEF PersistRename, Drained, Answer
  <1>23. ASSUME NEW t \in Tasks, PersistFails(t)
        PROVE  Durable'
    BY <1>23, ImageAssumption DEF PersistFails, Drained
  <1>24. ASSUME NEW s \in Sandboxes, Expire(s)
        PROVE  Durable'
    BY <1>24 DEF Expire
  <1>25. CASE ReapBegin
    BY <1>25 DEF ReapBegin
  <1>26. ASSUME NEW s \in Sandboxes, ReapList(s)
        PROVE  Durable'
    BY <1>26 DEF ReapList
  <1>27. CASE ReapFilter
    BY <1>27 DEF ReapFilter
  <1>28. ASSUME NEW s \in Sandboxes, ReapAct(s)
        PROVE  Durable'
    <2>1. /\ Reaper \in Tasks /\ pc[Reaper] = "idle"
          /\ \/ pc' = pc /\ call' = call
             \/ /\ pc' = [pc EXCEPT ![Reaper] = "lock"]
                /\ call' = [call EXCEPT ![Reaper] = [op |-> IdleAction(s), box |-> s, key |-> NoKey]]
          /\ UNCHANGED <<server, boxes, info, keys, used, todo, image, tmp, disk, detached, told>>
      BY <1>28 DEF ReapAct, Serve
    <2>2. /\ pc'[Reaper] \in {"idle", "lock"}
          /\ \A u \in Tasks : u # Reaper => pc'[u] = pc[u] /\ call'[u] = call[u]
      BY <2>1
    <2>3. \A r \in Sandboxes : (Listed(r) => Listed(r)') /\ (Forgotten(r) => Forgotten(r)')
      BY <2>1, <2>2
    <2>4. Answers'
      BY <2>1, <2>2, <2>3 DEF Answers
    <2>5. CreatesList' /\ DestroysForget'
      BY <2>1, <2>2
    <2>6. KeysAreListed'
      BY <2>1, <2>2, <2>3
    <2>7. ReplaysHit' /\ Written'
      BY <2>1, <2>2
    <2> QED
      BY <2>4, <2>5, <2>6, <2>7
  <1>29. CASE ShutdownBegin
    BY <1>29 DEF ShutdownBegin, Serve
  <1>30. ASSUME NEW s \in Sandboxes, ShutdownVisit(s)
        PROVE  Durable'
    <2>1. /\ Shutdown \in Tasks /\ pc[Shutdown] = "checkpoint"
          /\ \/ pc' = pc /\ call' = call
             \/ /\ pc' = [pc EXCEPT ![Shutdown] = "backend"]
                /\ call' = [call EXCEPT ![Shutdown] = [op |-> "checkpoint", box |-> s, key |-> NoKey]]
          /\ todo' = todo \/ todo' = [todo EXCEPT ![Shutdown] = @ \ {s}]
          /\ UNCHANGED <<server, boxes, info, keys, used, image, tmp, disk, detached, told>>
      BY <1>30 DEF ShutdownVisit, Serve
    <2>2. /\ pc'[Shutdown] \in {"checkpoint", "backend"} /\ call'[Shutdown].op = "checkpoint"
          /\ \A u \in Tasks : u # Shutdown => pc'[u] = pc[u] /\ call'[u] = call[u] /\ todo'[u] = todo[u]
      BY <2>1
    <2>3. \A r \in Sandboxes : (Listed(r) => Listed(r)') /\ (Forgotten(r) => Forgotten(r)')
      BY <2>1, <2>2
    <2>4. Answers'
      BY <2>1, <2>2, <2>3 DEF Answers
    <2>5. CreatesList' /\ DestroysForget'
      BY <2>1, <2>2
    <2>6. KeysAreListed'
      BY <2>1, <2>2, <2>3
    <2>7. ReplaysHit' /\ Written'
      BY <2>1, <2>2
    <2> QED
      BY <2>4, <2>5, <2>6, <2>7
  <1>31. CASE ShutdownDone
    BY <1>31 DEF ShutdownDone
  <1>32. ASSUME NEW d \in detached, Detached(d)
        PROVE  Durable'
    BY <1>32 DEF Detached
  <1>33. CASE Crash
    BY <1>33 DEF Crash, ProcessEnds
  <1>34. CASE Exit
    BY <1>34 DEF Exit, ProcessEnds
  <1>35. CASE Restart
    BY <1>35 DEF Restart, Saved, Loaded
  <1>36. CASE RestartFails
    BY <1>36 DEF RestartFails
  <1>37. CASE UNCHANGED vars
    BY <1>37 DEF vars
  <1> QED
    BY <1>1, <1>2, <1>3, <1>4, <1>5, <1>6, <1>7, <1>8, <1>9, <1>10, <1>11, <1>12, <1>13, <1>14,
       <1>15, <1>16, <1>17, <1>18, <1>19, <1>20, <1>21, <1>22, <1>23, <1>24, <1>25, <1>26,
       <1>27, <1>28, <1>29, <1>30, <1>31, <1>32, <1>33, <1>34, <1>35, <1>36, <1>37, <1>38
       DEF Next, Begin, Create, Operate, Persist, Continue, Reap, ShutdownStep

(* So it holds for ever.                                                   *)
LEMMA DurableInvariance ==
  ASSUME Faults \cap {"cancel", "io"} = {}
  PROVE  Spec => []Durable
  <1>1. Init => Durable
    BY NoCallType DEF Init, Durable, Answers, CreatesList, DestroysForget, KeysAreListed, ReplaysHit,
         Written, Persisting, Blank
  <1>2. Inv /\ Durable /\ [Next]_vars => Durable'
    BY DurableStep
  <1> QED
    BY <1>1, <1>2, Invariance, PTL DEF Spec

(* A sandbox whose create was acknowledged is in control-plane.json until  *)
(* a destroy starts, and one whose destroy was acknowledged never comes    *)
(* back, for any number of requests, failing backends, crashes, restarts   *)
(* and shutdowns; requests are not dropped and the file can be written.    *)
THEOREM AnswersAreDurable ==
  ASSUME Faults \cap {"cancel", "io"} = {}
  PROVE  Spec => []DurableTracksAnswers
  <1>1. Durable => DurableTracksAnswers
    BY DEF Durable, Answers, Listed, Forgotten, DurableTracksAnswers
  <1> QED
    BY <1>1, DurableInvariance, PTL

-----------------------------------------------------------------------------
(* Handlers that have changed what they are about to persist.              *)
Moving(ops) == {t \in Tasks : pc[t] \in {"bind", "unmap", "unbind", "persist"} /\ call[t].op \in ops}
InPersist(ops) == {t \in Tasks : pc[t] \in Persisting /\ call[t].op \in ops}

(* A sandbox is about to be persisted by a handler that changed it, or the *)
(* persist that runs has or will take what memory says, and the file says  *)
(* so too unless that persist is the handler's own.                        *)
StateCarried(s) ==
  server # "down" =>
    \/ \E t \in Moving(Changes) : call[t].box = s
    \/ /\ \A t \in Tasks : pc[t] \in Persisting =>
            IF pc[t] = "capture" /\ s \in todo[t] THEN s \in boxes ELSE Agree(image[t].state[s], s)
       /\ Agree(disk.state[s], s) \/ \E t \in InPersist(Changes) : call[t].box = s

(* A change of a sandbox is owed to the file until a persist that began    *)
(* after it has ended.                                                     *)
LEMMA StateStep ==
  ASSUME Faults \cap {"cancel", "io"} = {}, Inv, Written, [Next]_vars,
         NEW z \in Sandboxes, StateCarried(z)
  PROVE  StateCarried(z)'
  <1>types. /\ pc \in [Tasks -> Places] /\ call \in [Tasks -> Calls] /\ info \in [Sandboxes -> States]
            /\ boxes \subseteq Sandboxes /\ todo \in [Tasks -> SUBSET Sandboxes]
            /\ image \in [Tasks -> Images] /\ disk \in Images
    BY DEF Inv, TypeOK
  <1>cold. server = "down" => \A t \in Tasks : pc[t] = "idle"
    BY DEF Inv, DownIsCold
  <1>one. \A t, u \in Tasks : pc[t] \in Persisting /\ pc[u] \in Persisting => t = u
    BY DEF Inv, LockDiscipline
  <1>free. persistGuard = NoTask => \A t \in Tasks : pc[t] \notin Persisting
    BY TasksAssumption DEF Inv, LockDiscipline
  <1>fresh. \A t \in Tasks : pc[t] = "boot" => call[t].box \notin boxes
    BY DEF Inv, BootIsPrivate
  <1>placed. Placed
    BY DEF Inv
  <1>blank. Blank.state[z] = "none"
    BY DEF Blank
  <1>changes. Changes = {"create", "start", "resume", "stop", "pause", "destroy"}
    BY DEF Changes, Target
  <1> USE <1>types, <1>cold, <1>one, <1>fresh, <1>placed, <1>blank, <1>changes,
        TasksAssumption, DataAssumption, NoCallType
      DEF Placed, RecordCalls, Written, StateCarried, Moving, InPersist, Agree, Shown, Persisting, Creating, Tasks,
        memory, local, files, history, Go, Return
  <1>1. ASSUME NEW t \in Clients, NEW k \in Keys \cup {NoKey}, BeginCreate(t, k)
        PROVE  StateCarried(z)'
    BY <1>1 DEF BeginCreate, Serve
  <1>2. ASSUME NEW t \in Clients, NEW o \in RecordOps, NEW s \in Sandboxes, BeginOp(t, o, s)
        PROVE  StateCarried(z)'
    BY <1>2 DEF BeginOp, Serve
  <1>3. ASSUME NEW t \in Clients, NEW n \in Snapshots, DeleteSnapshot(t, n)
        PROVE  StateCarried(z)'
    BY <1>3 DEF DeleteSnapshot, Serve
  <1>4. ASSUME NEW t \in Clients, Cancel(t)
        PROVE  StateCarried(z)'
    BY <1>4 DEF Cancel
  <1>5. ASSUME NEW t \in Tasks, CreateGuard(t)
        PROVE  StateCarried(z)'
    BY <1>5 DEF CreateGuard
  <1>6. ASSUME NEW t \in Tasks, CreateLookup(t)
        PROVE  StateCarried(z)'
    BY <1>6 DEF CreateLookup, Serve
  <1>7. ASSUME NEW t \in Tasks, CreateReplay(t)
        PROVE  StateCarried(z)'
    BY <1>7 DEF CreateReplay
  <1>8. ASSUME NEW t \in Tasks, NEW s \in Sandboxes, CreateMake(t, s)
        PROVE  StateCarried(z)'
    BY <1>8 DEF CreateMake, Serve
  <1>9. ASSUME NEW t \in Tasks, CreateMakeFails(t)
        PROVE  StateCarried(z)'
    BY <1>9 DEF CreateMakeFails
  <1>10. ASSUME NEW t \in Tasks, CreateBoot(t)
        PROVE  StateCarried(z)'
    BY <1>10 DEF CreateBoot
  <1>11. ASSUME NEW t \in Tasks, CreateBootFails(t)
        PROVE  StateCarried(z)'
    BY <1>11 DEF CreateBootFails
  <1>12. ASSUME NEW t \in Tasks, CreateBind(t)
        PROVE  StateCarried(z)'
    BY <1>12 DEF CreateBind
  <1>13. ASSUME NEW t \in Tasks, LockRecord(t)
        PROVE  StateCarried(z)'
    BY <1>13 DEF LockRecord
  <1>14. ASSUME NEW t \in Tasks, BackendOk(t)
        PROVE  StateCarried(z)'
    BY <1>14 DEF BackendOk, NextPlace, Target
  <1>15. ASSUME NEW t \in Tasks, BackendFails(t)
        PROVE  StateCarried(z)'
    BY <1>15 DEF BackendFails, Drained
  <1>16. ASSUME NEW t \in Tasks, DestroyUnmap(t)
        PROVE  StateCarried(z)'
    BY <1>16 DEF DestroyUnmap
  <1>17. ASSUME NEW t \in Tasks, DestroyUnbind(t)
        PROVE  StateCarried(z)'
    BY <1>17 DEF DestroyUnbind
  <1>18. ASSUME NEW t \in Tasks, PersistBegin(t)
        PROVE  StateCarried(z)'
    <2>1. /\ persistGuard = NoTask /\ pc' = [pc EXCEPT ![t] = "capture"] /\ image[t] = Blank
          /\ todo' = [todo EXCEPT ![t] = boxes] /\ pc[t] = "persist"
          /\ UNCHANGED <<server, boxes, info, image, call, disk>>
      BY <1>18 DEF PersistBegin, MayPersist
    <2>2. \A u \in Tasks : pc[u] \notin Persisting
      BY <2>1, <1>free
    <2>3. /\ pc'[t] = "capture" /\ todo'[t] = boxes
          /\ \A u \in Tasks : (pc'[u] \in Persisting => u = t) /\ (u # t => pc'[u] = pc[u])
      BY <2>1, <2>2
    <2> QED
      BY <2>1, <2>2, <2>3
  <1>19. ASSUME NEW t \in Tasks, NEW s \in Sandboxes, PersistCapture(t, s)
        PROVE  StateCarried(z)'
    <2>1. /\ pc[t] = "capture" /\ s \in todo[t] /\ pc' = pc
          /\ todo' = [todo EXCEPT ![t] = @ \ {s}]
          /\ image' = [image EXCEPT ![t].state[s] = info[s]]
          /\ UNCHANGED <<server, boxes, info, call, disk>>
      BY <1>19 DEF PersistCapture
    <2>2. /\ image'[t].state[s] = info[s]
          /\ \A r \in Sandboxes : r # s => image'[t].state[r] = image[t].state[r]
      BY <2>1 DEF Images
    <2>3. /\ todo'[t] = todo[t] \ {s}
          /\ \A u \in Tasks : pc'[u] \in Persisting => u = t
      BY <2>1
    <2>4. CASE z = s
      BY <2>1, <2>2, <2>3, <2>4
    <2>5. CASE z # s
      BY <2>1, <2>2, <2>3, <2>5
    <2> QED
      BY <2>4, <2>5
  <1>38. ASSUME NEW t \in Tasks, PersistSnapshots(t)
        PROVE  StateCarried(z)'
    BY <1>38 DEF PersistSnapshots
  <1>20. ASSUME NEW t \in Tasks, PersistIndex(t)
        PROVE  StateCarried(z)'
    BY <1>20 DEF PersistIndex
  <1>21. ASSUME NEW t \in Tasks, PersistWrite(t)
        PROVE  StateCarried(z)'
    BY <1>21 DEF PersistWrite
  <1>22. ASSUME NEW t \in Tasks, PersistRename(t)
        PROVE  StateCarried(z)'
    BY <1>22 DEF PersistRename, Drained
  <1>23. ASSUME NEW t \in Tasks, PersistFails(t)
        PROVE  StateCarried(z)'
    BY <1>23, ImageAssumption DEF PersistFails, Drained
  <1>24. ASSUME NEW s \in Sandboxes, Expire(s)
        PROVE  StateCarried(z)'
    BY <1>24 DEF Expire
  <1>25. CASE ReapBegin
    BY <1>25 DEF ReapBegin
  <1>26. ASSUME NEW s \in Sandboxes, ReapList(s)
        PROVE  StateCarried(z)'
    BY <1>26 DEF ReapList
  <1>27. CASE ReapFilter
    BY <1>27 DEF ReapFilter
  <1>28. ASSUME NEW s \in Sandboxes, ReapAct(s)
        PROVE  StateCarried(z)'
    BY <1>28 DEF ReapAct, Serve
  <1>29. CASE ShutdownBegin
    BY <1>29 DEF ShutdownBegin, Serve
  <1>30. ASSUME NEW s \in Sandboxes, ShutdownVisit(s)
        PROVE  StateCarried(z)'
    BY <1>30 DEF ShutdownVisit, Serve
  <1>31. CASE ShutdownDone
    BY <1>31 DEF ShutdownDone
  <1>32. ASSUME NEW d \in detached, Detached(d)
        PROVE  StateCarried(z)'
    BY <1>32 DEF Detached
  <1>33. CASE Crash
    BY <1>33 DEF Crash, ProcessEnds
  <1>34. CASE Exit
    BY <1>34 DEF Exit, ProcessEnds
  <1>35. CASE Restart
    BY <1>35 DEF Restart, Saved, Loaded
  <1>36. CASE RestartFails
    BY <1>36 DEF RestartFails
  <1>37. CASE UNCHANGED vars
    BY <1>37 DEF vars
  <1> QED
    BY <1>1, <1>2, <1>3, <1>4, <1>5, <1>6, <1>7, <1>8, <1>9, <1>10, <1>11, <1>12, <1>13, <1>14,
       <1>15, <1>16, <1>17, <1>18, <1>19, <1>20, <1>21, <1>22, <1>23, <1>24, <1>25, <1>26,
       <1>27, <1>28, <1>29, <1>30, <1>31, <1>32, <1>33, <1>34, <1>35, <1>36, <1>37, <1>38
       DEF Next, Begin, Create, Operate, Persist, Continue, Reap, ShutdownStep

(* A key is bound to a sandbox made for it, in memory, in every image and  *)
(* in the file.                                                            *)
MadeFor(index) == \A k \in Keys : index[k] # NoBox => madeFor[index[k]] = k

Attributed ==
  /\ \A t \in Unanswered(Changes) : call[t].box \in Sandboxes
  /\ \A t \in Tasks : pc[t] \in {"boot", "bind"} => madeFor[call[t].box] = call[t].key
  /\ MadeFor(keys) /\ MadeFor(disk.keys) /\ \A t \in Tasks : MadeFor(image[t].keys)

(* No step binds a key to a sandbox made for another: an id that is handed *)
(* out is new to every index.                                              *)
LEMMA AttributedStep ==
  ASSUME Faults \cap {"cancel", "io"} = {}, Inv, Written, Attributed, [Next]_vars
  PROVE  Attributed'
  <1>types. /\ pc \in [Tasks -> Places] /\ call \in [Tasks -> Calls]
            /\ image \in [Tasks -> Images] /\ disk \in Images
            /\ keys \in [Keys -> Sandboxes \cup {NoBox}]
            /\ madeFor \in [Sandboxes -> Keys \cup {NoKey}]
    BY DEF Inv, TypeOK
  <1>index. /\ disk.keys \in [Keys -> Sandboxes \cup {NoBox}]
            /\ \A t \in Tasks : image[t].keys \in [Keys -> Sandboxes \cup {NoBox}]
    BY <1>types DEF Images
  <1>cold. server = "down" => \A t \in Tasks : pc[t] = "idle"
    BY DEF Inv, DownIsCold
  <1>placed. Placed
    BY DEF Inv
  <1>known. /\ \A t \in Tasks : call[t].box # NoBox => call[t].box \in used
            /\ \A k \in Keys : /\ keys[k] # NoBox => keys[k] \in used
                               /\ disk.keys[k] # NoBox => disk.keys[k] \in used
            /\ \A t \in Tasks, k \in Keys : image[t].keys[k] # NoBox => image[t].keys[k] \in used
    BY DEF Inv, Known, ImageKnown
  <1>blank. MadeFor(Blank.keys)
    BY DEF MadeFor, Blank
  <1>changes. Changes = {"create", "start", "resume", "stop", "pause", "destroy"}
    BY DEF Changes, Target
  <1> USE <1>types, <1>index, <1>cold, <1>placed, <1>known, <1>blank, <1>changes,
        TasksAssumption, DataAssumption, NoCallType
      DEF Placed, RecordCalls, Written, Attributed, MadeFor, Unanswered, Saving, Persisting, Creating, Tasks,
        memory, local, files, history, Go, Return
  <1>1. ASSUME NEW t \in Clients, NEW k \in Keys \cup {NoKey}, BeginCreate(t, k)
        PROVE  Attributed'
    BY <1>1 DEF BeginCreate, Serve
  <1>2. ASSUME NEW t \in Clients, NEW o \in RecordOps, NEW s \in Sandboxes, BeginOp(t, o, s)
        PROVE  Attributed'
    BY <1>2 DEF BeginOp, Serve
  <1>3. ASSUME NEW t \in Clients, NEW n \in Snapshots, DeleteSnapshot(t, n)
        PROVE  Attributed'
    BY <1>3 DEF DeleteSnapshot, Serve
  <1>4. ASSUME NEW t \in Clients, Cancel(t)
        PROVE  Attributed'
    BY <1>4 DEF Cancel
  <1>5. ASSUME NEW t \in Tasks, CreateGuard(t)
        PROVE  Attributed'
    BY <1>5 DEF CreateGuard
  <1>6. ASSUME NEW t \in Tasks, CreateLookup(t)
        PROVE  Attributed'
    BY <1>6 DEF CreateLookup, Serve
  <1>7. ASSUME NEW t \in Tasks, CreateReplay(t)
        PROVE  Attributed'
    BY <1>7 DEF CreateReplay
  <1>8. ASSUME NEW t \in Tasks, NEW s \in Sandboxes, CreateMake(t, s)
        PROVE  Attributed'
    BY <1>8 DEF CreateMake, Serve
  <1>9. ASSUME NEW t \in Tasks, CreateMakeFails(t)
        PROVE  Attributed'
    BY <1>9 DEF CreateMakeFails
  <1>10. ASSUME NEW t \in Tasks, CreateBoot(t)
        PROVE  Attributed'
    BY <1>10 DEF CreateBoot
  <1>11. ASSUME NEW t \in Tasks, CreateBootFails(t)
        PROVE  Attributed'
    BY <1>11 DEF CreateBootFails
  <1>12. ASSUME NEW t \in Tasks, CreateBind(t)
        PROVE  Attributed'
    BY <1>12 DEF CreateBind
  <1>13. ASSUME NEW t \in Tasks, LockRecord(t)
        PROVE  Attributed'
    BY <1>13 DEF LockRecord
  <1>14. ASSUME NEW t \in Tasks, BackendOk(t)
        PROVE  Attributed'
    BY <1>14 DEF BackendOk, NextPlace, Target
  <1>15. ASSUME NEW t \in Tasks, BackendFails(t)
        PROVE  Attributed'
    BY <1>15 DEF BackendFails, Drained
  <1>16. ASSUME NEW t \in Tasks, DestroyUnmap(t)
        PROVE  Attributed'
    BY <1>16 DEF DestroyUnmap
  <1>17. ASSUME NEW t \in Tasks, DestroyUnbind(t)
        PROVE  Attributed'
    BY <1>17 DEF DestroyUnbind
  <1>18. ASSUME NEW t \in Tasks, PersistBegin(t)
        PROVE  Attributed'
    BY <1>18 DEF PersistBegin
  <1>19. ASSUME NEW t \in Tasks, NEW s \in Sandboxes, PersistCapture(t, s)
        PROVE  Attributed'
    BY <1>19 DEF PersistCapture
  <1>38. ASSUME NEW t \in Tasks, PersistSnapshots(t)
        PROVE  Attributed'
    BY <1>38 DEF PersistSnapshots
  <1>20. ASSUME NEW t \in Tasks, PersistIndex(t)
        PROVE  Attributed'
    BY <1>20 DEF PersistIndex
  <1>21. ASSUME NEW t \in Tasks, PersistWrite(t)
        PROVE  Attributed'
    BY <1>21 DEF PersistWrite
  <1>22. ASSUME NEW t \in Tasks, PersistRename(t)
        PROVE  Attributed'
    BY <1>22 DEF PersistRename, Drained
  <1>23. ASSUME NEW t \in Tasks, PersistFails(t)
        PROVE  Attributed'
    BY <1>23, ImageAssumption DEF PersistFails, Drained
  <1>24. ASSUME NEW s \in Sandboxes, Expire(s)
        PROVE  Attributed'
    BY <1>24 DEF Expire
  <1>25. CASE ReapBegin
    BY <1>25 DEF ReapBegin
  <1>26. ASSUME NEW s \in Sandboxes, ReapList(s)
        PROVE  Attributed'
    BY <1>26 DEF ReapList
  <1>27. CASE ReapFilter
    BY <1>27 DEF ReapFilter
  <1>28. ASSUME NEW s \in Sandboxes, ReapAct(s)
        PROVE  Attributed'
    BY <1>28 DEF ReapAct, Serve
  <1>29. CASE ShutdownBegin
    BY <1>29 DEF ShutdownBegin, Serve
  <1>30. ASSUME NEW s \in Sandboxes, ShutdownVisit(s)
        PROVE  Attributed'
    BY <1>30 DEF ShutdownVisit, Serve
  <1>31. CASE ShutdownDone
    BY <1>31 DEF ShutdownDone
  <1>32. ASSUME NEW d \in detached, Detached(d)
        PROVE  Attributed'
    BY <1>32 DEF Detached
  <1>33. CASE Crash
    BY <1>33 DEF Crash, ProcessEnds
  <1>34. CASE Exit
    BY <1>34 DEF Exit, ProcessEnds
  <1>35. CASE Restart
    BY <1>35 DEF Restart, Saved, Loaded
  <1>36. CASE RestartFails
    BY <1>36 DEF RestartFails
  <1>37. CASE UNCHANGED vars
    BY <1>37 DEF vars
  <1> QED
    BY <1>1, <1>2, <1>3, <1>4, <1>5, <1>6, <1>7, <1>8, <1>9, <1>10, <1>11, <1>12, <1>13, <1>14,
       <1>15, <1>16, <1>17, <1>18, <1>19, <1>20, <1>21, <1>22, <1>23, <1>24, <1>25, <1>26,
       <1>27, <1>28, <1>29, <1>30, <1>31, <1>32, <1>33, <1>34, <1>35, <1>36, <1>37, <1>38
       DEF Next, Begin, Create, Operate, Persist, Continue, Reap, ShutdownStep

(* The same for the binding of a key, read after all records, and for the  *)
(* list of snapshots.                                                      *)
KeyCarried(k) ==
  server # "down" =>
    \/ \E t \in Moving({"create", "destroy"}) : pc[t] = "persist" /\ madeFor[call[t].box] = k
    \/ /\ \A t \in Tasks : pc[t] \in {"write", "rename"} => image[t].keys[k] = keys[k]
       /\ \/ disk.keys[k] = keys[k]
          \/ \E t \in InPersist({"create", "destroy"}) : madeFor[call[t].box] = k

SnapsCarried ==
  server # "down" =>
    \/ \E t \in Moving({"snapshot", "deleteSnapshot"}) : pc[t] = "persist"
    \/ /\ \A t \in Tasks : pc[t] \in {"index", "write", "rename"} => image[t].snaps = snaps
       /\ disk.snaps = snaps \/ InPersist({"snapshot", "deleteSnapshot"}) # {}

(* A key bound or released is owed to the file.                            *)
LEMMA KeyStepDurable ==
  ASSUME Faults \cap {"cancel", "io"} = {}, Inv, Written, Attributed, [Next]_vars,
         NEW z \in Keys, KeyCarried(z)
  PROVE  KeyCarried(z)'
  <1>types. /\ pc \in [Tasks -> Places] /\ call \in [Tasks -> Calls]
            /\ image \in [Tasks -> Images] /\ disk \in Images
            /\ keys \in [Keys -> Sandboxes \cup {NoBox}]
            /\ madeFor \in [Sandboxes -> Keys \cup {NoKey}]
    BY DEF Inv, TypeOK
  <1>cold. server = "down" => \A t \in Tasks : pc[t] = "idle"
    BY DEF Inv, DownIsCold
  <1>one. \A t, u \in Tasks : pc[t] \in Persisting /\ pc[u] \in Persisting => t = u
    BY DEF Inv, LockDiscipline
  <1>free. persistGuard = NoTask => \A t \in Tasks : pc[t] \notin Persisting
    BY TasksAssumption DEF Inv, LockDiscipline
  <1>placed. Placed
    BY DEF Inv
  <1>known. \A t \in Tasks : call[t].box # NoBox => call[t].box \in used
    BY DEF Inv, Known
  <1>boxes. \A t \in Tasks : pc[t] \in Saving /\ call[t].op \in {"create", "destroy"} => call[t].box \in Sandboxes
    BY DEF Attributed, Unanswered, Changes, Target
  <1>made. /\ \A t \in Tasks : pc[t] = "bind" => madeFor[call[t].box] = call[t].key
           /\ keys[z] # NoBox => madeFor[keys[z]] = z
    BY DEF Attributed, MadeFor
  <1> USE <1>types, <1>cold, <1>one, <1>placed, <1>known, <1>boxes, <1>made,
        TasksAssumption, DataAssumption, NoCallType
      DEF Placed, RecordCalls, Written, KeyCarried, Moving, InPersist, Saving, Persisting, Creating, Tasks,
        memory, local, files, history, Go, Return
  <1>1. ASSUME NEW t \in Clients, NEW k \in Keys \cup {NoKey}, BeginCreate(t, k)
        PROVE  KeyCarried(z)'
    BY <1>1 DEF BeginCreate, Serve
  <1>2. ASSUME NEW t \in Clients, NEW o \in RecordOps, NEW s \in Sandboxes, BeginOp(t, o, s)
        PROVE  KeyCarried(z)'
    BY <1>2 DEF BeginOp, Serve
  <1>3. ASSUME NEW t \in Clients, NEW n \in Snapshots, DeleteSnapshot(t, n)
        PROVE  KeyCarried(z)'
    BY <1>3 DEF DeleteSnapshot, Serve
  <1>4. ASSUME NEW t \in Clients, Cancel(t)
        PROVE  KeyCarried(z)'
    BY <1>4 DEF Cancel
  <1>5. ASSUME NEW t \in Tasks, CreateGuard(t)
        PROVE  KeyCarried(z)'
    BY <1>5 DEF CreateGuard
  <1>6. ASSUME NEW t \in Tasks, CreateLookup(t)
        PROVE  KeyCarried(z)'
    BY <1>6 DEF CreateLookup, Serve
  <1>7. ASSUME NEW t \in Tasks, CreateReplay(t)
        PROVE  KeyCarried(z)'
    BY <1>7 DEF CreateReplay
  <1>8. ASSUME NEW t \in Tasks, NEW s \in Sandboxes, CreateMake(t, s)
        PROVE  KeyCarried(z)'
    BY <1>8 DEF CreateMake, Serve
  <1>9. ASSUME NEW t \in Tasks, CreateMakeFails(t)
        PROVE  KeyCarried(z)'
    BY <1>9 DEF CreateMakeFails
  <1>10. ASSUME NEW t \in Tasks, CreateBoot(t)
        PROVE  KeyCarried(z)'
    BY <1>10 DEF CreateBoot
  <1>11. ASSUME NEW t \in Tasks, CreateBootFails(t)
        PROVE  KeyCarried(z)'
    BY <1>11 DEF CreateBootFails
  <1>12. ASSUME NEW t \in Tasks, CreateBind(t)
        PROVE  KeyCarried(z)'
    BY <1>12 DEF CreateBind
  <1>13. ASSUME NEW t \in Tasks, LockRecord(t)
        PROVE  KeyCarried(z)'
    BY <1>13 DEF LockRecord
  <1>14. ASSUME NEW t \in Tasks, BackendOk(t)
        PROVE  KeyCarried(z)'
    BY <1>14 DEF BackendOk, NextPlace, Target
  <1>15. ASSUME NEW t \in Tasks, BackendFails(t)
        PROVE  KeyCarried(z)'
    BY <1>15 DEF BackendFails, Drained
  <1>16. ASSUME NEW t \in Tasks, DestroyUnmap(t)
        PROVE  KeyCarried(z)'
    BY <1>16 DEF DestroyUnmap
  <1>17. ASSUME NEW t \in Tasks, DestroyUnbind(t)
        PROVE  KeyCarried(z)'
    BY <1>17 DEF DestroyUnbind
  <1>18. ASSUME NEW t \in Tasks, PersistBegin(t)
        PROVE  KeyCarried(z)'
    BY <1>18, <1>free DEF PersistBegin, MayPersist
  <1>19. ASSUME NEW t \in Tasks, NEW s \in Sandboxes, PersistCapture(t, s)
        PROVE  KeyCarried(z)'
    BY <1>19 DEF PersistCapture
  <1>38. ASSUME NEW t \in Tasks, PersistSnapshots(t)
        PROVE  KeyCarried(z)'
    BY <1>38 DEF PersistSnapshots
  <1>20. ASSUME NEW t \in Tasks, PersistIndex(t)
        PROVE  KeyCarried(z)'
    BY <1>20 DEF PersistIndex
  <1>21. ASSUME NEW t \in Tasks, PersistWrite(t)
        PROVE  KeyCarried(z)'
    BY <1>21 DEF PersistWrite
  <1>22. ASSUME NEW t \in Tasks, PersistRename(t)
        PROVE  KeyCarried(z)'
    BY <1>22 DEF PersistRename, Drained
  <1>23. ASSUME NEW t \in Tasks, PersistFails(t)
        PROVE  KeyCarried(z)'
    BY <1>23, ImageAssumption DEF PersistFails, Drained
  <1>24. ASSUME NEW s \in Sandboxes, Expire(s)
        PROVE  KeyCarried(z)'
    BY <1>24 DEF Expire
  <1>25. CASE ReapBegin
    BY <1>25 DEF ReapBegin
  <1>26. ASSUME NEW s \in Sandboxes, ReapList(s)
        PROVE  KeyCarried(z)'
    BY <1>26 DEF ReapList
  <1>27. CASE ReapFilter
    BY <1>27 DEF ReapFilter
  <1>28. ASSUME NEW s \in Sandboxes, ReapAct(s)
        PROVE  KeyCarried(z)'
    BY <1>28 DEF ReapAct, Serve
  <1>29. CASE ShutdownBegin
    BY <1>29 DEF ShutdownBegin, Serve
  <1>30. ASSUME NEW s \in Sandboxes, ShutdownVisit(s)
        PROVE  KeyCarried(z)'
    BY <1>30 DEF ShutdownVisit, Serve
  <1>31. CASE ShutdownDone
    BY <1>31 DEF ShutdownDone
  <1>32. ASSUME NEW d \in detached, Detached(d)
        PROVE  KeyCarried(z)'
    BY <1>32 DEF Detached
  <1>33. CASE Crash
    BY <1>33 DEF Crash, ProcessEnds
  <1>34. CASE Exit
    BY <1>34 DEF Exit, ProcessEnds
  <1>35. CASE Restart
    BY <1>35 DEF Restart, Saved, Loaded
  <1>36. CASE RestartFails
    BY <1>36 DEF RestartFails
  <1>37. CASE UNCHANGED vars
    BY <1>37 DEF vars
  <1> QED
    BY <1>1, <1>2, <1>3, <1>4, <1>5, <1>6, <1>7, <1>8, <1>9, <1>10, <1>11, <1>12, <1>13, <1>14,
       <1>15, <1>16, <1>17, <1>18, <1>19, <1>20, <1>21, <1>22, <1>23, <1>24, <1>25, <1>26,
       <1>27, <1>28, <1>29, <1>30, <1>31, <1>32, <1>33, <1>34, <1>35, <1>36, <1>37, <1>38
       DEF Next, Begin, Create, Operate, Persist, Continue, Reap, ShutdownStep

(* A snapshot taken or deleted is owed to the file.                        *)
LEMMA SnapsStep ==
  ASSUME Faults \cap {"cancel", "io"} = {}, Inv, Written, SnapsCarried, [Next]_vars
  PROVE  SnapsCarried'
  <1>types. /\ pc \in [Tasks -> Places] /\ call \in [Tasks -> Calls]
            /\ image \in [Tasks -> Images] /\ disk \in Images
    BY DEF Inv, TypeOK
  <1>cold. server = "down" => \A t \in Tasks : pc[t] = "idle"
    BY DEF Inv, DownIsCold
  <1>one. \A t, u \in Tasks : pc[t] \in Persisting /\ pc[u] \in Persisting => t = u
    BY DEF Inv, LockDiscipline
  <1>free. persistGuard = NoTask => \A t \in Tasks : pc[t] \notin Persisting
    BY TasksAssumption DEF Inv, LockDiscipline
  <1>placed. Placed
    BY DEF Inv
  <1> USE <1>types, <1>cold, <1>one, <1>placed, TasksAssumption, DataAssumption, NoCallType
      DEF Placed, RecordCalls, Written, SnapsCarried, Moving, InPersist, Persisting, Creating, Tasks,
        memory, local, files, history, Go, Return
  <1>1. ASSUME NEW t \in Clients, NEW k \in Keys \cup {NoKey}, BeginCreate(t, k)
        PROVE  SnapsCarried'
    BY <1>1 DEF BeginCreate, Serve
  <1>2. ASSUME NEW t \in Clients, NEW o \in RecordOps, NEW s \in Sandboxes, BeginOp(t, o, s)
        PROVE  SnapsCarried'
    BY <1>2 DEF BeginOp, Serve
  <1>3. ASSUME NEW t \in Clients, NEW n \in Snapshots, DeleteSnapshot(t, n)
        PROVE  SnapsCarried'
    BY <1>3 DEF DeleteSnapshot, Serve
  <1>4. ASSUME NEW t \in Clients, Cancel(t)
        PROVE  SnapsCarried'
    BY <1>4 DEF Cancel
  <1>5. ASSUME NEW t \in Tasks, CreateGuard(t)
        PROVE  SnapsCarried'
    BY <1>5 DEF CreateGuard
  <1>6. ASSUME NEW t \in Tasks, CreateLookup(t)
        PROVE  SnapsCarried'
    BY <1>6 DEF CreateLookup, Serve
  <1>7. ASSUME NEW t \in Tasks, CreateReplay(t)
        PROVE  SnapsCarried'
    BY <1>7 DEF CreateReplay
  <1>8. ASSUME NEW t \in Tasks, NEW s \in Sandboxes, CreateMake(t, s)
        PROVE  SnapsCarried'
    BY <1>8 DEF CreateMake, Serve
  <1>9. ASSUME NEW t \in Tasks, CreateMakeFails(t)
        PROVE  SnapsCarried'
    BY <1>9 DEF CreateMakeFails
  <1>10. ASSUME NEW t \in Tasks, CreateBoot(t)
        PROVE  SnapsCarried'
    BY <1>10 DEF CreateBoot
  <1>11. ASSUME NEW t \in Tasks, CreateBootFails(t)
        PROVE  SnapsCarried'
    BY <1>11 DEF CreateBootFails
  <1>12. ASSUME NEW t \in Tasks, CreateBind(t)
        PROVE  SnapsCarried'
    BY <1>12 DEF CreateBind
  <1>13. ASSUME NEW t \in Tasks, LockRecord(t)
        PROVE  SnapsCarried'
    BY <1>13 DEF LockRecord
  <1>14. ASSUME NEW t \in Tasks, BackendOk(t)
        PROVE  SnapsCarried'
    BY <1>14 DEF BackendOk, NextPlace, Target
  <1>15. ASSUME NEW t \in Tasks, BackendFails(t)
        PROVE  SnapsCarried'
    BY <1>15 DEF BackendFails, Drained
  <1>16. ASSUME NEW t \in Tasks, DestroyUnmap(t)
        PROVE  SnapsCarried'
    BY <1>16 DEF DestroyUnmap
  <1>17. ASSUME NEW t \in Tasks, DestroyUnbind(t)
        PROVE  SnapsCarried'
    BY <1>17 DEF DestroyUnbind
  <1>18. ASSUME NEW t \in Tasks, PersistBegin(t)
        PROVE  SnapsCarried'
    BY <1>18, <1>free DEF PersistBegin, MayPersist
  <1>19. ASSUME NEW t \in Tasks, NEW s \in Sandboxes, PersistCapture(t, s)
        PROVE  SnapsCarried'
    BY <1>19 DEF PersistCapture
  <1>38. ASSUME NEW t \in Tasks, PersistSnapshots(t)
        PROVE  SnapsCarried'
    BY <1>38 DEF PersistSnapshots
  <1>20. ASSUME NEW t \in Tasks, PersistIndex(t)
        PROVE  SnapsCarried'
    BY <1>20 DEF PersistIndex
  <1>21. ASSUME NEW t \in Tasks, PersistWrite(t)
        PROVE  SnapsCarried'
    BY <1>21 DEF PersistWrite
  <1>22. ASSUME NEW t \in Tasks, PersistRename(t)
        PROVE  SnapsCarried'
    BY <1>22 DEF PersistRename, Drained
  <1>23. ASSUME NEW t \in Tasks, PersistFails(t)
        PROVE  SnapsCarried'
    BY <1>23, ImageAssumption DEF PersistFails, Drained
  <1>24. ASSUME NEW s \in Sandboxes, Expire(s)
        PROVE  SnapsCarried'
    BY <1>24 DEF Expire
  <1>25. CASE ReapBegin
    BY <1>25 DEF ReapBegin
  <1>26. ASSUME NEW s \in Sandboxes, ReapList(s)
        PROVE  SnapsCarried'
    BY <1>26 DEF ReapList
  <1>27. CASE ReapFilter
    BY <1>27 DEF ReapFilter
  <1>28. ASSUME NEW s \in Sandboxes, ReapAct(s)
        PROVE  SnapsCarried'
    BY <1>28 DEF ReapAct, Serve
  <1>29. CASE ShutdownBegin
    BY <1>29 DEF ShutdownBegin, Serve
  <1>30. ASSUME NEW s \in Sandboxes, ShutdownVisit(s)
        PROVE  SnapsCarried'
    BY <1>30 DEF ShutdownVisit, Serve
  <1>31. CASE ShutdownDone
    BY <1>31 DEF ShutdownDone
  <1>32. ASSUME NEW d \in detached, Detached(d)
        PROVE  SnapsCarried'
    BY <1>32 DEF Detached
  <1>33. CASE Crash
    BY <1>33 DEF Crash, ProcessEnds
  <1>34. CASE Exit
    BY <1>34 DEF Exit, ProcessEnds
  <1>35. CASE Restart
    BY <1>35 DEF Restart, Saved, Loaded
  <1>36. CASE RestartFails
    BY <1>36 DEF RestartFails
  <1>37. CASE UNCHANGED vars
    BY <1>37 DEF vars
  <1> QED
    BY <1>1, <1>2, <1>3, <1>4, <1>5, <1>6, <1>7, <1>8, <1>9, <1>10, <1>11, <1>12, <1>13, <1>14,
       <1>15, <1>16, <1>17, <1>18, <1>19, <1>20, <1>21, <1>22, <1>23, <1>24, <1>25, <1>26,
       <1>27, <1>28, <1>29, <1>30, <1>31, <1>32, <1>33, <1>34, <1>35, <1>36, <1>37, <1>38
       DEF Next, Begin, Create, Operate, Persist, Continue, Reap, ShutdownStep

(* Nothing that was changed is forgotten on its way to the file.           *)
Carried ==
  /\ Attributed
  /\ \A s \in Sandboxes : StateCarried(s)
  /\ \A k \in Keys : KeyCarried(k)
  /\ SnapsCarried

(* So it holds for ever.                                                   *)
LEMMA CarriedInvariance ==
  ASSUME Faults \cap {"cancel", "io"} = {}
  PROVE  Spec => []Carried
  <1>1. ASSUME Init PROVE Carried
    <2>1. /\ server = "up" /\ boxes = {} /\ snaps = {} /\ keys = Blank.keys /\ disk = Blank
          /\ \A t \in Tasks : pc[t] = "idle" /\ image[t] = Blank
      BY <1>1 DEF Init
    <2>2. /\ \A s \in Sandboxes : Blank.state[s] = "none"
          /\ \A k \in Keys : Blank.keys[k] = NoBox
          /\ Blank.snaps = {}
      BY DEF Blank
    <2>3. Attributed
      BY <2>1, <2>2 DEF Attributed, Unanswered, Saving, Persisting, MadeFor
    <2>4. \A s \in Sandboxes : StateCarried(s)
      BY <2>1, <2>2 DEF StateCarried, Persisting, Agree, Shown
    <2>5. (\A k \in Keys : KeyCarried(k)) /\ SnapsCarried
      BY <2>1, <2>2 DEF KeyCarried, SnapsCarried
    <2> QED
      BY <2>3, <2>4, <2>5 DEF Carried
  <1>2. ASSUME Inv, Durable, Carried, [Next]_vars PROVE Carried'
    <2>1. Written
      BY <1>2 DEF Durable
    <2>2. \A s \in Sandboxes : StateCarried(s)'
      BY <1>2, <2>1, StateStep DEF Carried
    <2>3. \A k \in Keys : KeyCarried(k)'
      BY <1>2, <2>1, KeyStepDurable DEF Carried
    <2>4. Attributed' /\ SnapsCarried'
      BY <1>2, <2>1, AttributedStep, SnapsStep DEF Carried
    <2> QED
      BY <2>2, <2>3, <2>4 DEF Carried
  <1> QED
    BY <1>1, <1>2, Invariance, DurableInvariance, PTL DEF Spec

(* Every change that has been answered is in control-plane.json, whatever  *)
(* other requests are in the middle of: for any number of requests,        *)
(* failing backends, crashes, restarts and shutdowns; requests are not     *)
(* dropped and the file can be written.                                    *)
THEOREM FileFollowsMemory ==
  ASSUME Faults \cap {"cancel", "io"} = {}
  PROVE  Spec => []AnsweredIsSaved
  <1>1. ASSUME Carried PROVE AnsweredIsSaved
    <2> SUFFICES ASSUME server # "down" PROVE AnsweredIsSaved!2
      BY DEF AnsweredIsSaved
    <2>1. \A s \in Sandboxes \ Unsaved : Agree(disk.state[s], s)
      BY <1>1 DEF Carried, StateCarried, Moving, InPersist, Unsaved, Unanswered, Saving
    <2>2. \A k \in Keys : \/ disk.keys[k] = keys[k]
                          \/ \E t \in Unanswered({"create", "destroy"}) : madeFor[call[t].box] = k
      BY <1>1 DEF Carried, KeyCarried, Moving, InPersist, Unanswered, Saving
    <2>3. disk.snaps = snaps \/ Unanswered({"snapshot", "deleteSnapshot"}) # {}
      BY <1>1 DEF Carried, SnapsCarried, Moving, InPersist, Unanswered, Saving
    <2> QED
      BY <2>1, <2>2, <2>3
  <1> QED
    BY <1>1, CarriedInvariance, PTL

-----------------------------------------------------------------------------
(* The key of z is bound to z in the file, in memory and in what is going  *)
(* to replace the file.                                                    *)
KeyFiled(z) ==
  /\ disk.keys[madeFor[z]] = z
  /\ server # "down" => keys[madeFor[z]] = z
  /\ \A t \in Tasks : pc[t] \in {"write", "rename"} => image[t].keys[madeFor[z]] = z

(* t has bound the key of z and persists it.                               *)
Creator(t, z) ==
  call[t].op = "create" /\ call[t].box = z /\ pc[t] \in {"persist"} \cup Persisting

(* An acknowledged create has its key filed, and so has one a retry finds, *)
(* once its creator has released the create guard.                         *)
KeyHeld(z) ==
  info[z] # "Destroyed" /\ madeFor[z] # NoKey =>
    /\ told[z] = "created" => KeyFiled(z)
    /\ server # "down" /\ keys[madeFor[z]] = z => KeyFiled(z) \/ \E t \in Tasks : Creator(t, z)
    /\ \A t \in Tasks : Creator(t, z) =>
         /\ keys[madeFor[z]] = z
         /\ pc[t] \in {"write", "rename"} => image[t].keys[madeFor[z]] = z

(* No key is bound between the lookup that missed it and the binding.      *)
MissesAreFree ==
  \A t \in Tasks : pc[t] \in {"make", "boot", "bind"} /\ call[t].key # NoKey =>
    keys[call[t].key] = NoBox

(* The create guard is what keeps another create from binding the key.     *)
LEMMA MissStep ==
  ASSUME Inv, MissesAreFree, [Next]_vars
  PROVE  MissesAreFree'
  <1>types. /\ pc \in [Tasks -> Places] /\ call \in [Tasks -> Calls]
            /\ keys \in [Keys -> Sandboxes \cup {NoBox}]
    BY DEF Inv, TypeOK
  <1>cold. server = "down" => \A t \in Tasks : pc[t] = "idle"
    BY DEF Inv, DownIsCold
  <1>guard. \A t, u \in Tasks : pc[t] \in Creating /\ pc[u] \in Creating => t = u
    BY DEF Inv, LockDiscipline
  <1>placed. Placed
    BY DEF Inv
  <1> USE <1>types, <1>cold, <1>guard, <1>placed, TasksAssumption, DataAssumption, NoCallType
      DEF MissesAreFree, Placed, Creating, Tasks, memory, local, files, history, Go, Return
  <1>1. ASSUME NEW t \in Clients, NEW k \in Keys \cup {NoKey}, BeginCreate(t, k)
        PROVE  MissesAreFree'
    BY <1>1 DEF BeginCreate, Serve
  <1>2. ASSUME NEW t \in Clients, NEW o \in RecordOps, NEW s \in Sandboxes, BeginOp(t, o, s)
        PROVE  MissesAreFree'
    BY <1>2 DEF BeginOp, Serve
  <1>3. ASSUME NEW t \in Clients, NEW n \in Snapshots, DeleteSnapshot(t, n)
        PROVE  MissesAreFree'
    BY <1>3 DEF DeleteSnapshot, Serve
  <1>4. ASSUME NEW t \in Clients, Cancel(t)
        PROVE  MissesAreFree'
    BY <1>4 DEF Cancel
  <1>5. ASSUME NEW t \in Tasks, CreateGuard(t)
        PROVE  MissesAreFree'
    BY <1>5 DEF CreateGuard
  <1>6. ASSUME NEW t \in Tasks, CreateLookup(t)
        PROVE  MissesAreFree'
    BY <1>6 DEF CreateLookup, Serve
  <1>7. ASSUME NEW t \in Tasks, CreateReplay(t)
        PROVE  MissesAreFree'
    BY <1>7 DEF CreateReplay
  <1>8. ASSUME NEW t \in Tasks, NEW s \in Sandboxes, CreateMake(t, s)
        PROVE  MissesAreFree'
    BY <1>8 DEF CreateMake, Serve
  <1>9. ASSUME NEW t \in Tasks, CreateMakeFails(t)
        PROVE  MissesAreFree'
    BY <1>9 DEF CreateMakeFails
  <1>10. ASSUME NEW t \in Tasks, CreateBoot(t)
        PROVE  MissesAreFree'
    BY <1>10 DEF CreateBoot
  <1>11. ASSUME NEW t \in Tasks, CreateBootFails(t)
        PROVE  MissesAreFree'
    BY <1>11 DEF CreateBootFails
  <1>12. ASSUME NEW t \in Tasks, CreateBind(t)
        PROVE  MissesAreFree'
    BY <1>12 DEF CreateBind
  <1>13. ASSUME NEW t \in Tasks, LockRecord(t)
        PROVE  MissesAreFree'
    BY <1>13 DEF LockRecord
  <1>14. ASSUME NEW t \in Tasks, BackendOk(t)
        PROVE  MissesAreFree'
    BY <1>14 DEF BackendOk, NextPlace
  <1>15. ASSUME NEW t \in Tasks, BackendFails(t)
        PROVE  MissesAreFree'
    BY <1>15 DEF BackendFails, Drained
  <1>16. ASSUME NEW t \in Tasks, DestroyUnmap(t)
        PROVE  MissesAreFree'
    BY <1>16 DEF DestroyUnmap
  <1>17. ASSUME NEW t \in Tasks, DestroyUnbind(t)
        PROVE  MissesAreFree'
    <2>1. /\ pc[t] = "unbind" /\ pc' = [pc EXCEPT ![t] = "persist"] /\ call' = call
          /\ \A k \in Keys : keys[k] = NoBox => keys'[k] = NoBox
      BY <1>17 DEF DestroyUnbind
    <2>2. \A u \in Tasks : call[u].key # NoKey => call[u].key \in Keys
      BY <1>types DEF Calls
    <2> QED
      BY <2>1, <2>2
  <1>18. ASSUME NEW t \in Tasks, PersistBegin(t)
        PROVE  MissesAreFree'
    BY <1>18 DEF PersistBegin
  <1>19. ASSUME NEW t \in Tasks, NEW s \in Sandboxes, PersistCapture(t, s)
        PROVE  MissesAreFree'
    BY <1>19 DEF PersistCapture
  <1>38. ASSUME NEW t \in Tasks, PersistSnapshots(t)
        PROVE  MissesAreFree'
    BY <1>38 DEF PersistSnapshots
  <1>20. ASSUME NEW t \in Tasks, PersistIndex(t)
        PROVE  MissesAreFree'
    BY <1>20 DEF PersistIndex
  <1>21. ASSUME NEW t \in Tasks, PersistWrite(t)
        PROVE  MissesAreFree'
    BY <1>21 DEF PersistWrite
  <1>22. ASSUME NEW t \in Tasks, PersistRename(t)
        PROVE  MissesAreFree'
    BY <1>22 DEF PersistRename, Drained
  <1>23. ASSUME NEW t \in Tasks, PersistFails(t)
        PROVE  MissesAreFree'
    BY <1>23 DEF PersistFails, Drained
  <1>24. ASSUME NEW s \in Sandboxes, Expire(s)
        PROVE  MissesAreFree'
    BY <1>24 DEF Expire
  <1>25. CASE ReapBegin
    BY <1>25 DEF ReapBegin
  <1>26. ASSUME NEW s \in Sandboxes, ReapList(s)
        PROVE  MissesAreFree'
    BY <1>26 DEF ReapList
  <1>27. CASE ReapFilter
    BY <1>27 DEF ReapFilter
  <1>28. ASSUME NEW s \in Sandboxes, ReapAct(s)
        PROVE  MissesAreFree'
    BY <1>28 DEF ReapAct, Serve
  <1>29. CASE ShutdownBegin
    BY <1>29 DEF ShutdownBegin, Serve
  <1>30. ASSUME NEW s \in Sandboxes, ShutdownVisit(s)
        PROVE  MissesAreFree'
    BY <1>30 DEF ShutdownVisit, Serve
  <1>31. CASE ShutdownDone
    BY <1>31 DEF ShutdownDone
  <1>32. ASSUME NEW d \in detached, Detached(d)
        PROVE  MissesAreFree'
    BY <1>32 DEF Detached
  <1>33. CASE Crash
    BY <1>33 DEF Crash, ProcessEnds
  <1>34. CASE Exit
    BY <1>34 DEF Exit, ProcessEnds
  <1>35. CASE Restart
    BY <1>35 DEF Restart
  <1>36. CASE RestartFails
    BY <1>36 DEF RestartFails
  <1>37. CASE UNCHANGED vars
    BY <1>37 DEF vars
  <1> QED
    BY <1>1, <1>2, <1>3, <1>4, <1>5, <1>6, <1>7, <1>8, <1>9, <1>10, <1>11, <1>12, <1>13, <1>14,
       <1>15, <1>16, <1>17, <1>18, <1>19, <1>20, <1>21, <1>22, <1>23, <1>24, <1>25, <1>26,
       <1>27, <1>28, <1>29, <1>30, <1>31, <1>32, <1>33, <1>34, <1>35, <1>36, <1>37, <1>38
       DEF Next, Begin, Create, Operate, Persist, Continue, Reap, ShutdownStep

(* No step loses the binding of a key between memory, image and file.      *)
LEMMA KeyHeldStep ==
  ASSUME Faults \cap {"cancel", "io"} = {}, Inv, Durable, Attributed, MissesAreFree, [Next]_vars,
         NEW z \in Sandboxes, Buried(z), KeyHeld(z)
  PROVE  KeyHeld(z)'
  <1>types. /\ pc \in [Tasks -> Places] /\ call \in [Tasks -> Calls] /\ info \in [Sandboxes -> States]
            /\ keys \in [Keys -> Sandboxes \cup {NoBox}]
            /\ image \in [Tasks -> Images] /\ disk \in Images
            /\ madeFor \in [Sandboxes -> Keys \cup {NoKey}]
            /\ told \in [Sandboxes -> {"nothing", "created", "destroyed"}]
    BY DEF Inv, TypeOK
  <1>cold. server = "down" => \A t \in Tasks : pc[t] = "idle"
    BY DEF Inv, DownIsCold
  <1>one. \A t, u \in Tasks : pc[t] \in Persisting /\ pc[u] \in Persisting => t = u
    BY DEF Inv, LockDiscipline
  <1>guard. \A t, u \in Tasks : pc[t] \in Creating /\ Creator(u, z) => t = u
    BY DEF Inv, LockDiscipline, Creator
  <1>placed. Placed
    BY DEF Inv
  <1>lasts. info'[z] # "Destroyed" => info[z] # "Destroyed"
    BY BurialLasts
  <1>written. /\ detached = {}
              /\ \A t \in Tasks : pc[t] = "rename" => tmp = image[t]
    BY DEF Durable, Written
  <1>made. \A t \in Tasks : pc[t] \in {"boot", "bind"} => madeFor[call[t].box] = call[t].key
    BY DEF Attributed
  <1> USE <1>types, <1>cold, <1>one, <1>guard, <1>placed, <1>lasts, <1>written, <1>made,
        TasksAssumption, DataAssumption, NoCallType
      DEF KeyHeld, KeyFiled, Creator, Placed, Persisting, Creating, Tasks, memory, local,
        files, history, Go, Return
  <1>1. ASSUME NEW t \in Clients, NEW k \in Keys \cup {NoKey}, BeginCreate(t, k)
        PROVE  KeyHeld(z)'
    BY <1>1 DEF BeginCreate, Serve
  <1>2. ASSUME NEW t \in Clients, NEW o \in RecordOps, NEW s \in Sandboxes, BeginOp(t, o, s)
        PROVE  KeyHeld(z)'
    BY <1>2 DEF BeginOp, Serve
  <1>3. ASSUME NEW t \in Clients, NEW n \in Snapshots, DeleteSnapshot(t, n)
        PROVE  KeyHeld(z)'
    BY <1>3 DEF DeleteSnapshot, Serve
  <1>4. ASSUME NEW t \in Clients, Cancel(t)
        PROVE  KeyHeld(z)'
    BY <1>4 DEF Cancel
  <1>5. ASSUME NEW t \in Tasks, CreateGuard(t)
        PROVE  KeyHeld(z)'
    BY <1>5 DEF CreateGuard
  <1>6. ASSUME NEW t \in Tasks, CreateLookup(t)
        PROVE  KeyHeld(z)'
    BY <1>6 DEF CreateLookup, Serve
  <1>7. ASSUME NEW t \in Tasks, CreateReplay(t)
        PROVE  KeyHeld(z)'
    <2> DEFINE s == call[t].box
    <2>0. pc[t] = "replay"
      BY <1>7 DEF CreateReplay
    <2>1. /\ pc[t] = "replay" /\ s \in Sandboxes /\ (told' = told \/ told' = [told EXCEPT ![s] = "created"])
          /\ pc' = [pc EXCEPT ![t] = "idle"] /\ call' = [call EXCEPT ![t] = NoCall]
          /\ UNCHANGED <<server, info, keys, image, disk, madeFor>>
      BY <1>7 DEF CreateReplay
    <2>s. s \in Sandboxes
      BY <2>0
    <2>2. keys[madeFor[s]] = s
      <3>1. keys[call[t].key] = s /\ call[t].key \in Keys
        BY <2>0 DEF Durable, ReplaysHit
      <3>2. madeFor[s] = call[t].key
        BY <3>1, <2>s DEF Attributed, MadeFor
      <3> QED
        BY <3>1, <3>2
    <2>3. s = z /\ info[z] # "Destroyed" /\ madeFor[z] # NoKey => KeyFiled(z)
      <3>1. ~\E u \in Tasks : Creator(u, z)
        BY <2>0
      <3>2. server # "down"
        BY <2>0
      <3> HIDE DEF Creator, KeyFiled
      <3> QED
        BY <2>2, <3>1, <3>2
    <2>4. told'[z] = "created" /\ info[z] # "Destroyed" /\ madeFor[z] # NoKey => KeyFiled(z)
      BY <2>1, <2>3
    <2>5. KeyFiled(z) => KeyFiled(z)'
      BY <2>1
    <2>6. \A u \in Tasks : Creator(u, z)' <=> Creator(u, z) /\ u # t
      BY <2>1
    <2> QED
      BY <2>1, <2>4, <2>5, <2>6
  <1>8. ASSUME NEW t \in Tasks, NEW s \in Sandboxes, CreateMake(t, s)
        PROVE  KeyHeld(z)'
    <2>1. /\ pc[t] = "make" /\ s \notin used /\ pc' = [pc EXCEPT ![t] = "boot"]
          /\ call' = [call EXCEPT ![t] = [op |-> "create", box |-> s, key |-> call[t].key]]
          /\ madeFor' = [madeFor EXCEPT ![s] = call[t].key]
          /\ UNCHANGED <<server, info, keys, image, disk, told>>
      BY <1>8 DEF CreateMake, Serve
    <2>2. CASE s = z
      <3>1. told[z] # "created"
        BY <2>1, <2>2 DEF Durable, Answers
      <3>2. \A k \in Keys : keys[k] # z
        BY <2>1, <2>2 DEF Inv, Known
      <3>3. \A u \in Tasks : call[u].box # z
        BY <2>1, <2>2 DEF Inv, Known
      <3>4. \A u \in Tasks : ~Creator(u, z)'
        BY <2>1, <3>3
      <3>5. madeFor'[z] # NoKey => madeFor'[z] \in Keys
        BY <2>1, <2>2 DEF Calls
      <3> QED
        BY <2>1, <3>1, <3>2, <3>4, <3>5
    <2>3. CASE s # z
      <3>1. madeFor'[z] = madeFor[z]
        BY <2>1, <2>3
      <3>2. \A u \in Tasks : Creator(u, z)' <=> Creator(u, z)
        BY <2>1, <2>3
      <3> QED
        BY <2>1, <3>1, <3>2
    <2> QED
      BY <2>2, <2>3
  <1>9. ASSUME NEW t \in Tasks, CreateMakeFails(t)
        PROVE  KeyHeld(z)'
    BY <1>9 DEF CreateMakeFails
  <1>10. ASSUME NEW t \in Tasks, CreateBoot(t)
        PROVE  KeyHeld(z)'
    BY <1>10 DEF CreateBoot
  <1>11. ASSUME NEW t \in Tasks, CreateBootFails(t)
        PROVE  KeyHeld(z)'
    BY <1>11 DEF CreateBootFails
  <1>12. ASSUME NEW t \in Tasks, CreateBind(t)
        PROVE  KeyHeld(z)'
    <2> DEFINE k == call[t].key
    <2>1. /\ pc[t] = "bind" /\ call[t].op = "create" /\ k \in Keys /\ keys[k] = NoBox
          /\ call[t].box \in Sandboxes /\ madeFor[call[t].box] = k
          /\ pc' = [pc EXCEPT ![t] = "persist"] /\ keys' = [keys EXCEPT ![k] = call[t].box]
          /\ UNCHANGED <<server, info, call, image, disk, madeFor, told>>
      BY <1>12 DEF CreateBind, MissesAreFree
    <2>2. server # "down" /\ \A u \in Tasks : ~Creator(u, z)
      BY <2>1
    <2>3. madeFor[z] = k => ~KeyFiled(z) /\ keys[madeFor[z]] # z
      BY <2>1, <2>2
    <2>4. \A u \in Tasks : Creator(u, z)' <=> u = t /\ call[t].box = z
      BY <2>1, <2>2
    <2>5. \A j \in Keys : j # k => keys'[j] = keys[j]
      BY <2>1
    <2>6. CASE madeFor[z] = k
      <3>1. told[z] = "created" => info[z] = "Destroyed"
        BY <2>1, <2>3, <2>6
      <3>2. keys'[k] = call[t].box
        BY <2>1
      <3> HIDE DEF Creator, KeyFiled, k
      <3> QED
        BY <2>1, <2>4, <2>6, <3>1, <3>2
    <2>7. CASE madeFor[z] # k
      BY <2>1, <2>2, <2>4, <2>5, <2>7
    <2> QED
      BY <2>6, <2>7
  <1>13. ASSUME NEW t \in Tasks, LockRecord(t)
        PROVE  KeyHeld(z)'
    BY <1>13 DEF LockRecord
  <1>14. ASSUME NEW t \in Tasks, BackendOk(t)
        PROVE  KeyHeld(z)'
    <2>1. /\ pc[t] = "backend" /\ call[t].op \in RecordCalls
          /\ pc'[t] \in {"idle", "unmap", "checkpoint", "persist"}
          /\ call'[t].op # "create"
          /\ \A u \in Tasks : u # t => pc'[u] = pc[u] /\ call'[u] = call[u]
          /\ UNCHANGED <<server, keys, image, disk, madeFor, told>>
      BY <1>14 DEF BackendOk, NextPlace, RecordCalls
    <2>2. \A u \in Tasks : Creator(u, z)' <=> Creator(u, z)
      BY <2>1 DEF RecordCalls
    <2>3. KeyFiled(z)' <=> KeyFiled(z)
      BY <2>1
    <2> QED
      BY <2>1, <2>2, <2>3
  <1>15. ASSUME NEW t \in Tasks, BackendFails(t)
        PROVE  KeyHeld(z)'
    BY <1>15 DEF BackendFails, Drained
  <1>16. ASSUME NEW t \in Tasks, DestroyUnmap(t)
        PROVE  KeyHeld(z)'
    BY <1>16 DEF DestroyUnmap
  <1>17. ASSUME NEW t \in Tasks, DestroyUnbind(t)
        PROVE  KeyHeld(z)'
    <2>1. /\ pc[t] = "unbind" /\ call[t].op = "destroy" /\ pc' = [pc EXCEPT ![t] = "persist"]
          /\ keys' = [k \in Keys |-> IF keys[k] = call[t].box THEN NoBox ELSE keys[k]]
          /\ UNCHANGED <<server, info, call, image, disk, madeFor, told>>
      BY <1>17 DEF DestroyUnbind
    <2>2. call[t].box = z => info[z] = "Destroyed"
      BY <2>1 DEF Durable, DestroysForget
    <2>3. call[t].box # z => \A k \in Keys : keys'[k] = z <=> keys[k] = z
      BY <2>1
    <2>4. \A u \in Tasks : Creator(u, z)' <=> Creator(u, z)
      BY <2>1
    <2>5. call[t].box # z /\ madeFor[z] # NoKey => (KeyFiled(z)' <=> KeyFiled(z))
      BY <2>1, <2>3
    <2> QED
      BY <2>1, <2>2, <2>3, <2>4, <2>5
  <1>18. ASSUME NEW t \in Tasks, PersistBegin(t)
        PROVE  KeyHeld(z)'
    BY <1>18 DEF PersistBegin
  <1>19. ASSUME NEW t \in Tasks, NEW s \in Sandboxes, PersistCapture(t, s)
        PROVE  KeyHeld(z)'
    BY <1>19 DEF PersistCapture
  <1>38. ASSUME NEW t \in Tasks, PersistSnapshots(t)
        PROVE  KeyHeld(z)'
    BY <1>38 DEF PersistSnapshots
  <1>20. ASSUME NEW t \in Tasks, PersistIndex(t)
        PROVE  KeyHeld(z)'
    BY <1>20 DEF PersistIndex
  <1>21. ASSUME NEW t \in Tasks, PersistWrite(t)
        PROVE  KeyHeld(z)'
    BY <1>21 DEF PersistWrite
  <1>22. ASSUME NEW t \in Tasks, PersistRename(t)
        PROVE  KeyHeld(z)'
    BY <1>22 DEF PersistRename, Drained, Answer
  <1>23. ASSUME NEW t \in Tasks, PersistFails(t)
        PROVE  KeyHeld(z)'
    <2>1. FALSE
      BY <1>23, ImageAssumption DEF PersistFails
    <2> QED
      BY <2>1
  <1>24. ASSUME NEW s \in Sandboxes, Expire(s)
        PROVE  KeyHeld(z)'
    BY <1>24 DEF Expire
  <1>25. CASE ReapBegin
    BY <1>25 DEF ReapBegin
  <1>26. ASSUME NEW s \in Sandboxes, ReapList(s)
        PROVE  KeyHeld(z)'
    BY <1>26 DEF ReapList
  <1>27. CASE ReapFilter
    BY <1>27 DEF ReapFilter
  <1>28. ASSUME NEW s \in Sandboxes, ReapAct(s)
        PROVE  KeyHeld(z)'
    BY <1>28 DEF ReapAct, Serve
  <1>29. CASE ShutdownBegin
    BY <1>29 DEF ShutdownBegin, Serve
  <1>30. ASSUME NEW s \in Sandboxes, ShutdownVisit(s)
        PROVE  KeyHeld(z)'
    BY <1>30 DEF ShutdownVisit, Serve
  <1>31. CASE ShutdownDone
    BY <1>31 DEF ShutdownDone
  <1>32. ASSUME NEW d \in detached, Detached(d)
        PROVE  KeyHeld(z)'
    BY <1>32 DEF Detached
  <1>33. CASE Crash
    BY <1>33 DEF Crash, ProcessEnds
  <1>34. CASE Exit
    BY <1>34 DEF Exit, ProcessEnds
  <1>35. CASE Restart
    BY <1>35 DEF Restart
  <1>36. CASE RestartFails
    BY <1>36 DEF RestartFails
  <1>37. CASE UNCHANGED vars
    BY <1>37 DEF vars
  <1> QED
    BY <1>1, <1>2, <1>3, <1>4, <1>5, <1>6, <1>7, <1>8, <1>9, <1>10, <1>11, <1>12, <1>13, <1>14,
       <1>15, <1>16, <1>17, <1>18, <1>19, <1>20, <1>21, <1>22, <1>23, <1>24, <1>25, <1>26,
       <1>27, <1>28, <1>29, <1>30, <1>31, <1>32, <1>33, <1>34, <1>35, <1>36, <1>37, <1>38
       DEF Next, Begin, Create, Operate, Persist, Continue, Reap, ShutdownStep

(* So it holds for ever.                                                   *)
LEMMA KeysInvariance ==
  ASSUME Faults \cap {"cancel", "io"} = {}
  PROVE  Spec => [](MissesAreFree /\ \A s \in Sandboxes : KeyHeld(s))
  <1>1. ASSUME Init PROVE MissesAreFree /\ \A s \in Sandboxes : KeyHeld(s)
    BY <1>1 DEF Init, MissesAreFree, KeyHeld
  <1>2. ASSUME Inv, Durable, Carried, \A s \in Sandboxes : Buried(s), [Next]_vars,
               MissesAreFree /\ \A s \in Sandboxes : KeyHeld(s)
        PROVE  (MissesAreFree /\ \A s \in Sandboxes : KeyHeld(s))'
    <2>1. MissesAreFree'
      BY <1>2, MissStep
    <2>2. \A s \in Sandboxes : KeyHeld(s)'
      BY <1>2, KeyHeldStep DEF Carried
    <2> QED
      BY <2>1, <2>2
  <1> QED
    BY <1>1, <1>2, Invariance, DurableInvariance, CarriedInvariance, BuriedInvariance, PTL DEF Spec

(* The file binds the key of an acknowledged create to its sandbox until a *)
(* destroy of it starts: a client that retries, even after the server has  *)
(* crashed and restarted, finds the sandbox it was promised.  Requests are *)
(* not dropped and the file can be written.                                *)
THEOREM KeysAreDurable ==
  ASSUME Faults \cap {"cancel", "io"} = {}
  PROVE  Spec => []KeysTrackAnswers
  <1>1. (\A s \in Sandboxes : KeyHeld(s)) => KeysTrackAnswers
    BY DEF KeyHeld, KeyFiled, KeysTrackAnswers
  <1> QED
    BY <1>1, KeysInvariance, PTL

-----------------------------------------------------------------------------
(* A record that a handler has fetched, or is going to visit, is in the    *)
(* map or was destroyed.                                                   *)
Fetched ==
  /\ \A t \in Tasks : pc[t] \in {"lock", "backend"} =>
       call[t].box \in boxes \/ info[call[t].box] = "Destroyed"
  /\ \A t \in Tasks : \A s \in todo[t] : s \in boxes \/ info[s] = "Destroyed"
  /\ server = "down" => \A t \in Tasks : todo[t] = {}

(* What is in the file and still in memory is in what replaces the file.   *)
Remembered ==
  \A t \in Tasks, s \in boxes :
    pc[t] \in Persisting /\ disk.state[s] # "none" /\ info[s] # "Destroyed" =>
      image[t].state[s] # "none" \/ (pc[t] = "capture" /\ s \in todo[t])

(* Only a destroy takes a record out of the map, and a destroyed one stays *)
(* destroyed.                                                              *)
LEMMA FetchedStep ==
  ASSUME "cancel" \notin Faults, Inv, DestroysForget, Fetched, [Next]_vars
  PROVE  Fetched'
  <1>types. /\ pc \in [Tasks -> Places] /\ call \in [Tasks -> Calls] /\ info \in [Sandboxes -> States]
            /\ boxes \subseteq Sandboxes /\ todo \in [Tasks -> SUBSET Sandboxes]
    BY DEF Inv, TypeOK
  <1>cold. server = "down" => \A t \in Tasks : pc[t] = "idle"
    BY DEF Inv, DownIsCold
  <1>fresh. \A t \in Tasks : pc[t] = "boot" =>
              /\ call[t].box \notin boxes
              /\ \A u \in Tasks : call[t].box \notin todo[u] /\ (u # t => call[u].box # call[t].box)
    BY DEF Inv, BootIsPrivate
  <1>back. \A t \in Tasks : pc[t] = "backend" =>
             info[call[t].box] \in From[call[t].op] /\ info[call[t].box] # "Destroyed"
    BY DEF Inv, GuardHolds, Placed, RecordCalls, From
  <1>placed. Placed
    BY DEF Inv
  <1>gone. \A t \in Tasks : pc[t] = "unmap" => info[call[t].box] = "Destroyed"
    BY DEF DestroysForget, Placed, Inv
  <1> USE <1>types, <1>cold, <1>fresh, <1>back, <1>placed, <1>gone, TasksAssumption, DataAssumption, NoCallType
      DEF Placed, RecordCalls, Fetched, Persisting, Creating, Tasks, memory, local, files, history, Go, Return
  <1>1. ASSUME NEW t \in Clients, NEW k \in Keys \cup {NoKey}, BeginCreate(t, k)
        PROVE  Fetched'
    BY <1>1 DEF BeginCreate, Serve
  <1>2. ASSUME NEW t \in Clients, NEW o \in RecordOps, NEW s \in Sandboxes, BeginOp(t, o, s)
        PROVE  Fetched'
    BY <1>2 DEF BeginOp, Serve
  <1>3. ASSUME NEW t \in Clients, NEW n \in Snapshots, DeleteSnapshot(t, n)
        PROVE  Fetched'
    BY <1>3 DEF DeleteSnapshot, Serve
  <1>4. ASSUME NEW t \in Clients, Cancel(t)
        PROVE  Fetched'
    BY <1>4 DEF Cancel
  <1>5. ASSUME NEW t \in Tasks, CreateGuard(t)
        PROVE  Fetched'
    BY <1>5 DEF CreateGuard
  <1>6. ASSUME NEW t \in Tasks, CreateLookup(t)
        PROVE  Fetched'
    BY <1>6 DEF CreateLookup, Serve
  <1>7. ASSUME NEW t \in Tasks, CreateReplay(t)
        PROVE  Fetched'
    BY <1>7 DEF CreateReplay
  <1>8. ASSUME NEW t \in Tasks, NEW s \in Sandboxes, CreateMake(t, s)
        PROVE  Fetched'
    BY <1>8 DEF CreateMake, Serve
  <1>9. ASSUME NEW t \in Tasks, CreateMakeFails(t)
        PROVE  Fetched'
    BY <1>9 DEF CreateMakeFails
  <1>10. ASSUME NEW t \in Tasks, CreateBoot(t)
        PROVE  Fetched'
    BY <1>10 DEF CreateBoot
  <1>11. ASSUME NEW t \in Tasks, CreateBootFails(t)
        PROVE  Fetched'
    BY <1>11 DEF CreateBootFails
  <1>12. ASSUME NEW t \in Tasks, CreateBind(t)
        PROVE  Fetched'
    BY <1>12 DEF CreateBind
  <1>13. ASSUME NEW t \in Tasks, LockRecord(t)
        PROVE  Fetched'
    BY <1>13 DEF LockRecord, Allowed
  <1>14. ASSUME NEW t \in Tasks, BackendOk(t)
        PROVE  Fetched'
    BY <1>14 DEF BackendOk, NextPlace, Target
  <1>15. ASSUME NEW t \in Tasks, BackendFails(t)
        PROVE  Fetched'
    BY <1>15 DEF BackendFails, Drained
  <1>16. ASSUME NEW t \in Tasks, DestroyUnmap(t)
        PROVE  Fetched'
    BY <1>16 DEF DestroyUnmap
  <1>17. ASSUME NEW t \in Tasks, DestroyUnbind(t)
        PROVE  Fetched'
    BY <1>17 DEF DestroyUnbind
  <1>18. ASSUME NEW t \in Tasks, PersistBegin(t)
        PROVE  Fetched'
    BY <1>18 DEF PersistBegin
  <1>19. ASSUME NEW t \in Tasks, NEW s \in Sandboxes, PersistCapture(t, s)
        PROVE  Fetched'
    BY <1>19 DEF PersistCapture
  <1>38. ASSUME NEW t \in Tasks, PersistSnapshots(t)
        PROVE  Fetched'
    BY <1>38 DEF PersistSnapshots
  <1>20. ASSUME NEW t \in Tasks, PersistIndex(t)
        PROVE  Fetched'
    BY <1>20 DEF PersistIndex
  <1>21. ASSUME NEW t \in Tasks, PersistWrite(t)
        PROVE  Fetched'
    BY <1>21 DEF PersistWrite
  <1>22. ASSUME NEW t \in Tasks, PersistRename(t)
        PROVE  Fetched'
    BY <1>22 DEF PersistRename, Drained
  <1>23. ASSUME NEW t \in Tasks, PersistFails(t)
        PROVE  Fetched'
    BY <1>23 DEF PersistFails, Drained
  <1>24. ASSUME NEW s \in Sandboxes, Expire(s)
        PROVE  Fetched'
    BY <1>24 DEF Expire
  <1>25. CASE ReapBegin
    BY <1>25 DEF ReapBegin
  <1>26. ASSUME NEW s \in Sandboxes, ReapList(s)
        PROVE  Fetched'
    BY <1>26 DEF ReapList
  <1>27. CASE ReapFilter
    BY <1>27 DEF ReapFilter
  <1>28. ASSUME NEW s \in Sandboxes, ReapAct(s)
        PROVE  Fetched'
    BY <1>28 DEF ReapAct, Serve
  <1>29. CASE ShutdownBegin
    BY <1>29 DEF ShutdownBegin, Serve
  <1>30. ASSUME NEW s \in Sandboxes, ShutdownVisit(s)
        PROVE  Fetched'
    BY <1>30 DEF ShutdownVisit, Serve, Allowed, From
  <1>31. CASE ShutdownDone
    BY <1>31 DEF ShutdownDone
  <1>32. ASSUME NEW d \in detached, Detached(d)
        PROVE  Fetched'
    BY <1>32 DEF Detached
  <1>33. CASE Crash
    BY <1>33 DEF Crash, ProcessEnds
  <1>34. CASE Exit
    BY <1>34 DEF Exit, ProcessEnds
  <1>35. CASE Restart
    BY <1>35 DEF Restart, Saved, Loaded
  <1>36. CASE RestartFails
    BY <1>36 DEF RestartFails
  <1>37. CASE UNCHANGED vars
    BY <1>37 DEF vars
  <1> QED
    BY <1>1, <1>2, <1>3, <1>4, <1>5, <1>6, <1>7, <1>8, <1>9, <1>10, <1>11, <1>12, <1>13, <1>14,
       <1>15, <1>16, <1>17, <1>18, <1>19, <1>20, <1>21, <1>22, <1>23, <1>24, <1>25, <1>26,
       <1>27, <1>28, <1>29, <1>30, <1>31, <1>32, <1>33, <1>34, <1>35, <1>36, <1>37, <1>38
       DEF Next, Begin, Create, Operate, Persist, Continue, Reap, ShutdownStep

(* A persist takes every record of the map, and none comes to the file     *)
(* another way.                                                            *)
LEMMA RememberedStep ==
  ASSUME Faults \cap {"cancel", "io"} = {}, Inv, Written, Carried, Remembered, [Next]_vars
  PROVE  Remembered'
  <1>types. /\ pc \in [Tasks -> Places] /\ call \in [Tasks -> Calls] /\ info \in [Sandboxes -> States]
            /\ boxes \subseteq Sandboxes /\ todo \in [Tasks -> SUBSET Sandboxes]
            /\ image \in [Tasks -> Images] /\ disk \in Images
    BY DEF Inv, TypeOK
  <1>cold. server = "down" => \A t \in Tasks : pc[t] = "idle"
    BY DEF Inv, DownIsCold
  <1>one. \A t, u \in Tasks : pc[t] \in Persisting /\ pc[u] \in Persisting => t = u
    BY DEF Inv, LockDiscipline
  <1>free. persistGuard = NoTask => \A t \in Tasks : pc[t] \notin Persisting
    BY TasksAssumption DEF Inv, LockDiscipline
  <1>placed. Placed
    BY DEF Inv
  <1>back. \A t \in Tasks : pc[t] = "backend" => info[call[t].box] # "Destroyed"
    BY DEF Inv, GuardHolds, Placed, RecordCalls, From
  <1>fresh. \A t \in Tasks : pc[t] = "boot" => disk.state[call[t].box] = "none"
    <2> SUFFICES ASSUME NEW t \in Tasks, pc[t] = "boot" PROVE disk.state[call[t].box] = "none"
      OBVIOUS
    <2>1. call[t].box \in Sandboxes /\ call[t].box \notin boxes /\ server # "down"
      BY <1>cold, <1>placed DEF Placed, Inv, BootIsPrivate
    <2>2. \A u \in Tasks : call[u].box = call[t].box => pc[u] = "boot"
      BY DEF Inv, BootIsPrivate
    <2>3. Agree(disk.state[call[t].box], call[t].box)
      BY <2>1, <2>2 DEF Carried, StateCarried, Moving, InPersist, Persisting
    <2> QED
      BY <2>1, <2>3 DEF Agree, Shown
  <1> USE <1>types, <1>cold, <1>one, <1>placed, <1>back, <1>fresh, TasksAssumption, DataAssumption, NoCallType
      DEF Placed, RecordCalls, Written, Remembered, Persisting, Creating, Tasks, memory, local, files, history, Go, Return
  <1>1. ASSUME NEW t \in Clients, NEW k \in Keys \cup {NoKey}, BeginCreate(t, k)
        PROVE  Remembered'
    BY <1>1 DEF BeginCreate, Serve
  <1>2. ASSUME NEW t \in Clients, NEW o \in RecordOps, NEW s \in Sandboxes, BeginOp(t, o, s)
        PROVE  Remembered'
    BY <1>2 DEF BeginOp, Serve
  <1>3. ASSUME NEW t \in Clients, NEW n \in Snapshots, DeleteSnapshot(t, n)
        PROVE  Remembered'
    BY <1>3 DEF DeleteSnapshot, Serve
  <1>4. ASSUME NEW t \in Clients, Cancel(t)
        PROVE  Remembered'
    BY <1>4 DEF Cancel
  <1>5. ASSUME NEW t \in Tasks, CreateGuard(t)
        PROVE  Remembered'
    BY <1>5 DEF CreateGuard
  <1>6. ASSUME NEW t \in Tasks, CreateLookup(t)
        PROVE  Remembered'
    BY <1>6 DEF CreateLookup, Serve
  <1>7. ASSUME NEW t \in Tasks, CreateReplay(t)
        PROVE  Remembered'
    BY <1>7 DEF CreateReplay
  <1>8. ASSUME NEW t \in Tasks, NEW s \in Sandboxes, CreateMake(t, s)
        PROVE  Remembered'
    BY <1>8 DEF CreateMake, Serve
  <1>9. ASSUME NEW t \in Tasks, CreateMakeFails(t)
        PROVE  Remembered'
    BY <1>9 DEF CreateMakeFails
  <1>10. ASSUME NEW t \in Tasks, CreateBoot(t)
        PROVE  Remembered'
    BY <1>10 DEF CreateBoot
  <1>11. ASSUME NEW t \in Tasks, CreateBootFails(t)
        PROVE  Remembered'
    BY <1>11 DEF CreateBootFails
  <1>12. ASSUME NEW t \in Tasks, CreateBind(t)
        PROVE  Remembered'
    BY <1>12 DEF CreateBind
  <1>13. ASSUME NEW t \in Tasks, LockRecord(t)
        PROVE  Remembered'
    BY <1>13 DEF LockRecord
  <1>14. ASSUME NEW t \in Tasks, BackendOk(t)
        PROVE  Remembered'
    BY <1>14 DEF BackendOk, NextPlace, Target
  <1>15. ASSUME NEW t \in Tasks, BackendFails(t)
        PROVE  Remembered'
    BY <1>15 DEF BackendFails, Drained
  <1>16. ASSUME NEW t \in Tasks, DestroyUnmap(t)
        PROVE  Remembered'
    BY <1>16 DEF DestroyUnmap
  <1>17. ASSUME NEW t \in Tasks, DestroyUnbind(t)
        PROVE  Remembered'
    BY <1>17 DEF DestroyUnbind
  <1>18. ASSUME NEW t \in Tasks, PersistBegin(t)
        PROVE  Remembered'
    BY <1>18, <1>free DEF PersistBegin, MayPersist
  <1>19. ASSUME NEW t \in Tasks, NEW s \in Sandboxes, PersistCapture(t, s)
        PROVE  Remembered'
    BY <1>19 DEF PersistCapture, Images, States
  <1>38. ASSUME NEW t \in Tasks, PersistSnapshots(t)
        PROVE  Remembered'
    BY <1>38 DEF PersistSnapshots
  <1>20. ASSUME NEW t \in Tasks, PersistIndex(t)
        PROVE  Remembered'
    BY <1>20 DEF PersistIndex
  <1>21. ASSUME NEW t \in Tasks, PersistWrite(t)
        PROVE  Remembered'
    BY <1>21 DEF PersistWrite
  <1>22. ASSUME NEW t \in Tasks, PersistRename(t)
        PROVE  Remembered'
    BY <1>22 DEF PersistRename, Drained
  <1>23. ASSUME NEW t \in Tasks, PersistFails(t)
        PROVE  Remembered'
    BY <1>23, ImageAssumption DEF PersistFails, Drained
  <1>24. ASSUME NEW s \in Sandboxes, Expire(s)
        PROVE  Remembered'
    BY <1>24 DEF Expire
  <1>25. CASE ReapBegin
    BY <1>25 DEF ReapBegin
  <1>26. ASSUME NEW s \in Sandboxes, ReapList(s)
        PROVE  Remembered'
    BY <1>26 DEF ReapList
  <1>27. CASE ReapFilter
    BY <1>27 DEF ReapFilter
  <1>28. ASSUME NEW s \in Sandboxes, ReapAct(s)
        PROVE  Remembered'
    BY <1>28 DEF ReapAct, Serve
  <1>29. CASE ShutdownBegin
    BY <1>29 DEF ShutdownBegin, Serve
  <1>30. ASSUME NEW s \in Sandboxes, ShutdownVisit(s)
        PROVE  Remembered'
    BY <1>30 DEF ShutdownVisit, Serve
  <1>31. CASE ShutdownDone
    BY <1>31 DEF ShutdownDone
  <1>32. ASSUME NEW d \in detached, Detached(d)
        PROVE  Remembered'
    BY <1>32 DEF Detached
  <1>33. CASE Crash
    BY <1>33 DEF Crash, ProcessEnds
  <1>34. CASE Exit
    BY <1>34 DEF Exit, ProcessEnds
  <1>35. CASE Restart
    BY <1>35 DEF Restart, Saved, Loaded
  <1>36. CASE RestartFails
    BY <1>36 DEF RestartFails
  <1>37. CASE UNCHANGED vars
    BY <1>37 DEF vars
  <1> QED
    BY <1>1, <1>2, <1>3, <1>4, <1>5, <1>6, <1>7, <1>8, <1>9, <1>10, <1>11, <1>12, <1>13, <1>14,
       <1>15, <1>16, <1>17, <1>18, <1>19, <1>20, <1>21, <1>22, <1>23, <1>24, <1>25, <1>26,
       <1>27, <1>28, <1>29, <1>30, <1>31, <1>32, <1>33, <1>34, <1>35, <1>36, <1>37, <1>38
       DEF Next, Begin, Create, Operate, Persist, Continue, Reap, ShutdownStep

(* A step that clients cannot see: process, file and records stay, and so  *)
(* do the handlers that boot a sandbox or owe the file a change.           *)
Quiet ==
  /\ server' = "down" <=> server = "down"
  /\ disk' = disk /\ boxes' = boxes
  /\ \A s \in boxes : info'[s] = info[s]
  /\ \A s \in Sandboxes : s \in used' <=> s \in used
  /\ \A t \in Tasks :
       /\ pc'[t] = "boot" <=> pc[t] = "boot"
       /\ pc'[t] \in Saving /\ call'[t].op \in Changes <=> pc[t] \in Saving /\ call[t].op \in Changes
       /\ pc[t] = "boot" \/ (pc[t] \in Saving /\ call[t].op \in Changes) => call'[t].box = call[t].box

(* Such a step stutters.                                                   *)
LEMMA QuietStutters ==
  ASSUME boxes \subseteq Sandboxes, Quiet
  PROVE  UNCHANGED Lifecycle!vars
  <1>1. View' = View
    BY DEF Quiet, View, Shown
  <1>2. Made' = Made
    BY DEF Quiet, Made
  <1>3. \A t \in Tasks : t \in Unanswered(Changes)' <=> t \in Unanswered(Changes)
    BY DEF Quiet, Unanswered, Changes
  <1>4. \A t \in Unanswered(Changes) : call'[t].box = call[t].box
    BY DEF Quiet, Unanswered
  <1>5. Unsaved' = Unsaved
    BY <1>3, <1>4 DEF Unsaved, Unanswered
  <1> QED
    BY <1>1, <1>2, <1>5 DEF Lifecycle!vars, Quiet

(* Every step of the control plane is one the lifecycle allows, or none    *)
(* that shows.                                                             *)
LEMMA LifecycleStep ==
  ASSUME Faults \cap {"cancel", "io"} = {}, Inv, Durable, Carried, Fetched, Remembered, [Next]_vars
  PROVE  [Lifecycle!Next]_(Lifecycle!vars)
  <1> DEFINE Simulated == Quiet \/ UNCHANGED Lifecycle!vars \/ Lifecycle!Next
  <1>types. /\ pc \in [Tasks -> Places] /\ call \in [Tasks -> Calls] /\ info \in [Sandboxes -> States]
            /\ boxes \subseteq Sandboxes /\ todo \in [Tasks -> SUBSET Sandboxes]
            /\ image \in [Tasks -> Images] /\ disk \in Images
    BY DEF Inv, TypeOK
  <1>cold. server = "down" => \A t \in Tasks : pc[t] = "idle"
    BY DEF Inv, DownIsCold
  <1>placed. Placed
    BY DEF Inv
  <1>changes. Changes = {"create", "start", "resume", "stop", "pause", "destroy"}
    BY DEF Changes, Target
  <1>changes2. Changes' = Changes
    BY DEF Changes, Target
  <1>boot. \A t \in Tasks : pc[t] = "boot" =>
             /\ call[t].box \in used \ boxes
             /\ \A u \in Tasks : u # t => call[u].box # call[t].box
    BY DataAssumption DEF Inv, BootIsPrivate, Known, Placed
  <1>back. \A t \in Tasks : pc[t] = "backend" => info[call[t].box] \in From[call[t].op]
    BY DEF Inv, GuardHolds
  <1>none. "none" \notin States
    BY DEF States
  <1> USE <1>types, <1>cold, <1>placed, <1>changes, <1>changes2, TasksAssumption, DataAssumption, NoCallType
      DEF Placed, RecordCalls, Written, Quiet, Saving, Persisting, Creating, Tasks, memory, local, files, history, Go, Return
  <1> HIDE DEF Simulated
  <1>1. ASSUME NEW t \in Clients, NEW k \in Keys \cup {NoKey}, BeginCreate(t, k)
        PROVE  Simulated
    BY <1>1 DEF BeginCreate, Serve, Simulated
  <1>2. ASSUME NEW t \in Clients, NEW o \in RecordOps, NEW s \in Sandboxes, BeginOp(t, o, s)
        PROVE  Simulated
    BY <1>2 DEF BeginOp, Serve, Simulated
  <1>3. ASSUME NEW t \in Clients, NEW n \in Snapshots, DeleteSnapshot(t, n)
        PROVE  Simulated
    BY <1>3 DEF DeleteSnapshot, Serve, Simulated
  <1>4. ASSUME NEW t \in Clients, Cancel(t)
        PROVE  Simulated
    BY <1>4 DEF Cancel, Simulated
  <1>5. ASSUME NEW t \in Tasks, CreateGuard(t)
        PROVE  Simulated
    BY <1>5 DEF CreateGuard, Simulated
  <1>6. ASSUME NEW t \in Tasks, CreateLookup(t)
        PROVE  Simulated
    BY <1>6 DEF CreateLookup, Serve, Simulated
  <1>7. ASSUME NEW t \in Tasks, CreateReplay(t)
        PROVE  Simulated
    BY <1>7 DEF CreateReplay, Simulated
  <1>8. ASSUME NEW t \in Tasks, NEW s \in Sandboxes, CreateMake(t, s)
        PROVE  Simulated
    <2>1. /\ pc[t] = "make" /\ s \notin used /\ used' = used \cup {s}
          /\ pc' = [pc EXCEPT ![t] = "boot"]
          /\ call' = [call EXCEPT ![t] = [op |-> "create", box |-> s, key |-> call[t].key]]
          /\ UNCHANGED <<server, boxes, info, disk>>
      BY <1>8 DEF CreateMake, Serve
    <2>2. /\ pc'[t] = "boot" /\ call'[t].box = s
          /\ \A u \in Tasks : u # t => pc'[u] = pc[u] /\ call'[u] = call[u]
      BY <2>1
    <2>3. View' = View
      BY <2>1 DEF View, Shown
    <2>4. Made' = Made
      BY <2>1, <2>2 DEF Made
    <2>5. \A u \in Tasks : u \in Unanswered(Changes)' <=> u \in Unanswered(Changes)
      BY <2>1, <2>2 DEF Unanswered
    <2>6. Unsaved' = Unsaved
      BY <2>2, <2>5, <2>1 DEF Unsaved, Unanswered
    <2> QED
      BY <2>1, <2>3, <2>4, <2>6 DEF Lifecycle!vars, Simulated
  <1>9. ASSUME NEW t \in Tasks, CreateMakeFails(t)
        PROVE  Simulated
    BY <1>9 DEF CreateMakeFails, Simulated
  <1>10. ASSUME NEW t \in Tasks, CreateBoot(t)
        PROVE  Simulated
    <2> DEFINE s == call[t].box
    <2>1. /\ pc[t] = "boot" /\ s \in Sandboxes /\ s \in used /\ s \notin boxes /\ server # "down"
          /\ boxes' = boxes \cup {s} /\ info' = [info EXCEPT ![s] = "Running"]
          /\ UNCHANGED <<server, used, disk>>
      BY <1>10, <1>boot DEF CreateBoot
    <2>2. /\ pc'[t] \in {"bind", "persist"} /\ call' = call /\ call[t].op = "create"
          /\ \A u \in Tasks : u # t => pc'[u] = pc[u] /\ call'[u] = call[u] /\ call[u].box # s
      BY <1>10, <1>boot DEF CreateBoot
    <2>3. s \notin Made /\ Made' = Made \cup {s}
      BY <2>1, <2>2 DEF Made
    <2>4. View' = [View EXCEPT ![s] = "Running"]
      BY <2>1 DEF View, Shown
    <2>5. Unsaved' = Unsaved \cup {s}
      <3>1. \A u \in Tasks : u \in Unanswered(Changes)' <=> u \in Unanswered(Changes) \/ u = t
        BY <2>1, <2>2 DEF Unanswered
      <3> QED
        BY <3>1, <2>2 DEF Unsaved, Unanswered
    <2>6. Lifecycle!Make(s)
      BY <2>1, <2>3, <2>4, <2>5 DEF Lifecycle!Make, Lifecycle!Become
    <2> QED
      BY <2>1, <2>6 DEF Lifecycle!Next, Simulated
  <1>11. ASSUME NEW t \in Tasks, CreateBootFails(t)
        PROVE  Simulated
    <2> DEFINE s == call[t].box
    <2>1. /\ pc[t] = "boot" /\ s \in Sandboxes /\ s \in used /\ s \notin boxes /\ server # "down"
          /\ boxes' = boxes \cup {s} /\ info' = [info EXCEPT ![s] = "Failed"]
          /\ UNCHANGED <<server, used, disk>>
      BY <1>11, <1>boot DEF CreateBootFails
    <2>2. /\ pc'[t] = "idle"
          /\ \A u \in Tasks : u # t => pc'[u] = pc[u] /\ call'[u] = call[u] /\ call[u].box # s
      BY <1>11, <1>boot DEF CreateBootFails
    <2>3. s \notin Made /\ Made' = Made \cup {s}
      BY <2>1, <2>2 DEF Made
    <2>4. View' = [View EXCEPT ![s] = "Failed"]
      BY <2>1 DEF View, Shown
    <2>5. Unsaved' = Unsaved
      <3>1. \A u \in Tasks : u \in Unanswered(Changes)' <=> u \in Unanswered(Changes)
        BY <2>1, <2>2 DEF Unanswered
      <3> QED
        BY <3>1, <2>1, <2>2 DEF Unsaved, Unanswered
    <2>6. Lifecycle!Make(s)
      BY <2>1, <2>3, <2>4, <2>5 DEF Lifecycle!Make, Lifecycle!Become
    <2> QED
      BY <2>1, <2>6 DEF Lifecycle!Next, Simulated
  <1>12. ASSUME NEW t \in Tasks, CreateBind(t)
        PROVE  Simulated
    BY <1>12 DEF CreateBind, Simulated
  <1>13. ASSUME NEW t \in Tasks, LockRecord(t)
        PROVE  Simulated
    <2> DEFINE s == call[t].box
    <2>1. CASE pc'[t] # "unmap"
      BY <1>13, <2>1 DEF LockRecord, Simulated
    <2>2. CASE pc'[t] = "unmap"
      <3>1. /\ pc[t] = "lock" /\ call[t].op = "destroy" /\ ~Allowed("destroy", s) /\ s \in Sandboxes
            /\ pc' = [pc EXCEPT ![t] = "unmap"]
            /\ UNCHANGED <<server, boxes, info, used, disk, call>>
        BY <1>13, <2>2 DEF LockRecord
      <3>2. info[s] = "Destroyed" /\ server # "down"
        BY <3>1 DEF Allowed, From, NeedsNoSecrets
      <3>3. View' = View /\ View[s] \in {"Destroyed", "none"}
        BY <3>1, <3>2 DEF View, Shown
      <3>4. Made' = Made /\ s \in Made
        <4>1. s \in used /\ \A u \in Tasks : pc[u] = "boot" => call[u].box # s
          BY <3>1, <1>boot DEF Inv, Known
        <4> QED
          BY <4>1, <3>1 DEF Made
      <3>5. Unsaved' = Unsaved \cup {s}
        <4>1. \A u \in Tasks : u \in Unanswered(Changes)' <=> u \in Unanswered(Changes) \/ u = t
          BY <3>1 DEF Unanswered
        <4> QED
          BY <4>1, <3>1 DEF Unsaved, Unanswered
      <3>6. Lifecycle!Forget(s)
        BY <3>1, <3>2, <3>3, <3>4, <3>5 DEF Lifecycle!Forget
      <3> QED
        BY <3>1, <3>6 DEF Lifecycle!Next, Simulated
    <2> QED
      BY <2>1, <2>2
  <1>14. ASSUME NEW t \in Tasks, BackendOk(t)
        PROVE  Simulated
    <2> DEFINE s == call[t].box
    <2> DEFINE o == call[t].op
    <2>1. /\ pc[t] = "backend" /\ s \in Sandboxes /\ o \in RecordCalls /\ info[s] \in From[o]
          /\ info' = IF o \in DOMAIN Target THEN [info EXCEPT ![s] = Target[o]] ELSE info
          /\ \/ o = "peek" /\ pc' = [pc EXCEPT ![t] = "idle"] /\ call' = [call EXCEPT ![t] = NoCall]
             \/ o # "peek" /\ pc' = [pc EXCEPT ![t] = NextPlace(o)] /\ call' = call
          /\ \A r \in Sandboxes : r \in used' <=> r \in used
          /\ UNCHANGED <<server, boxes, disk>>
      BY <1>14, <1>back DEF BackendOk
    <2>2. \A u \in Tasks : u # t => pc'[u] = pc[u] /\ call'[u] = call[u]
      BY <2>1
    <2>3. CASE o \notin DOMAIN Target
      <3>1. o \notin Changes /\ o # "destroy" /\ pc'[t] # "boot" /\ info' = info
        BY <2>1, <2>3 DEF Target, NextPlace
      <3> QED
        BY <2>1, <2>2, <3>1 DEF Simulated
    <2>4. CASE o \in DOMAIN Target
      <3>1. /\ info[s] # "Destroyed" /\ Target[o] \in Lifecycle!Successors[info[s]]
            /\ info' = [info EXCEPT ![s] = Target[o]]
        <4>1. o \in {"start", "resume", "stop", "pause", "destroy"}
          BY <2>4 DEF Target
        <4>2. CASE o = "start"
          BY <4>2, <2>1, <2>4 DEF Target, From, Lifecycle!Successors
        <4>3. CASE o = "resume"
          BY <4>3, <2>1, <2>4 DEF Target, From, Lifecycle!Successors
        <4>4. CASE o = "stop"
          BY <4>4, <2>1, <2>4 DEF Target, From, Lifecycle!Successors
        <4>5. CASE o = "pause"
          BY <4>5, <2>1, <2>4 DEF Target, From, Lifecycle!Successors
        <4>6. CASE o = "destroy"
          BY <4>6, <2>1, <2>4 DEF Target, From, States, Lifecycle!Successors
        <4> QED
          BY <4>1, <4>2, <4>3, <4>4, <4>5, <4>6
      <3>2. s \in boxes /\ server # "down" /\ View[s] = info[s] /\ info[s] \in States
        BY <2>1, <3>1 DEF Fetched, View, Shown
      <3>3. View' = [View EXCEPT ![s] = Target[o]]
        BY <2>1, <3>1, <3>2 DEF View, Shown
      <3>4. /\ pc'[t] \in {"persist", "unmap"} /\ call' = call /\ o \in Changes
        BY <2>1, <2>4 DEF Target, NextPlace
      <3>5. Made' = Made
        BY <2>1, <2>2, <3>4 DEF Made
      <3>6. Unsaved' = Unsaved \cup {s}
        <4>1. \A u \in Tasks : u \in Unanswered(Changes)' <=> u \in Unanswered(Changes) \/ u = t
          BY <2>1, <2>2, <3>4 DEF Unanswered
        <4> QED
          BY <4>1, <3>4 DEF Unsaved, Unanswered
      <3>7. View[s] # "none" /\ Target[o] \in Lifecycle!Successors[View[s]]
        BY <3>1, <3>2, <1>none
      <3>8. server' = server /\ disk' = disk /\ server # "down"
        BY <2>1, <3>2
      <3>9. Lifecycle!Change(s)
        BY ONLY <3>3, <3>5, <3>6, <3>7, <3>8 DEF Lifecycle!Change, Lifecycle!Become
      <3> QED
        BY <2>1, <3>9 DEF Lifecycle!Next, Simulated
    <2> QED
      BY <2>3, <2>4
  <1>15. ASSUME NEW t \in Tasks, BackendFails(t)
        PROVE  Simulated
    BY <1>15 DEF BackendFails, Drained, Simulated
  <1>16. ASSUME NEW t \in Tasks, DestroyUnmap(t)
        PROVE  Simulated
    <2> DEFINE s == call[t].box
    <2>1. /\ pc[t] = "unmap" /\ call[t].op = "destroy" /\ s \in Sandboxes /\ server # "down"
          /\ boxes' = boxes \ {s} /\ pc' = [pc EXCEPT ![t] = "unbind"]
          /\ UNCHANGED <<server, info, used, disk, call>>
      BY <1>16 DEF DestroyUnmap
    <2>2. info[s] = "Destroyed"
      BY <2>1 DEF Durable, DestroysForget
    <2>3. View[s] \in {"Destroyed", "none"} /\ View' = [View EXCEPT ![s] = "none"]
      BY <2>1, <2>2 DEF View, Shown
    <2>4. Made' = Made /\ s \in Made
      <3>1. s \in used /\ \A u \in Tasks : pc[u] = "boot" => call[u].box # s
        BY <2>1, <1>boot DEF Inv, Known
      <3> QED
        BY <3>1, <2>1 DEF Made
    <2>5. Unsaved' = Unsaved \cup {s}
      <3>1. \A u \in Tasks : u \in Unanswered(Changes)' <=> u \in Unanswered(Changes)
        BY <2>1 DEF Unanswered
      <3>2. t \in Unanswered(Changes)
        BY <2>1 DEF Unanswered
      <3> QED
        BY <3>1, <3>2, <2>1 DEF Unsaved, Unanswered
    <2>6. Lifecycle!Forget(s)
      BY <2>1, <2>3, <2>4, <2>5 DEF Lifecycle!Forget, Lifecycle!Become
    <2> QED
      BY <2>1, <2>6 DEF Lifecycle!Next, Simulated
  <1>17. ASSUME NEW t \in Tasks, DestroyUnbind(t)
        PROVE  Simulated
    BY <1>17 DEF DestroyUnbind, Simulated
  <1>18. ASSUME NEW t \in Tasks, PersistBegin(t)
        PROVE  Simulated
    BY <1>18 DEF PersistBegin, Simulated
  <1>19. ASSUME NEW t \in Tasks, NEW s \in Sandboxes, PersistCapture(t, s)
        PROVE  Simulated
    BY <1>19 DEF PersistCapture, Simulated
  <1>38. ASSUME NEW t \in Tasks, PersistSnapshots(t)
        PROVE  Simulated
    BY <1>38 DEF PersistSnapshots, Simulated
  <1>20. ASSUME NEW t \in Tasks, PersistIndex(t)
        PROVE  Simulated
    BY <1>20 DEF PersistIndex, Simulated
  <1>21. ASSUME NEW t \in Tasks, PersistWrite(t)
        PROVE  Simulated
    BY <1>21 DEF PersistWrite, Simulated
  <1>22. ASSUME NEW t \in Tasks, PersistRename(t)
        PROVE  Simulated
    <2>1. /\ pc[t] = "rename" /\ tmp = image[t] /\ disk' = image[t] /\ server # "down"
          /\ pc' = [pc EXCEPT ![t] = "idle"] /\ call' = [call EXCEPT ![t] = NoCall]
          /\ server' # "down"
          /\ UNCHANGED <<boxes, info, used>>
      BY <1>22 DEF PersistRename, Drained, Durable
    <2>2. /\ pc'[t] = "idle"
          /\ \A u \in Tasks : u # t => pc'[u] = pc[u] /\ call'[u] = call[u]
      BY <2>1
    <2>3. View' = View /\ \A s \in Sandboxes : View[s] = Shown(s)
      BY <2>1 DEF View, Shown
    <2>4. Made' = Made
      BY <2>1, <2>2 DEF Made
    <2>5. \A u \in Tasks : u \in Unanswered(Changes)' <=> u \in Unanswered(Changes) /\ u # t
      BY <2>1, <2>2 DEF Unanswered
    <2>6. Unsaved' \subseteq Unsaved
      BY <2>5, <2>2 DEF Unsaved, Unanswered
    <2>7. image[t].state \in [Sandboxes -> Lifecycle!States \cup {"none"}]
      BY DEF Images, States, Lifecycle!States
    <2>8. ASSUME NEW s \in Sandboxes
          PROVE  (\A u \in Moving(Changes) : call[u].box # s) => Agree(image[t].state[s], s)
      BY <2>1 DEF Carried, StateCarried
    <2>9. ASSUME NEW s \in Sandboxes
          PROVE  /\ s \notin Unsaved' => Lifecycle!Agree(image[t].state[s], View[s])
                 /\ image[t].state[s] # "none" => s \in Made
                 /\ image[t].state[s] = "none" => disk.state[s] = "none" \/ View[s] \in {"Destroyed", "none"}
      <3>1. s \notin Unsaved' => \A u \in Moving(Changes) : call[u].box # s
        <4>1. \A u \in Moving(Changes) : u \in Unanswered(Changes)' /\ call'[u] = call[u]
          BY <2>1, <2>2, <2>5 DEF Moving, Unanswered
        <4> QED
          BY <4>1 DEF Unsaved
      <3>2. s \notin Unsaved' => Lifecycle!Agree(image[t].state[s], View[s])
        BY <3>1, <2>3, <2>8 DEF Agree, Lifecycle!Agree
      <3>3. image[t].state[s] # "none" => s \in Made
        <4> SUFFICES ASSUME image[t].state[s] # "none" PROVE s \in Made
          OBVIOUS
        <4>1. s \in used
          BY DEF Inv, Known, ImageKnown
        <4>2. ASSUME NEW u \in Tasks, pc[u] = "boot", call[u].box = s PROVE FALSE
          <5>1. s \notin boxes /\ \A v \in Moving(Changes) : call[v].box # s
            BY <4>2, <1>boot DEF Moving
          <5> QED
            BY <5>1, <2>8 DEF Agree, Shown
        <4> QED
          BY <4>1, <4>2 DEF Made
      <3>4. image[t].state[s] = "none" => disk.state[s] = "none" \/ View[s] \in {"Destroyed", "none"}
        BY <2>1, <2>3 DEF Remembered, Shown
      <3> QED
        BY <3>2, <3>3, <3>4
    <2>10. Lifecycle!Save
      BY <2>1, <2>3, <2>4, <2>6, <2>7, <2>9 DEF Lifecycle!Save
    <2> QED
      BY <2>10 DEF Lifecycle!Next, Simulated
  <1>23. ASSUME NEW t \in Tasks, PersistFails(t)
        PROVE  Simulated
    BY <1>23, ImageAssumption DEF PersistFails, Drained, Durable, Simulated
  <1>24. ASSUME NEW s \in Sandboxes, Expire(s)
        PROVE  Simulated
    BY <1>24 DEF Expire, Simulated
  <1>25. ASSUME ReapBegin
        PROVE  Simulated
    BY <1>25 DEF ReapBegin, Simulated
  <1>26. ASSUME NEW s \in Sandboxes, ReapList(s)
        PROVE  Simulated
    BY <1>26 DEF ReapList, Simulated
  <1>27. ASSUME ReapFilter
        PROVE  Simulated
    BY <1>27 DEF ReapFilter, Simulated
  <1>28. ASSUME NEW s \in Sandboxes, ReapAct(s)
        PROVE  Simulated
    BY <1>28 DEF ReapAct, Serve, Simulated
  <1>29. ASSUME ShutdownBegin
        PROVE  Simulated
    BY <1>29 DEF ShutdownBegin, Serve, Simulated
  <1>30. ASSUME NEW s \in Sandboxes, ShutdownVisit(s)
        PROVE  Simulated
    BY <1>30 DEF ShutdownVisit, Serve, Simulated
  <1>31. ASSUME ShutdownDone
        PROVE  Simulated
    BY <1>31 DEF ShutdownDone, Simulated
  <1>32. ASSUME NEW d \in detached, Detached(d)
        PROVE  Simulated
    BY <1>32 DEF Durable, Simulated
  <1>33. ASSUME Crash
        PROVE  Simulated
    <2>1. /\ server # "down" /\ server' = "down"
          /\ \A u \in Tasks : pc'[u] = "idle"
          /\ UNCHANGED <<used, disk>>
      BY <1>33 DEF Crash, ProcessEnds
    <2>2. View' = disk.state
      BY <2>1 DEF View, Images
    <2>3. Made \subseteq Made' /\ Made' \subseteq Sandboxes
      BY <2>1 DEF Made
    <2>4. Unsaved' = {}
      BY <2>1 DEF Unsaved, Unanswered
    <2>5. Lifecycle!End
      BY <2>1, <2>2, <2>3, <2>4 DEF Lifecycle!End
    <2> QED
      BY <2>5 DEF Lifecycle!Next, Simulated
  <1>34. ASSUME Exit
        PROVE  Simulated
    <2>1. /\ server # "down" /\ server' = "down"
          /\ \A u \in Tasks : pc'[u] = "idle"
          /\ UNCHANGED <<used, disk>>
      BY <1>34 DEF Exit, ProcessEnds
    <2>2. View' = disk.state
      BY <2>1 DEF View, Images
    <2>3. Made \subseteq Made' /\ Made' \subseteq Sandboxes
      BY <2>1 DEF Made
    <2>4. Unsaved' = {}
      BY <2>1 DEF Unsaved, Unanswered
    <2>5. Lifecycle!End
      BY <2>1, <2>2, <2>3, <2>4 DEF Lifecycle!End
    <2> QED
      BY <2>5 DEF Lifecycle!Next, Simulated
  <1>35. ASSUME Restart
        PROVE  Simulated
    <2>1. /\ server = "down" /\ server' = "up" /\ boxes' = Saved
          /\ info' = [s \in Sandboxes |-> IF s \in Saved THEN Loaded(s) ELSE info[s]]
          /\ disk' = [disk EXCEPT !.state = [s \in Sandboxes |-> IF s \in Saved THEN Loaded(s) ELSE "none"]]
          /\ UNCHANGED <<used, pc, call>>
      BY <1>35 DEF Restart
    <2>2. disk'.state = [s \in Sandboxes |-> IF s \in Saved THEN Loaded(s) ELSE "none"]
      BY <2>1 DEF Images
    <2>3. View' = [s \in Sandboxes |->
                     IF s \in WithSecrets /\ disk.state[s] # "none" THEN "Failed" ELSE disk.state[s]]
      BY <2>1 DEF View, Shown, Saved, Loaded
    <2>4. disk'.state = View'
      BY <2>2, <2>3 DEF Saved, Loaded
    <2>5. Made' = Made /\ Unsaved' = Unsaved
      BY <2>1 DEF Made, Unsaved, Unanswered
    <2>6. Lifecycle!Restart
      BY <2>1, <2>3, <2>4, <2>5 DEF Lifecycle!Restart
    <2> QED
      BY <2>6 DEF Lifecycle!Next, Simulated
  <1>36. ASSUME RestartFails
        PROVE  Simulated
    BY <1>36 DEF RestartFails, Simulated
  <1>37. ASSUME UNCHANGED vars
        PROVE  Simulated
    BY <1>37 DEF vars, Simulated
  <1>39. Simulated
    BY <1>1, <1>2, <1>3, <1>4, <1>5, <1>6, <1>7, <1>8, <1>9, <1>10, <1>11, <1>12, <1>13, <1>14,
       <1>15, <1>16, <1>17, <1>18, <1>19, <1>20, <1>21, <1>22, <1>23, <1>24, <1>25, <1>26,
       <1>27, <1>28, <1>29, <1>30, <1>31, <1>32, <1>33, <1>34, <1>35, <1>36, <1>37, <1>38
       DEF Next, Begin, Create, Operate, Persist, Continue, Reap, ShutdownStep
  <1> QED
    BY <1>39, QuietStutters DEF Simulated

(* The control plane implements the lifecycle: clients see each sandbox    *)
(* move as can_transition_to allows, what was answered survives crashes    *)
(* and restarts, and no sandbox comes or goes unasked.                     *)
THEOREM LifecycleIsImplemented ==
  ASSUME Faults \cap {"cancel", "io"} = {}
  PROVE  Spec => ImplementsLifecycle
  <1>1. ASSUME Init PROVE Lifecycle!Init /\ Fetched /\ Remembered
    <2>1. /\ server = "up" /\ boxes = {} /\ used = {} /\ disk = Blank
          /\ \A t \in Tasks : pc[t] = "idle" /\ todo[t] = {}
      BY <1>1 DEF Init
    <2>2. /\ View = [s \in Sandboxes |-> "none"] /\ disk.state = [s \in Sandboxes |-> "none"]
          /\ Made = {} /\ Unsaved = {}
      BY <2>1 DEF View, Shown, Blank, Made, Unsaved, Unanswered, Saving, Persisting
    <2> QED
      BY <2>1, <2>2 DEF Lifecycle!Init, Fetched, Remembered, Persisting
  <1>2. ASSUME Inv, Durable, Carried, Fetched, Remembered, [Next]_vars
        PROVE  Fetched' /\ Remembered'
    BY <1>2, FetchedStep, RememberedStep DEF Durable
  <1>3. Inv /\ Durable /\ Carried /\ Fetched /\ Remembered /\ [Next]_vars
          => [Lifecycle!Next]_(Lifecycle!vars)
    BY LifecycleStep
  <1> QED
    BY <1>1, <1>2, <1>3, Invariance, DurableInvariance, CarriedInvariance, PTL
       DEF Spec, ImplementsLifecycle, Lifecycle!Spec
===============================================================================
