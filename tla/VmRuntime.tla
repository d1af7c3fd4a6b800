------------------------------ MODULE VmRuntime ------------------------------
(***************************************************************************)
(* The control plane of the agent runtime (crates/vm-runtime/src/lib.rs):  *)
(* concurrent handlers over the sandbox map, one mutex per sandbox record, *)
(* the idempotency index, the create guard, and the control-plane file     *)
(* that persist() rewrites after every mutation.  A step is the code a     *)
(* task runs between two awaits another task can tell apart.               *)
(***************************************************************************)
EXTENDS Naturals, FiniteSets, BackendContract

CONSTANTS
  Clients,        \* HTTP handlers that may be in flight at once
  Reaper,         \* the task of spawn_reaper
  Shutdown,       \* the future of shutdown_signal
  Daemons,        \* which of the two run in this instance
  Sandboxes,      \* the sandbox ids new_id("sbx") may hand out
  Snapshots,      \* the snapshot ids new_id("snp") may hand out
  Keys,           \* Idempotency-Key values
  WithSecrets,    \* sandboxes whose request carries secrets
  DestroyOnIdle,  \* sandboxes whose idle_action is Destroy
  RecordOps,      \* the requests about one sandbox clients send
  Faults,         \* what the environment may do in this instance
  NoTask, NoBox, NoKey, NoImage

Tasks == Clients \cup Daemons

ASSUME TasksAssumption ==
  /\ Daemons \subseteq {Reaper, Shutdown}
  /\ Reaper # Shutdown
  /\ Reaper \notin Clients /\ Shutdown \notin Clients
  /\ NoTask \notin Tasks
ASSUME DataAssumption ==
  /\ NoBox \notin Sandboxes /\ NoKey \notin Keys
  /\ WithSecrets \subseteq Sandboxes /\ DestroyOnIdle \subseteq Sandboxes
  /\ Sandboxes \cap Snapshots = {}
  /\ RecordOps \subseteq {"start", "pause", "resume", "stop", "destroy", "use", "peek",
                           "snapshot"}
  /\ Faults \subseteq {"backend", "cancel", "crash", "io"}

States == {"Creating", "Running", "Paused", "Stopped", "Failed", "Destroyed"}

Ops == {"create", "start", "pause", "resume", "stop", "destroy", "use",
        "peek", "snapshot", "deleteSnapshot", "checkpoint", "none"}

(* What control-plane.json holds; a sandbox it does not list is "none".    *)
Images == [state : [Sandboxes -> States \cup {"none"}],
           keys  : [Keys -> Sandboxes \cup {NoBox}],
           snaps : SUBSET Snapshots]

ASSUME ImageAssumption == NoImage \notin Images

Blank == [state |-> [s \in Sandboxes |-> "none"],
          keys  |-> [k \in Keys |-> NoBox],
          snaps |-> {}]

VARIABLES
  server,       \* "up", "draining" (no new requests) or "down"
  boxes,        \* ids in the `sandboxes` map
  info,         \* info.state of each sandbox record
  due,          \* records whose expires_at_ms has passed
  backend,      \* what the backend of each record holds
  keys,         \* the `idempotency` map
  snaps,        \* the `snapshots` map
  used,         \* ids new_id has handed out
  createGuard, idemLock, persistGuard, lock,  \* holders of the mutexes
  pc, call, todo,   \* where a task is, its arguments, records it has yet to visit
  expired,      \* what the reaper's sweep has left to act on
  image,        \* what a task in persist() has collected so far
  tmp, disk,    \* control-plane.json.tmp and control-plane.json
  detached,     \* file operations whose future was dropped: they still run
  madeFor,      \* history: the key a sandbox was created for
  told          \* history: the last answer about a sandbox a client got

memory == <<boxes, info, due, keys, snaps, used>>
locks  == <<createGuard, idemLock, persistGuard, lock>>
local  == <<pc, call, todo, expired, image>>
files  == <<tmp, disk, detached>>
history == <<madeFor, told>>
vars == <<server, memory, backend, locks, local, files, history>>

NoCall == [op |-> "none", box |-> NoBox, key |-> NoKey]
Calls == [op : Ops, box : Sandboxes \cup {NoBox}, key : Keys \cup {NoKey}]
Places == {"idle", "guard", "lookup", "replay", "make", "boot", "bind", "lock",
           "backend", "unmap", "unbind", "persist", "capture", "index", "write",
           "rename", "list", "checkpoint"}

Go(t, place) == pc' = [pc EXCEPT ![t] = place]
Serve(t, o, s, k) == call' = [call EXCEPT ![t] = [op |-> o, box |-> s, key |-> k]]
Return(t) == /\ Go(t, "idle")
             /\ call' = [call EXCEPT ![t] = NoCall]

UnlockForgotten(s) == UNCHANGED lock
Unlock(s) == lock' = [lock EXCEPT ![s] = NoTask]

Init ==
  /\ server = "up"
  /\ boxes = {} /\ due = {} /\ snaps = {} /\ used = {} /\ expired = {} /\ detached = {}
  /\ info = [s \in Sandboxes |-> "Creating"]
  /\ backend = [s \in Sandboxes |-> "absent"]
  /\ keys = Blank.keys
  /\ createGuard = NoTask /\ idemLock = NoTask /\ persistGuard = NoTask
  /\ lock = [s \in Sandboxes |-> NoTask]
  /\ pc = [t \in Tasks |-> "idle"]
  /\ call = [t \in Tasks |-> NoCall]
  /\ todo = [t \in Tasks |-> {}]
  /\ image = [t \in Tasks |-> Blank]
  /\ tmp = NoImage
  /\ disk = Blank
  /\ madeFor = [s \in Sandboxes |-> NoKey]
  /\ told = [s \in Sandboxes |-> "nothing"]

-----------------------------------------------------------------------------
(* What the control plane asks of a request before the backend sees it.    *)

From == [start |-> {"Stopped"}, resume |-> {"Paused"},
         stop  |-> {"Running", "Paused"}, pause |-> {"Running"},
         destroy |-> States \ {"Destroyed"}, snapshot |-> {"Running", "Paused"},
         use |-> {"Running"}, peek |-> {"Running"}, checkpoint |-> {"Running"}]

TargetUnnamed == [start |-> "Running", resume |-> "Running", stop |-> "Stopped",
                  pause |-> "Suspended", destroy |-> "Destroyed"]
Target == [start |-> "Running", resume |-> "Running", stop |-> "Stopped",
           pause |-> "Paused", destroy |-> "Destroyed"]

(* The operations a secret in the request rules out.                       *)
NeedsNoSecrets == {"pause", "snapshot", "checkpoint"}

-----------------------------------------------------------------------------
(* create()                                                                *)

BeginCreate(t, k) ==
  /\ server = "up" /\ pc[t] = "idle"
  /\ Go(t, "guard")
  /\ Serve(t, "create", NoBox, k)
  /\ UNCHANGED <<server, memory, backend, locks, todo, expired, image, files, history>>

MayCreateAlways == TRUE
MayCreate == createGuard = NoTask

CreateGuard(t) ==
  /\ pc[t] = "guard" /\ MayCreate
  /\ createGuard' = t
  /\ Go(t, IF call[t].key = NoKey THEN "make" ELSE "lookup")
  /\ UNCHANGED <<server, memory, backend, idemLock, persistGuard, lock, call, todo,
                 expired, image, files, history>>

(* The guard of the index lives as long as the `if let`: a hit keeps both  *)
(* mutexes while get() waits for the record.                               *)
CreateLookup(t) ==
  /\ pc[t] = "lookup" /\ idemLock = NoTask
  /\ LET hit == keys[call[t].key] IN
       IF hit = NoBox
       THEN Go(t, "make") /\ UNCHANGED <<idemLock, call>>
       ELSE /\ idemLock' = t
            /\ Go(t, "replay")
            /\ Serve(t, "create", hit, call[t].key)
  /\ UNCHANGED <<server, memory, backend, createGuard, persistGuard, lock, todo,
                 expired, image, files, history>>

CreateReplay(t) ==
  /\ pc[t] = "replay"
  /\ LET s == call[t].box IN
       IF s \in boxes
       THEN /\ lock[s] = NoTask
            /\ told' = [told EXCEPT ![s] = "created"]
       ELSE UNCHANGED told
  /\ createGuard' = NoTask /\ idemLock' = NoTask
  /\ Return(t)
  /\ UNCHANGED <<server, memory, backend, persistGuard, lock, todo, expired, image,
                 files, madeFor>>

CreateMake(t, s) ==
  /\ pc[t] = "make" /\ s \notin used
  /\ used' = used \cup {s}
  /\ backend' = [backend EXCEPT ![s] = "idle"]
  /\ Serve(t, "create", s, call[t].key)
  /\ madeFor' = [madeFor EXCEPT ![s] = call[t].key]
  /\ Go(t, "boot")
  /\ UNCHANGED <<server, boxes, info, due, keys, snaps, locks, todo, expired, image,
                 files, told>>

CreateMakeFails(t) ==
  /\ pc[t] = "make"
  /\ createGuard' = NoTask
  /\ Return(t)
  /\ UNCHANGED <<server, memory, backend, idemLock, persistGuard, lock, todo, expired,
                 image, files, history>>

CreateBoot(t) ==
  /\ pc[t] = "boot"
  /\ LET s == call[t].box IN
       /\ backend' = [backend EXCEPT ![s] = After("create", @)]
       /\ info' = [info EXCEPT ![s] = "Running"]
       /\ boxes' = boxes \cup {s}
  /\ Go(t, IF call[t].key = NoKey THEN "persist" ELSE "bind")
  /\ UNCHANGED <<server, due, keys, snaps, used, locks, call, todo, expired, image,
                 files, history>>

(* The failed record is inserted, and the call returns without binding the *)
(* key or persisting.                                                      *)
CreateBootFails(t) ==
  /\ pc[t] = "boot" /\ "backend" \in Faults
  /\ LET s == call[t].box IN
       /\ \E b \in Broken("create", backend[s]) : backend' = [backend EXCEPT ![s] = b]
       /\ info' = [info EXCEPT ![s] = "Failed"]
       /\ boxes' = boxes \cup {s}
  /\ createGuard' = NoTask
  /\ Return(t)
  /\ UNCHANGED <<server, due, keys, snaps, used, idemLock, persistGuard, lock, todo,
                 expired, image, files, history>>

CreateBind(t) ==
  /\ pc[t] = "bind" /\ idemLock = NoTask
  /\ keys' = [keys EXCEPT ![call[t].key] = call[t].box]
  /\ Go(t, "persist")
  /\ UNCHANGED <<server, boxes, info, due, snaps, used, backend, locks, call, todo,
                 expired, image, files, history>>

-----------------------------------------------------------------------------
(* The operations on one record.  "use" is run_command and write_file,     *)
(* "peek" is kill_command, read_file, list_dir and remove.                 *)

(* Bound of the model: a snapshot is asked for while an id is left for it. *)
SnapshotIdLeft ==
  Cardinality({t \in Tasks : call[t].op = "snapshot"}) < Cardinality(Snapshots \ used)

BeginOp(t, o, s) ==
  /\ server = "up" /\ pc[t] = "idle" /\ s \in boxes
  /\ o = "snapshot" => SnapshotIdLeft
  /\ Go(t, "lock")
  /\ Serve(t, o, s, NoKey)
  /\ UNCHANGED <<server, memory, backend, locks, todo, expired, image, files, history>>

AllowedInAnyState(o, s) == o \in NeedsNoSecrets => s \notin WithSecrets
Allowed(o, s) ==
  /\ info[s] \in From[o]
  /\ o \in NeedsNoSecrets => s \notin WithSecrets

(* The record is locked; the guards either let the backend run or answer.  *)
LockRecord(t) ==
  /\ pc[t] = "lock" /\ lock[call[t].box] = NoTask
  /\ LET o == call[t].op
         s == call[t].box
     IN \/ /\ Allowed(o, s)
           /\ lock' = [lock EXCEPT ![s] = t]
           /\ Go(t, "backend")
           /\ UNCHANGED call
        \/ /\ ~Allowed(o, s)
           /\ IF o = "destroy" THEN Go(t, "unmap") /\ UNCHANGED call ELSE Return(t)
           /\ UNCHANGED lock
  /\ UNCHANGED <<server, memory, backend, createGuard, idemLock, persistGuard, todo,
                 expired, image, files, history>>

(* Where a task goes when its backend call has succeeded.                  *)
NextPlace(o) == CASE o = "destroy" -> "unmap" [] o = "checkpoint" -> "checkpoint"
                  [] OTHER -> "persist"

BackendOk(t) ==
  /\ pc[t] = "backend"
  /\ LET o == call[t].op
         s == call[t].box
     IN /\ Serves(o, backend[s])
        /\ backend' = [backend EXCEPT ![s] = After(o, @)]
        /\ info' = IF o \in DOMAIN Target THEN [info EXCEPT ![s] = Target[o]] ELSE info
        /\ due' = IF o = "use" THEN due \ {s} ELSE due
        /\ IF o = "snapshot"
           THEN \E n \in Snapshots \ used : snaps' = snaps \cup {n} /\ used' = used \cup {n}
           ELSE UNCHANGED <<snaps, used>>
        /\ IF o = "peek" THEN Return(t) ELSE Go(t, NextPlace(o)) /\ UNCHANGED call
        /\ todo' = IF o = "checkpoint" THEN [todo EXCEPT ![t] = @ \ {s}] ELSE todo
        /\ Unlock(s)
  /\ UNCHANGED <<server, boxes, keys, createGuard, idemLock, persistGuard, expired,
                 image, files, history>>

(* The call fails although nothing goes wrong in it: there is no VMM or no *)
(* directory.  A frozen guest does not answer, and need not fail either.   *)
FailsAlone(o, b) == b = "absent" \/ (~Serves(o, b) /\ b # "frozen")

(* A failed checkpoint gives up on the sandboxes it has not reached and on *)
(* the persist; the server stops all the same.                             *)
Drained(t) == IF t = Shutdown THEN "draining" ELSE server

BackendFails(t) ==
  /\ pc[t] = "backend"
  /\ LET o == call[t].op
         s == call[t].box
     IN /\ CanBreak(o, backend[s])
        /\ FailsAlone(o, backend[s]) \/ "backend" \in Faults
        /\ \E b \in Broken(o, backend[s]) : backend' = [backend EXCEPT ![s] = b]
        /\ Unlock(s)
  /\ Return(t)
  /\ todo' = [todo EXCEPT ![t] = {}]
  /\ server' = Drained(t)
  /\ UNCHANGED <<memory, createGuard, idemLock, persistGuard, expired, image, files, history>>

DestroyUnmap(t) ==
  /\ pc[t] = "unmap"
  /\ boxes' = boxes \ {call[t].box}
  /\ Go(t, "unbind")
  /\ UNCHANGED <<server, info, due, keys, snaps, used, backend, locks, call, todo,
                 expired, image, files, history>>

DestroyUnbind(t) ==
  /\ pc[t] = "unbind" /\ idemLock = NoTask
  /\ keys' = [k \in Keys |-> IF keys[k] = call[t].box THEN NoBox ELSE keys[k]]
  /\ Go(t, "persist")
  /\ UNCHANGED <<server, boxes, info, due, snaps, used, backend, locks, call, todo,
                 expired, image, files, history>>

DeleteSnapshot(t, n) ==
  /\ server = "up" /\ pc[t] = "idle" /\ n \in snaps
  /\ snaps' = snaps \ {n}
  /\ Go(t, "persist")
  /\ Serve(t, "deleteSnapshot", NoBox, NoKey)
  /\ UNCHANGED <<server, boxes, info, due, keys, used, backend, locks, todo, expired,
                 image, files, history>>

-----------------------------------------------------------------------------
(* persist()                                                               *)

MayPersistAlways == TRUE
MayPersist == persistGuard = NoTask

PersistBegin(t) ==
  /\ pc[t] = "persist" /\ MayPersist
  /\ persistGuard' = t
  /\ todo' = [todo EXCEPT ![t] = boxes]
  /\ Go(t, "capture")
  /\ UNCHANGED <<server, memory, backend, createGuard, idemLock, lock, call, expired,
                 image, files, history>>

PersistCapture(t, s) ==
  /\ pc[t] = "capture" /\ s \in todo[t] /\ lock[s] = NoTask
  /\ image' = [image EXCEPT ![t].state[s] = info[s]]
  /\ todo' = [todo EXCEPT ![t] = @ \ {s}]
  /\ UNCHANGED <<server, memory, backend, locks, pc, call, expired, files, history>>

PersistSnapshots(t) ==
  /\ pc[t] = "capture" /\ todo[t] = {}
  /\ image' = [image EXCEPT ![t].snaps = snaps]
  /\ Go(t, "index")
  /\ UNCHANGED <<server, memory, backend, locks, call, todo, expired, files, history>>

(* The index is read last, after every record.                             *)
PersistIndex(t) ==
  /\ pc[t] = "index" /\ idemLock = NoTask
  /\ image' = [image EXCEPT ![t].keys = keys]
  /\ Go(t, "write")
  /\ UNCHANGED <<server, memory, backend, locks, call, todo, expired, files, history>>

PersistWrite(t) ==
  /\ pc[t] = "write"
  /\ tmp' = image[t]
  /\ Go(t, "rename")
  /\ UNCHANGED <<server, memory, backend, locks, call, todo, expired, image, disk,
                 detached, history>>

(* The answer the client gets when its call has been persisted.            *)
Answer(t) ==
  told' = CASE call[t].op = "create"  -> [told EXCEPT ![call[t].box] = "created"]
            [] call[t].op = "destroy" -> [told EXCEPT ![call[t].box] = "destroyed"]
            [] OTHER                  -> told

(* Every guard t holds is released when its call returns.                  *)
Release(t) ==
  /\ createGuard' = IF createGuard = t THEN NoTask ELSE createGuard
  /\ idemLock' = IF idemLock = t THEN NoTask ELSE idemLock
  /\ persistGuard' = IF persistGuard = t THEN NoTask ELSE persistGuard

PersistRename(t) ==
  /\ pc[t] = "rename" /\ tmp # NoImage
  /\ disk' = tmp /\ tmp' = NoImage
  /\ image' = [image EXCEPT ![t] = Blank]
  /\ Answer(t)
  /\ Release(t)
  /\ Return(t)
  /\ server' = Drained(t)
  /\ UNCHANGED <<memory, backend, lock, todo, expired, detached, madeFor>>

(* Writing or renaming fails: the call returns the error, the change stays *)
(* in memory.                                                              *)
PersistFails(t) ==
  /\ \/ pc[t] \in {"write", "rename"} /\ "io" \in Faults
     \/ pc[t] = "rename" /\ tmp = NoImage
  /\ image' = [image EXCEPT ![t] = Blank]
  /\ Release(t)
  /\ Return(t)
  /\ server' = Drained(t)
  /\ UNCHANGED <<memory, backend, lock, todo, expired, files, history>>

-----------------------------------------------------------------------------
(* reap_idle() and checkpoint_for_shutdown()                               *)

(* Only the reaper reads expires_at_ms.                                    *)
Expire(s) ==
  /\ Reaper \in Daemons /\ server # "down" /\ s \in boxes \ due
  /\ due' = due \cup {s}
  /\ UNCHANGED <<server, boxes, info, keys, snaps, used, backend, locks, local, files, history>>

ReapBegin ==
  /\ Reaper \in Daemons /\ server # "down" /\ pc[Reaper] = "idle" /\ expired = {}
  /\ boxes # {}
  /\ todo' = [todo EXCEPT ![Reaper] = boxes]
  /\ Go(Reaper, "list")
  /\ UNCHANGED <<server, memory, backend, locks, call, expired, image, files, history>>

Overdue(s) == info[s] = "Running" /\ s \in due

ReapList(s) ==
  /\ Reaper \in Daemons /\ pc[Reaper] = "list" /\ s \in todo[Reaper] /\ lock[s] = NoTask
  /\ todo' = [todo EXCEPT ![Reaper] = @ \ {s}]
  /\ expired' = IF Overdue(s) THEN expired \cup {s} ELSE expired
  /\ UNCHANGED <<server, memory, backend, locks, pc, call, image, files, history>>

ReapFilter ==
  /\ Reaper \in Daemons /\ pc[Reaper] = "list" /\ todo[Reaper] = {}
  /\ Go(Reaper, "idle")
  /\ UNCHANGED <<server, memory, backend, locks, call, todo, expired, image, files, history>>

(* A sandbox with secrets cannot be paused: it is destroyed.               *)
IdleAction(s) == IF s \in DestroyOnIdle \cup WithSecrets THEN "destroy" ELSE "pause"

(* The sweep acts on what it listed; neither state nor expiry is read      *)
(* again, only the idle action, for which the record is locked once more.  *)
ReapAct(s) ==
  /\ Reaper \in Daemons /\ server # "down" /\ pc[Reaper] = "idle" /\ s \in expired
  /\ s \in boxes => lock[s] = NoTask
  /\ expired' = expired \ {s}
  /\ IF s \in boxes
     THEN /\ Go(Reaper, "lock")
          /\ Serve(Reaper, IdleAction(s), s, NoKey)
     ELSE UNCHANGED <<pc, call>>
  /\ UNCHANGED <<server, memory, backend, locks, todo, image, files, history>>

ShutdownBegin ==
  /\ Shutdown \in Daemons /\ server = "up" /\ pc[Shutdown] = "idle"
  /\ todo' = [todo EXCEPT ![Shutdown] = boxes]
  /\ Go(Shutdown, "checkpoint")
  /\ Serve(Shutdown, "checkpoint", NoBox, NoKey)
  /\ UNCHANGED <<server, memory, backend, locks, expired, image, files, history>>

ShutdownVisit(s) ==
  /\ Shutdown \in Daemons /\ pc[Shutdown] = "checkpoint" /\ s \in todo[Shutdown]
  /\ lock[s] = NoTask
  /\ IF Allowed("checkpoint", s)
     THEN /\ lock' = [lock EXCEPT ![s] = Shutdown]
          /\ Serve(Shutdown, "checkpoint", s, NoKey)
          /\ Go(Shutdown, "backend")
          /\ UNCHANGED todo
     ELSE /\ todo' = [todo EXCEPT ![Shutdown] = @ \ {s}]
          /\ UNCHANGED <<lock, call, pc>>
  /\ UNCHANGED <<server, memory, backend, createGuard, idemLock, persistGuard, expired,
                 image, files, history>>

ShutdownDone ==
  /\ Shutdown \in Daemons /\ pc[Shutdown] = "checkpoint" /\ todo[Shutdown] = {}
  /\ Go(Shutdown, "persist")
  /\ UNCHANGED <<server, memory, backend, locks, call, todo, expired, image, files, history>>

-----------------------------------------------------------------------------
(* What ends a task or the process from outside.                           *)

(* The client disconnects and the handler's future is dropped where it     *)
(* waits: its guards are released, the rest of the handler never runs.  A  *)
(* file operation already handed to the blocking pool still happens.       *)
Abandon(t) ==
  detached' = detached \cup
    (CASE pc[t] = "write"  -> {[op |-> "write", image |-> image[t]]}
       [] pc[t] = "rename" -> {[op |-> "rename", image |-> Blank]}
       [] OTHER            -> {})

Cancel(t) ==
  /\ "cancel" \in Faults /\ t \in Clients /\ pc[t] # "idle"
  /\ IF pc[t] = "backend"
     THEN LET s == call[t].box IN
          /\ \E b \in Interrupted(call[t].op, backend[s]) : backend' = [backend EXCEPT ![s] = b]
          /\ Unlock(s)
     ELSE UNCHANGED <<backend, lock>>
  /\ Abandon(t) \/ UNCHANGED detached
  /\ image' = [image EXCEPT ![t] = Blank]
  /\ todo' = [todo EXCEPT ![t] = {}]
  /\ Release(t)
  /\ Return(t)
  /\ UNCHANGED <<server, memory, expired, tmp, disk, history>>

Detached(d) ==
  /\ server # "down" /\ d \in detached
  /\ detached' = detached \ {d}
  /\ CASE d.op = "write"                     -> tmp' = d.image /\ UNCHANGED disk
       [] d.op = "rename" /\ tmp # NoImage   -> disk' = tmp /\ tmp' = NoImage
       [] OTHER                              -> UNCHANGED <<tmp, disk>>
  /\ UNCHANGED <<server, memory, backend, locks, local, history>>

(* The process ends: whatever a task held is gone and the VMMs die with    *)
(* it; a directory that was being removed may or may not be left.          *)
ProcessEnds ==
  /\ server' = "down"
  /\ backend' \in [Sandboxes -> Backends]
  /\ \A s \in Sandboxes :
       LET serving == {t \in Tasks : pc[t] \in {"boot", "backend"} /\ call[t].box = s}
       IN \E o \in {"none"} \cup {call[t].op : t \in serving} :
            backend'[s] \in Orphaned(o, backend[s])
  /\ createGuard' = NoTask /\ idemLock' = NoTask /\ persistGuard' = NoTask
  /\ lock' = [s \in Sandboxes |-> NoTask]
  /\ pc' = [t \in Tasks |-> "idle"]
  /\ call' = [t \in Tasks |-> NoCall]
  /\ todo' = [t \in Tasks |-> {}]
  /\ image' = [t \in Tasks |-> Blank]
  /\ expired' = {} /\ detached' = {}
  /\ UNCHANGED <<memory, tmp, disk, history>>

Crash == "crash" \in Faults /\ server # "down" /\ ProcessEnds

(* axum waits for the requests in flight; main then aborts the reaper.     *)
Exit == server = "draining" /\ (\A t \in Clients : pc[t] = "idle") /\ ProcessEnds

-----------------------------------------------------------------------------
(* new_persistent(): load the file, recover every sandbox, persist.        *)

SavedIfRunning == {s \in Sandboxes : disk.state[s] = "Running"}
Saved == {s \in Sandboxes : disk.state[s] # "none"}

LoadedAsSaved(s) == disk.state[s]
Loaded(s) == IF s \in WithSecrets THEN "Failed" ELSE disk.state[s]

(* recover() starts the VMM of a running sandbox only.                     *)
RecoveredCold(s) == backend[s]
RecoveredPausedToo(s) ==
  IF Loaded(s) \in {"Running", "Paused"} THEN After("start", backend[s]) ELSE backend[s]
Recovered(s) == IF Loaded(s) = "Running" THEN After("start", backend[s]) ELSE backend[s]

Restart ==
  /\ server = "down"
  /\ \A s \in Saved : backend[s] # "absent"
  /\ server' = "up"
  /\ boxes' = Saved
  /\ info' = [s \in Sandboxes |-> IF s \in Saved THEN Loaded(s) ELSE info[s]]
  /\ backend' = [s \in Sandboxes |-> IF s \in Saved THEN Recovered(s) ELSE backend[s]]
  /\ keys' = disk.keys /\ snaps' = disk.snaps
  /\ disk' = [disk EXCEPT !.state = [s \in Sandboxes |-> IF s \in Saved THEN Loaded(s) ELSE "none"]]
  /\ tmp' = NoImage
  /\ UNCHANGED <<due, used, locks, local, detached, history>>

(* One recover() that fails ends the start-up, after start() may have      *)
(* removed the directory; the VMM it may have left dies with the process.  *)
RestartFails ==
  /\ server = "down" /\ "backend" \in Faults
  /\ \E s \in Saved :
       /\ Loaded(s) = "Running" /\ backend[s] = "idle"
       /\ \E b \in Orphaned("start", backend[s]) : backend' = [backend EXCEPT ![s] = b]
  /\ UNCHANGED <<server, memory, locks, local, files, history>>

-----------------------------------------------------------------------------
Begin(t) ==
  \/ \E k \in Keys \cup {NoKey} : BeginCreate(t, k)
  \/ \E o \in RecordOps, s \in Sandboxes : BeginOp(t, o, s)
  \/ \E n \in Snapshots : DeleteSnapshot(t, n)

Create(t) ==
  \/ CreateGuard(t) \/ CreateLookup(t) \/ CreateReplay(t)
  \/ \E s \in Sandboxes : CreateMake(t, s)
  \/ CreateMakeFails(t) \/ CreateBoot(t) \/ CreateBootFails(t) \/ CreateBind(t)

Operate(t) == LockRecord(t) \/ BackendOk(t) \/ BackendFails(t) \/ DestroyUnmap(t) \/ DestroyUnbind(t)

Persist(t) ==
  \/ PersistBegin(t) \/ PersistSnapshots(t) \/ PersistIndex(t) \/ PersistWrite(t) \/ PersistRename(t) \/ PersistFails(t)
  \/ \E s \in Sandboxes : PersistCapture(t, s)

Reap == ReapBegin \/ ReapFilter \/ \E s \in Sandboxes : ReapList(s) \/ ReapAct(s)

ShutdownStep == ShutdownDone \/ \E s \in Sandboxes : ShutdownVisit(s)

Continue(t) == Create(t) \/ Operate(t) \/ Persist(t)

Next ==
  \/ \E t \in Clients : Begin(t) \/ Cancel(t)
  \/ \E t \in Tasks : Continue(t)
  \/ \E s \in Sandboxes : Expire(s)
  \/ Reap \/ ShutdownBegin \/ ShutdownStep
  \/ \E d \in detached : Detached(d)
  \/ Crash \/ Exit \/ Restart \/ RestartFails

Spec == Init /\ [][Next]_vars

(* tokio polls every ready task, and its mutexes are handed over in the    *)
(* order they were asked for: a task that keeps finding its mutex free     *)
(* gets it.  Clients need not send requests, and nothing need fail.        *)
Fairness ==
  /\ \A t \in Tasks : SF_vars(Continue(t))
  /\ SF_vars(Reap) /\ SF_vars(ShutdownStep)
  /\ \A s \in Sandboxes : WF_vars(Expire(s))
  /\ WF_vars(Exit) /\ WF_vars(Restart)

FairSpec == Spec /\ Fairness

-----------------------------------------------------------------------------
TypeOK ==
  /\ server \in {"up", "draining", "down"}
  /\ boxes \subseteq Sandboxes /\ due \subseteq Sandboxes /\ expired \subseteq Sandboxes
  /\ snaps \subseteq Snapshots /\ used \subseteq Sandboxes \cup Snapshots
  /\ info \in [Sandboxes -> States]
  /\ backend \in [Sandboxes -> Backends]
  /\ keys \in [Keys -> Sandboxes \cup {NoBox}]
  /\ {createGuard, idemLock, persistGuard} \subseteq Tasks \cup {NoTask}
  /\ lock \in [Sandboxes -> Tasks \cup {NoTask}]
  /\ pc \in [Tasks -> Places]
  /\ call \in [Tasks -> Calls]
  /\ todo \in [Tasks -> SUBSET Sandboxes]
  /\ image \in [Tasks -> Images]
  /\ tmp \in Images \cup {NoImage}
  /\ disk \in Images
  /\ detached \subseteq [op : {"write", "rename"}, image : Images]
  /\ madeFor \in [Sandboxes -> Keys \cup {NoKey}]
  /\ told \in [Sandboxes -> {"nothing", "created", "destroyed"}]

Creating == {"lookup", "replay", "make", "boot", "bind"}
Persisting == {"capture", "index", "write", "rename"}

(* Every mutex is held by exactly the task that is in the section it       *)
(* guards: create() keeps the create guard until it returns, its persist   *)
(* included, and a replay keeps the index locked while it waits.           *)
LockDiscipline ==
  /\ \A t \in Tasks :
       /\ createGuard = t <=> \/ pc[t] \in Creating
                              \/ pc[t] \in {"persist"} \cup Persisting /\ call[t].op = "create"
       /\ idemLock = t <=> pc[t] = "replay"
       /\ persistGuard = t <=> pc[t] \in Persisting
  /\ \A t \in Tasks, s \in Sandboxes :
       lock[s] = t <=> pc[t] = "backend" /\ call[t].box = s

(* A handler that fetched a record before it was destroyed never reaches   *)
(* the backend afterwards (the Arc outlives the map entry).                *)
DestroyedIsLeftAlone ==
  \A t \in Tasks : pc[t] = "backend" => info[call[t].box] # "Destroyed"

(* "Concurrent retries with the same key observe one sandbox"              *)
(* (vm-runtime/src/lib.rs:233): no two live sandboxes were made for one    *)
(* Idempotency-Key.                                                        *)
Live(s) == s \in boxes /\ info[s] \notin {"Failed", "Destroyed"}
OneSandboxPerKey ==
  \A r, s \in Sandboxes :
    Live(r) /\ Live(s) /\ madeFor[r] = madeFor[s] /\ madeFor[r] # NoKey => r = s

(* What a client has been told survives: a sandbox whose create was        *)
(* acknowledged is in control-plane.json until a destroy starts, and one   *)
(* whose destroy was acknowledged never comes back to it.                  *)
DurableTracksAnswers ==
  \A s \in Sandboxes :
    /\ told[s] = "created" /\ info[s] # "Destroyed" => disk.state[s] # "none"
    /\ told[s] = "destroyed" => disk.state[s] = "none"

(* The sandboxes, keys and snapshots a handler has changed, or is about to *)
(* take out of the maps, without having answered yet.                      *)
Saving == {"bind", "unmap", "unbind", "persist"} \cup Persisting
Unanswered(ops) == {t \in Tasks : pc[t] \in Saving /\ call[t].op \in ops}
Changes == {"create"} \cup DOMAIN Target
Unsaved == {call[t].box : t \in Unanswered(Changes)}

Shown(s) == IF s \in boxes THEN info[s] ELSE "none"
Agree(file, s) == file = Shown(s) \/ (Shown(s) = "Failed" /\ file = "none")

(* Every change that has been answered is in control-plane.json, whatever  *)
(* other handlers are in the middle of; only a failed first start is       *)
(* answered without being saved.                                           *)
AnsweredIsSaved ==
  server # "down" =>
    /\ \A s \in Sandboxes \ Unsaved : Agree(disk.state[s], s)
    /\ \A k \in Keys : \/ disk.keys[k] = keys[k]
                      \/ \E t \in Unanswered({"create", "destroy"}) : madeFor[call[t].box] = k
    /\ disk.snaps = snaps \/ Unanswered({"snapshot", "deleteSnapshot"}) # {}

(* Idempotency keys survive a restart (docs/remote-agent-runtime.md:163):  *)
(* the file binds the key of an acknowledged create to its sandbox until a *)
(* destroy of it starts, although other persists rewrite the file, each    *)
(* reading the index long after the records.                               *)
KeysTrackAnswers ==
  \A s \in Sandboxes :
    told[s] = "created" /\ info[s] # "Destroyed" /\ madeFor[s] # NoKey =>
      disk.keys[madeFor[s]] = s

(* start() and resume() return at once when the backend's flag is set: a   *)
(* paused, stopped or failed sandbox has it cleared, whatever failed, was  *)
(* cancelled or crashed on the way there.  (A start that failed may have   *)
(* left it a VMM all the same: FirecrackerBackend!NoVmmLeft.)              *)
IdleHasNoFlag ==
  \A s \in boxes : info[s] \in {"Paused", "Stopped", "Failed"} => backend[s] \notin Flagged

(* pause() returns at once when the flag is cleared: a sandbox reported    *)
(* RUNNING has its directory and the flag set, also after a restart and    *)
(* after calls that failed.  Its VMM serves, unless a snapshot or pause    *)
(* that failed left it frozen, or a destroy that failed terminated it.     *)
RunningHasFlag ==
  server = "up" /\ (Shutdown \in Daemons => pc[Shutdown] = "idle") =>
    \A s \in boxes : info[s] = "Running" => backend[s] \in Flagged

(* Every request gets an answer: no cycle of tasks waits on record locks,  *)
(* the index, the create guard and the persist guard.                      *)
Answered == \A t \in Clients : pc[t] # "idle" ~> pc[t] = "idle"

(* A running sandbox whose lifetime has passed is paused or destroyed, or  *)
(* its client used it again.                                               *)
IdleIsReaped ==
  \A s \in Sandboxes :
    s \in boxes /\ s \in due /\ info[s] = "Running" ~> s \notin due \/ info[s] # "Running"

(* "When the new process starts" (docs/remote-agent-runtime.md:157) it     *)
(* recovers the sandboxes of its file, and "IDs, keys and file contents    *)
(* survive the restart" (:163): recover() finds the directory of each, as  *)
(* one that fails ends the start-up.                                       *)
StartUpFindsAll ==
  server = "down" => \A s \in Saved : backend[s] # "absent"

-----------------------------------------------------------------------------
(* The control plane implements the lifecycle it promises: what a client   *)
(* can see of a sandbox is the record in memory while the process runs,    *)
(* and what the file says between two processes.                           *)
View == [s \in Sandboxes |-> IF server = "down" THEN disk.state[s] ELSE Shown(s)]
Made == {s \in Sandboxes \cap used : \A t \in Tasks : pc[t] = "boot" => call[t].box # s}

Lifecycle == INSTANCE SandboxLifecycle WITH
  process <- IF server = "down" THEN "down" ELSE "up",
  made <- Made, state <- View, saved <- disk.state, unsaved <- Unsaved
ImplementsLifecycle == Lifecycle!Spec

(* update_state() never has to refuse: between its guard and the change a  *)
(* handler holds the record, so whatever fails or is dropped, the state    *)
(* moves as can_transition_to (runtime-types/src/lib.rs:24) allows.        *)
TransitionsAreLegal ==
  [][\A s \in boxes : server # "down" /\ info'[s] # info[s] =>
       info'[s] \in Lifecycle!Successors[info[s]]]_vars
=============================================================================
