-------------------------- MODULE FirecrackerBackend --------------------------
(***************************************************************************)
(* One sandbox on the Firecracker backend (crates/firecracker-runtime):    *)
(* its directory, the files a checkpoint is made of, the VMM process, the  *)
(* guest, and the steps each call takes between awaits.  File and memory   *)
(* contents are version numbers: `guest.ver` is what the guest has         *)
(* written, `guest.sees` what it believes its disk holds.                  *)
(***************************************************************************)
EXTENDS Naturals, BackendContract

CONSTANTS MaxWrites,  \* bound: versions the guest may write
          Regimes     \* the sets of faults a behaviour may meet

ASSUME BackendAssumption ==
  /\ MaxWrites \in Nat \ {0}
  /\ Regimes \subseteq SUBSET {"error", "cancel", "crash", "exit"}

VARIABLES
  dir,       \* the sandbox directory exists
  rootfs,    \* version in rootfs.ext4, 0 when there is no file
  ckpt,      \* the files of paused/: disk (rootfs.ext4), dump (vmstate and memory)
  vmm,       \* the Firecracker process: "none", "booting", "running", "frozen"
  guest,     \* memory of the guest
  running,   \* the flag of that name
  pausedSnapshot,  \* paused_snapshot.is_some()
  state,     \* the control plane's state of the sandbox, in memory
  up,        \* the server process runs
  saved,     \* that state as control-plane.json has it, "none" if it is not listed
  behind,    \* history: recovered from a file older than memory, and not paused since
  faults,    \* what may go wrong in this behaviour
  op, step,  \* the call being served and its next step
  outcome,   \* what the last call returned: "ok", "error", "none" if it did not
  before,    \* history: what the backend held when the call began
  written,   \* history: the last version written by the guest
  acked      \* history: the last version a client knows to be on its disk

files  == <<dir, rootfs, ckpt>>
flags  == <<running, pausedSnapshot>>
at     == <<op, step, outcome, before>>
ghosts == <<written, acked>>
world  == <<up, saved, behind, faults>>
vars == <<files, vmm, guest, flags, state, world, at, ghosts>>

NoGuest == [ver |-> 0, sees |-> 0]
NoCheckpoint == [disk |-> 0, dump |-> NoGuest]

(* recover() looks for three files; it cannot tell one capture from two.   *)
Complete == ckpt.disk # 0 /\ ckpt.dump # NoGuest

(* What the control plane sees of all this.                                *)
Holds ==
  CASE ~dir     -> "absent"
    [] dir /\ ~running -> IF vmm = "none" THEN "idle" ELSE "stray"
    [] dir /\ running  -> IF vmm \in {"running", "frozen"} THEN vmm ELSE "dead"

Captures == {"pause", "checkpoint", "snapshot"}
Boots == Starts \cup {"recover"}

From == [create |-> {"Creating"}, start |-> {"Stopped"}, resume |-> {"Paused"},
         pause |-> {"Running"}, checkpoint |-> {"Running"},
         stop |-> {"Running", "Paused"},
         destroy |-> {"Running", "Paused", "Stopped", "Failed"},
         use |-> {"Running"}, snapshot |-> {"Running", "Paused"}]

Init ==
  /\ dir = FALSE /\ rootfs = 0 /\ ckpt = NoCheckpoint
  /\ vmm = "none" /\ guest = NoGuest
  /\ running = FALSE /\ pausedSnapshot = FALSE
  /\ state = "Creating" /\ up = TRUE /\ saved = "none" /\ behind = FALSE
  /\ faults \in Regimes
  /\ op = "none" /\ step = "none" /\ outcome = "none" /\ before = "absent"
  /\ written = 0 /\ acked = 0

To(next) == step' = next /\ UNCHANGED <<op, outcome, before>>
Return(result) ==
  op' = "none" /\ step' = "none" /\ outcome' = result /\ before' = "absent"

(* FirecrackerFactory::create: the directory and a clone of the template.  *)
Make ==
  /\ up /\ state = "Creating" /\ ~dir
  /\ dir' = TRUE /\ rootfs' = 1 /\ written' = 1
  /\ UNCHANGED <<ckpt, vmm, guest, flags, state, world, at, acked>>

First(o) ==
  CASE o \in Boots                   -> IF running THEN "done" ELSE "spawn"
    [] o \in {"pause", "checkpoint"} -> IF running THEN "sync" ELSE "done"
    [] o = "snapshot"                -> IF running THEN "sync" ELSE "refuse"
    [] o = "use"                     -> "ask"
    [] OTHER                         -> "kill"

Begin(o) ==
  /\ up /\ op = "none" /\ state \in From[o]
  /\ o = "create" => dir
  /\ op' = o /\ step' = First(o) /\ outcome' = "none" /\ before' = Holds
  /\ UNCHANGED <<files, vmm, guest, flags, state, world, ghosts>>

-----------------------------------------------------------------------------
(* start(): spawn, then load the checkpoint or boot, then wait for agentd. *)

LoadFromMemoryOnly == IF pausedSnapshot THEN "load" ELSE "boot"
LoadFrom == IF pausedSnapshot THEN "clone" ELSE "boot"

Spawn ==
  /\ step = "spawn" /\ dir
  /\ vmm' = "booting" /\ guest' = NoGuest
  /\ To(LoadFrom)
  /\ UNCHANGED <<files, flags, state, world, ghosts>>

CloneRootfs ==
  /\ step = "clone"
  /\ rootfs' = ckpt.disk
  /\ To("load")
  /\ UNCHANGED <<dir, ckpt, vmm, guest, flags, state, world, ghosts>>

LoadSnapshot ==
  /\ step = "load"
  /\ vmm' = "running" /\ guest' = ckpt.dump
  /\ To("ready")
  /\ UNCHANGED <<files, flags, state, world, ghosts>>

ConfigureFresh ==
  /\ step = "boot"
  /\ vmm' = "running" /\ guest' = [ver |-> rootfs, sees |-> rootfs]
  /\ To("ready")
  /\ UNCHANGED <<files, flags, state, world, ghosts>>

BootstrapAgent ==
  /\ step = "ready"
  /\ running' = TRUE /\ state' = "Running"
  /\ Return("ok")
  /\ UNCHANGED <<files, vmm, guest, pausedSnapshot, world, ghosts>>

(* Whether a VMM may fail to come up here.  At start-up it may in every    *)
(* instance: the host is not the one the sandbox last ran on.              *)
MayFail == "error" \in faults \/ op = "recover"

(* A start that fails before the guest runs terminates the VMM and removes *)
(* the whole directory, checkpoint included.                               *)
StartFails ==
  /\ step \in {"clone", "load", "boot"} /\ MayFail
  /\ vmm' = "none" /\ guest' = NoGuest
  /\ To("clean")
  /\ UNCHANGED <<files, flags, state, world, ghosts>>

RemoveDirectory == dir' = FALSE /\ rootfs' = 0 /\ ckpt' = NoCheckpoint

(* The state after a failed call: only create() changes it.                *)
AfterErrorUnknown == "Error"
AfterError == IF op = "create" THEN "Failed" ELSE state

Cleanup ==
  /\ step = "clean" /\ op # "recover"
  /\ RemoveDirectory
  /\ state' = AfterError
  /\ Return("error")
  /\ UNCHANGED <<vmm, guest, flags, world, ghosts>>

(* spawn() fails: the socket does not appear and the child is terminated;  *)
(* or looking for it is an error, which leaves the child; or there is no   *)
(* new child, and a VMM that was left there stays.                         *)
SpawnFails ==
  \/ ("error" \in faults \/ ~dir) /\ vmm' = "none" /\ guest' = NoGuest
  \/ "error" \in faults /\ dir /\ vmm' = "booting" /\ guest' = NoGuest
  \/ "error" \in faults /\ UNCHANGED <<vmm, guest>>

(* The VMM did not come up, or agentd did not answer: the error is passed  *)
(* on as it is.                                                            *)
BootFails ==
  /\ op # "recover"
  /\ \/ step = "spawn" /\ SpawnFails
     \/ step = "ready" /\ "error" \in faults /\ UNCHANGED <<vmm, guest>>
  /\ state' = AfterError
  /\ Return("error")
  /\ UNCHANGED <<files, flags, world, ghosts>>

-----------------------------------------------------------------------------
(* pause() and snapshot(): capture_to, then terminate or resume the guest. *)

Sync ==
  /\ step = "sync" /\ vmm = "running"
  /\ rootfs' = guest.ver /\ guest' = [guest EXCEPT !.sees = guest.ver]
  /\ To("freeze")
  /\ UNCHANGED <<dir, ckpt, vmm, flags, state, world, ghosts>>

CapturedVmmRuns == "running"
CapturedVmm == "frozen"

Freeze ==
  /\ step = "freeze"
  /\ vmm' = CapturedVmm
  /\ To("copy")
  /\ UNCHANGED <<files, guest, flags, state, world, ghosts>>

(* A persistent snapshot is captured to a directory of its own.            *)
CopyRootfs ==
  /\ step = "copy"
  /\ ckpt' = IF op = "snapshot" THEN ckpt ELSE [ckpt EXCEPT !.disk = rootfs]
  /\ To("dump")
  /\ UNCHANGED <<dir, rootfs, vmm, guest, flags, state, world, ghosts>>

AfterDumpFrozen == IF op = "snapshot" THEN "publish" ELSE "kill"
AfterDump == IF op = "snapshot" THEN "thaw" ELSE "kill"

DumpMemory ==
  /\ step = "dump"
  /\ ckpt' = IF op = "snapshot" THEN ckpt ELSE [ckpt EXCEPT !.dump = guest]
  /\ To(AfterDump)
  /\ UNCHANGED <<dir, rootfs, vmm, guest, flags, state, world, ghosts>>

Thaw ==
  /\ step = "thaw"
  /\ vmm' = "running"
  /\ To("publish")
  /\ UNCHANGED <<files, guest, flags, state, world, ghosts>>

Publish ==
  /\ step = "publish"
  /\ Return("ok")
  /\ UNCHANGED <<files, vmm, guest, flags, state, world, ghosts>>

(* An error on the way out of a capture leaves the guest as it is.  A      *)
(* frozen guest does not answer and the request has no timeout: it may     *)
(* fail, if the VMM's socket does, and may never return.                   *)
CaptureFails ==
  /\ \/ step \in {"sync", "freeze", "copy", "dump", "thaw", "publish"} /\ "error" \in faults
     \/ step = "sync" /\ vmm = "none"
     \/ step = "refuse"
  /\ Return("error")
  /\ UNCHANGED <<files, vmm, guest, flags, state, world, ghosts>>

-----------------------------------------------------------------------------
(* terminate(), destroy() and the assignments that end a call.             *)

Terminate ==
  /\ step = "kill"
  /\ vmm' = "none" /\ guest' = NoGuest
  /\ To(IF op = "destroy" THEN "remove" ELSE "mark")
  /\ UNCHANGED <<files, flags, state, world, ghosts>>

Remove ==
  /\ step = "remove" /\ dir
  /\ RemoveDirectory
  /\ To("mark")
  /\ UNCHANGED <<vmm, guest, flags, state, world, ghosts>>

RemoveFails ==
  /\ step = "remove" /\ ("error" \in faults \/ ~dir)
  /\ Return("error")
  /\ UNCHANGED <<files, vmm, guest, flags, state, world, ghosts>>

(* The state update_state() gives the record when the call succeeds.       *)
AfterSuccess ==
  CASE op \in {"start", "resume"} -> "Running" [] op = "pause"   -> "Paused"
    [] op = "stop" -> "Stopped"                [] op = "destroy" -> "Destroyed"
    [] OTHER -> state

(* stop() forgets the checkpoint it no longer wants; its files stay.       *)
SnapshotKept == IF op \in {"pause", "checkpoint"} THEN TRUE ELSE pausedSnapshot
SnapshotAfter ==
  CASE op \in {"pause", "checkpoint"} -> TRUE [] op = "stop" -> FALSE
    [] OTHER -> pausedSnapshot

Mark ==
  /\ step = "mark"
  /\ running' = FALSE
  /\ pausedSnapshot' = SnapshotAfter
  /\ state' = AfterSuccess
  /\ behind' = (behind /\ op \notin {"pause", "checkpoint"})
  /\ Return("ok")
  /\ UNCHANGED <<files, vmm, guest, up, saved, faults, ghosts>>

(* The calls the flag answers: start of a running, pause of an idle one.   *)
NothingToDo ==
  /\ step = "done"
  /\ state' = AfterSuccess
  /\ Return("ok")
  /\ UNCHANGED <<files, vmm, guest, flags, world, ghosts>>

-----------------------------------------------------------------------------
(* The guest.                                                              *)

(* A command that writes a file and syncs it, as a client of the API sees  *)
(* it: when it has answered the data is on the guest's disk.               *)
Use ==
  /\ step = "ask" /\ vmm = "running" /\ written < MaxWrites
  /\ written' = written + 1 /\ acked' = written'
  /\ rootfs' = written' /\ guest' = [ver |-> written', sees |-> written']
  /\ Return("ok")
  /\ UNCHANGED <<dir, ckpt, vmm, flags, state, world>>

UseFails ==
  /\ step = "ask" /\ (vmm # "frozen" \/ "error" \in faults)
  /\ Return("error")
  /\ UNCHANGED <<files, vmm, guest, flags, state, world, ghosts>>

GuestWrites ==
  /\ vmm = "running" /\ written < MaxWrites
  /\ written' = written + 1 /\ guest' = [guest EXCEPT !.ver = written']
  /\ UNCHANGED <<files, vmm, flags, state, world, at, acked>>

GuestFlushes ==
  /\ vmm = "running" /\ guest.sees # guest.ver
  /\ rootfs' = guest.ver /\ guest' = [guest EXCEPT !.sees = guest.ver]
  /\ UNCHANGED <<dir, ckpt, vmm, flags, state, world, at, ghosts>>

-----------------------------------------------------------------------------
(* Cancellation, the end of the process, and recover().                    *)

(* The handler's future is dropped between two steps.                      *)
Cancel ==
  /\ "cancel" \in faults /\ op \notin {"none", "create", "recover"}
  /\ Return("none")
  /\ UNCHANGED <<files, vmm, guest, flags, state, world, ghosts>>

ProcessEnds ==
  /\ up' = FALSE
  /\ vmm' = "none" /\ guest' = NoGuest
  /\ running' = FALSE /\ pausedSnapshot' = FALSE
  /\ Return("none")
  /\ UNCHANGED <<files, state, saved, behind, faults, ghosts>>

(* The process is killed; or main ends and the shutdown has not reached    *)
(* this sandbox: it holds secrets, was started meanwhile, or another one's *)
(* checkpoint failed before its turn.                                      *)
Crash == up /\ "crash" \in faults /\ ProcessEnds

(* The shutdown has checkpointed a running sandbox and saved its state; or *)
(* its own capture has failed half way, and main ends all the same.        *)
Exit ==
  /\ up /\ op = "none" /\ "exit" \in faults
  /\ ~(running /\ vmm = "running") /\ saved = state
  /\ ProcessEnds

(* persist() of this or of any other request reads the record while no     *)
(* call holds it.  The file shows only in what a restart finds, so reading *)
(* and writing are one step, which comes as late as they may.              *)
Save ==
  /\ up /\ op = "none" /\ state # "Creating"
  /\ saved' = state
  /\ UNCHANGED <<files, vmm, guest, flags, state, up, behind, faults, at, ghosts>>

(* new_persistent() takes the state from the file and hands it to recover().*)
Recover ==
  /\ ~up /\ saved \in {"Running", "Paused", "Stopped", "Failed"}
  /\ dir /\ (saved = "Paused" => Complete)
  /\ up' = TRUE /\ pausedSnapshot' = Complete
  /\ state' = saved /\ behind' = (behind \/ saved # state)
  /\ IF saved = "Running"
     THEN op' = "recover" /\ step' = "spawn" /\ outcome' = "none" /\ before' = Holds
     ELSE UNCHANGED at
  /\ UNCHANGED <<files, vmm, guest, running, saved, faults, ghosts>>

(* Any error of recover() ends the process that was starting.              *)
RecoverFails ==
  /\ op = "recover"
  /\ \/ step \in {"spawn", "ready"} /\ MayFail /\ UNCHANGED files
     \/ step = "clean" /\ RemoveDirectory
  /\ up' = FALSE
  /\ vmm' = "none" /\ guest' = NoGuest
  /\ running' = FALSE /\ pausedSnapshot' = FALSE
  /\ Return("none")
  /\ UNCHANGED <<state, saved, behind, faults, ghosts>>

Serve ==
  \/ Spawn \/ CloneRootfs \/ LoadSnapshot \/ ConfigureFresh \/ BootstrapAgent
  \/ Cleanup \/ Sync \/ Freeze \/ CopyRootfs \/ DumpMemory \/ Thaw \/ Publish
  \/ Terminate \/ Remove \/ Mark \/ NothingToDo \/ Use

Err == StartFails \/ BootFails \/ CaptureFails \/ RemoveFails \/ UseFails \/ RecoverFails

Next ==
  \/ Make \/ (\E o \in DOMAIN From : Begin(o)) \/ Serve \/ Err
  \/ GuestWrites \/ GuestFlushes \/ Cancel \/ Save \/ Crash \/ Exit \/ Recover

Spec == Init /\ [][Next]_vars

(* A call that has begun is driven on, to its result or its error.         *)
FairSpec == Spec /\ WF_vars(Serve \/ Err)

-----------------------------------------------------------------------------
Versions == 0 .. MaxWrites
Guests == [ver : Versions, sees : Versions]

TypeOK ==
  /\ dir \in BOOLEAN /\ running \in BOOLEAN /\ pausedSnapshot \in BOOLEAN /\ up \in BOOLEAN
  /\ rootfs \in Versions /\ written \in Versions /\ acked \in Versions
  /\ ckpt \in [disk : Versions, dump : Guests]
  /\ vmm \in {"none", "booting", "running", "frozen"}
  /\ guest \in Guests
  /\ state \in {"Creating", "Running", "Paused", "Stopped", "Failed", "Destroyed"}
  /\ op \in {"none", "recover"} \cup DOMAIN From
  /\ step \in {"none", "spawn", "clone", "load", "boot", "ready", "clean", "sync", "freeze",
               "copy", "dump", "thaw", "publish", "kill", "remove", "mark", "done",
               "refuse", "ask"}
  /\ outcome \in {"none", "ok", "error"}
  /\ before \in Backends
  /\ saved \in {"none", "Running", "Paused", "Stopped", "Failed", "Destroyed"}
  /\ behind \in BOOLEAN /\ faults \in Regimes

(* The server lives through this behaviour.                                *)
ServerLives == faults \cap {"crash", "exit"} = {}

(* "IDs, keys and file contents survive the restart"                       *)
(* (docs/remote-agent-runtime.md:163): what a client synced to its disk is *)
(* there whenever its guest runs.                                          *)
ContentsSurvive == vmm = "running" /\ running => guest.ver >= acked

(* While the server lives, no sequence of pause, resume, stop and start,   *)
(* with calls that fail or are dropped among them, puts an older root file *)
(* system under a sandbox: what a client synced stays.                     *)
AckedWritesSurvive == ServerLives => ContentsSurvive

(* While the server lives, a guest never runs on a disk other than the one *)
(* its memory goes with.                                                   *)
GuestMatchesDisk == ServerLives /\ vmm = "running" => guest.sees = rootfs

(* While no call is served, the checkpoint of a paused sandbox whose       *)
(* directory is there is whole, and its files are of one instant, wherever *)
(* a call failed, was dropped or the process was killed; unless the server *)
(* has recovered it from a file that still said "Paused" after a resume,   *)
(* when the next capture may have been half done.                          *)
PausedIsWhole ==
  state = "Paused" /\ op = "none" /\ dir /\ ~behind =>
    Complete /\ ckpt.dump.sees = ckpt.disk

(* "Startup errors now terminate the child and remove the failed           *)
(* directory" (docs/sandbox-feasibility-report.md:37): no VMM is left      *)
(* behind a sandbox that is not running.                                   *)
NoVmmLeft == op = "none" /\ ~running => vmm = "none"

(* Where no call fails or is dropped, every call returns, also on a guest  *)
(* that was captured, killed with the server and recovered.                *)
CallsReturn ==
  op # "none" /\ faults \cap {"error", "cancel"} = {} ~> op = "none"

(* The backend implements the contract the control plane is written to.    *)
Contract == INSTANCE SandboxBackend WITH
  backend <- IF op = "none" THEN Holds ELSE before,
  op <- IF op = "recover" THEN "start" ELSE op
ImplementsContract == Contract!Spec
=============================================================================
