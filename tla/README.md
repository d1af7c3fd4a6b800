# VentoAgentRuntime: specification, model checking and proofs

This directory is a TLA+ development of the agent runtime: the control plane that creates,
pauses, resumes, checkpoints and destroys sandboxes, the Firecracker backend it drives, the agent
that runs commands in a guest, and, of the document parser beside it, the OCR jobs and the
table grid. Paths below are relative to `src/`; `vm-runtime` is `crates/vm-runtime/src/lib.rs`,
`firecracker` is `crates/firecracker-runtime/src/lib.rs`, `server` is
`bins/vento-runtime-server/src/main.rs`, `agentd` is `bins/agentd/src/main.rs`, `paddle`,
`image_pass` and `runtime.rs` are files of `crates/file-parser/src` (`ocr/`), `table.rs` is its `model/table.rs`.

1. Inventory of the system — 2. Modules and how they correspond to the code — 3. Runs —
4. Bounds and fairness — 5. Proofs — 6. Findings — 7. Known limits — 8. Not modelled — 9. Plan

## 1. Inventory

| component | state it keeps | operations | interacts through |
|---|---|---|---|
| control plane (`vm-runtime`) | the `sandboxes` and `snapshots` maps, one `Arc<Mutex<SandboxRecord>>` per sandbox, the `idempotency` map, `create_guard`, `persist_guard`, `control-plane.json` | create, start, pause, resume, stop, destroy, commands and file operations, snapshot, delete_snapshot, reap_idle, checkpoint_for_shutdown, persist, new_persistent | called by server tasks; calls one backend per record; reads and writes the file |
| backend contract (`SandboxBackend`, `SandboxBackendFactory` in `vm-runtime`) | none of its own | create, recover, start, pause, checkpoint, stop, destroy, snapshot, agent requests | the trait between control plane and backends |
| Firecracker backend (`firecracker`) | one directory per sandbox (`rootfs.ext4`, `paused/`), the VMM child, the flags `running` and `paused_snapshot` | the trait's calls, each a sequence of HTTP requests to the VMM, file copies and agent requests | spawns and kills a VMM; vsock to agentd |
| runtime server (`server`) | the reaper task, the shutdown future | routes to the control plane, `spawn_reaper`, `shutdown_signal`, `main` | runs the control plane's futures, drops them when a client disconnects |
| shared types (`crates/runtime-types`) | none | `SandboxState` and its transitions, validation | data of all parts |
| guest agent (`bins/agentd`) | `RUNNING_COMMANDS` (pid per command), children and their pipes | run, kill, read, write, list, remove, sync | frames over vsock from the backend |
| agent protocol (`crates/agent-protocol`) | none | framing with a length limit, guest path policy | backend and agentd |
| in-memory backend (`vm-runtime`) | none that matters | the trait, for tests | replaces Firecracker in tests |
| CLI and Node bindings (`bins/vento-runtime-cli`, `bindings/*`) | none | HTTP calls, conversions | clients of the server |
| OCR jobs (`paddle`, `image_pass`, `runtime.rs`) | a semaphore and a set of tasks per document; the attempt, the deadline and the request of each call | run_image_ocr, recognize (submit, poll, fetch), format_page_ranges | called per document; HTTP to the OCR service |
| document parser (`crates/file-parser`) | a parse context per call; of it, `GridBuilder`: rows, pending positions, expansion budget | decoders per format; next_row, place, covered, finish | a library, separate from the runtime |
| PDF engine (`crates/pdf-engine`) | a parse context per call | sequential decoder | used by the document parser |

How the runtime's parts interact. Every request is a tokio task that runs one handler of the
control plane. The handler looks up the record, waits for its mutex, checks the state
(`require_state`), calls the backend while it holds that mutex, changes the state, releases, and
then awaits `persist()`, which serializes on `persist_guard`, locks every record in turn, then the
index, and writes a temporary file which it renames. Two daemons use the same
operations: the reaper lists overdue sandboxes and then acts on the list, and the shutdown
future checkpoints every running sandbox before the process ends. On start-up
`new_persistent` loads the file and lets the factory recover every sandbox.

What makes each part correct, and what is hard about it:

- *Control plane*: one sandbox per idempotency key although look-up, creation and binding lie
  awaits apart; four kinds of mutex without a cycle of waiters; no call on a destroyed backend
  by a handler that waited; what was answered is in the file; the file equals memory when
  nothing runs; the state shown agrees with what the backend holds; the reaper makes progress.
  The hard part is that a handler can be dropped at every await (client disconnects), every
  backend call and file operation can fail, and the process can be killed between any two steps.
- *Firecracker backend*: no data synced by a client is lost, guest memory is never resumed on another disk than the one it
  belongs to, a paused sandbox has a whole checkpoint, no VMM outlives the sandbox it serves, and
  every call has only the effects the control plane expects. The hard part is that each call is a
  long sequence of steps on files and a process, any of which fails or is the last.
- *agentd*: the registry of running commands is exact while pids are used again, pipes do not
  stop a run for good, no child outlives its run, every run ends. The hard part is that the client may go away,
  the timeout may fire and a kill may arrive between any two steps, and that the program does with its pipes what it likes.
- *OCR jobs*: calls in flight, jobs made and time spent are bounded although the service may answer late, never
  or with errors, and the conversion ends. The hard part is time: four timers that overlap.
- *Table grid*: every position exactly once, whatever spans overlap, within a budget. The hard part is that
  three operations in any order meet spans of earlier rows.
- *Protocol, PDF engine*: legal requests fit a frame; decoding.

`PROJECT.json` lists the hazards with their lines and the properties aimed at each.

## 2. Modules

| module | what it is | code |
|---|---|---|
| `BackendContract` | pure operators: the effect of each call on what a backend holds (`"absent"`; with the `running` flag cleared `"idle"`, or `"stray"` when a VMM process was left; with the flag set `"running"`, `"frozen"` by a capture that did not end, or `"dead"`, its VMM terminated) when it succeeds (`After`), fails (`Broken`), is dropped (`Interrupted`), or the process ends (`Orphaned`) | trait `SandboxBackend` |
| `SandboxBackend` | the abstract specification of a backend: one call at a time with one of these outcomes | trait and factory |
| `FirecrackerBackend` | the detailed specification of one sandbox on Firecracker, step by step | `firecracker` |
| `VmRuntime` | the control plane, its reaper and shutdown, crash and restart, over the operators of `BackendContract` | `vm-runtime`, `server` |
| `SandboxLifecycle` | the abstract specification of the control plane: what a client sees of each sandbox, what the file has of it, and what a crash and a restart may do to it | `runtime-types`, `vm-runtime` |
| `MCVmRuntime` | symmetry of the model values for TLC | |
| `Agentd`, `MCAgentd` | commands in a guest and the host's requests for them | `agentd`, `vm-runtime` |
| `OcrJobs`, `MCOcrJobs` | the image pass and the calls to the OCR service, in ticks | `image_pass`, `paddle`, `runtime.rs` |
| `TableGrid` | the builder of table grids | `table.rs` |
| `VmRuntimeProofs`, `VmRuntimeSafetyProofs`, `VmRuntimeDurabilityProofs`, `FirecrackerProofs`, `FirecrackerDataProofs`, `AgentdProofs`, `OcrJobsProofs`, `TableGridProofs` | theorems and proofs | |

The two levels meet in the contract: `VmRuntime` changes `backend[s]` only as `BackendContract`
says, and `FirecrackerBackend` is shown — by TLC and by proof — to implement `SandboxBackend`,
which allows exactly those changes. Above both stands `SandboxLifecycle`, which `VmRuntime` is shown to implement
(`ImplementsLifecycle`, by TLC and by proof).

### VmRuntime

State. `boxes`, `info`, `keys`, `snaps` are the maps of `RuntimeInner` and the state of each record;
`due` holds the records whose `expires_at_ms` has passed; `used` the ids handed out;
`lock[s]`, `idemLock`, `createGuard`, `persistGuard` the holders of the mutexes;
`pc`, `call`, `todo`, `image`, `expired` the local variables of a task; `tmp` and `disk` the
two files; `detached` file operations on the blocking pool whose future was dropped; `madeFor` and
`told` are history. `server` is `"up"`, `"draining"` (axum accepts no more requests) or `"down"`.

Granularity. One action is the code between two awaits that another task can distinguish. A
mutex that is taken and released within one such piece of code is tested for being free but never shown as held
(`CreateLookup` on a miss, `CreateBind`, `DestroyUnbind`, `PersistCapture`, `PersistIndex`); one
that is held over an await is a state (`createGuard` over the whole creation and its
persist, `idemLock` while a replay waits for the record because the guard of the `if let`
scrutinee lives to the end of the block, `persistGuard`, `lock[s]` during a backend call).

| code (`vm-runtime`) | actions |
|---|---|
| `create` | `BeginCreate`, `CreateGuard`, `CreateLookup`, `CreateReplay`, `CreateMake`, `CreateMakeFails`, `CreateBoot`, `CreateBootFails`, `CreateBind`, then persist |
| `start`, `pause`, `resume`, `stop`, `destroy`, `snapshot`, `run_command`/`write_file` (`use`), `kill_command`/`read_file`/`list_dir`/`remove` (`peek`) | `BeginOp`, `LockRecord`, `BackendOk`, `BackendFails`, for destroy `DestroyUnmap`, `DestroyUnbind`, then persist (not for `peek`) |
| `delete_snapshot` | `DeleteSnapshot`, then persist |
| `persist` | `PersistBegin`, `PersistCapture` (per record), `PersistSnapshots`, `PersistIndex`, `PersistWrite`, `PersistRename`, `PersistFails` |
| `reap_idle`, `spawn_reaper` | `Expire`, `ReapBegin`, `ReapList`, `ReapFilter`, `ReapAct`, then the operation |
| `checkpoint_for_shutdown`, `shutdown_signal`, `main` | `ShutdownBegin`, `ShutdownVisit`, `ShutdownDone`, `Exit` |
| a handler's future dropped | `Cancel` (at any await), `Detached` |
| the process killed, `new_persistent` | `Crash`, `Restart`, `RestartFails` |

`update_state` has a refusal of its own, which would come after the backend was called. It is no action: `TransitionsAreLegal`, checked and
proved with every fault, says that what it tests is always so.

The refinement (`Lifecycle`). The abstract `state` of a sandbox is its record in memory while the process runs (`Shown`, `"none"` if there is
none) and its entry in the file while it does not (`View`); `made` holds the ids whose first start is over (`Made`); `saved` is the
file; `unsaved` the sandboxes with a request that changed them and is not answered yet (`Unsaved`). A boot becomes `Make`, the end of a lifecycle
call `Change`, the two halves of a destroy `Forget`, a rename `Save`, the end of the process `End`; every other step — waiting for a mutex, capturing, writing — is a
stutter. `Save` says what is owed: outside `unsaved` the file agrees with memory.

### FirecrackerBackend

State. `dir`, `rootfs`, `ckpt` are the directory and its files; file and memory contents are
version numbers: `guest.ver` is the newest version the guest wrote, `guest.sees` what it
believes is on its disk. `vmm`, `running`, `pausedSnapshot` are the process and the flags; `state` is the
record's state in the control plane's memory, whose guards (`From`) decide what is called when, and `saved` the state
`control-plane.json` has, which lags behind it until some request's `persist()` gets the record (`Save`). `step` is
the next step of the call being served. `faults` is drawn from `Regimes` at the start and says what may go wrong in this
behaviour. `written`, `acked`, `before`, `behind` are history; `behind` is set when a restart finds a file older than
memory and cleared by the next capture.

| code (`firecracker`) | actions |
|---|---|
| factory `create` / `recover` | `Make` / `Recover`, `RecoverFails` |
| `start`, `resume` | `Begin`, `Spawn`, `CloneRootfs`, `LoadSnapshot` or `ConfigureFresh`, `BootstrapAgent`; errors `StartFails`, `Cleanup`, `BootFails`; `NothingToDo` when the flag says running |
| `pause`, `checkpoint`, `snapshot` | `Sync`, `Freeze`, `CopyRootfs`, `DumpMemory`, then `Terminate`, `Mark` or `Thaw`, `Publish`; `CaptureFails` |
| `stop`, `destroy` | `Terminate`, `Remove`, `RemoveFails`, `Mark` |
| `agent_request` | `Use`, `UseFails` |
| `persist` of the control plane, as far as this sandbox goes | `Save` |
| guest, environment | `GuestWrites`, `GuestFlushes`, `Cancel`, `Crash`, `Exit` |

Abstractions: `remove_dir_all` is one step; vmstate and memory are one file (`dump`); the data
of persistent snapshots is not followed; a request to a frozen guest waits for ever, as the code
has no timeout on it. `Exit` is the end of `main` for a sandbox the shutdown has checkpointed and saved; one it did
not reach — with secrets, started meanwhile, or behind another's failed checkpoint — loses its VMM like in a `Crash`.

The refinement (`Contract`): the abstract `backend` is what the concrete state amounts to (`Holds`) between
calls, and what it amounted to when the call began (`before`) during one, so a call takes
effect when it returns. What an error leaves is shown as it is: a VMM behind a cleared flag (`"stray"`, after an error of
`bootstrap_agent`, firecracker:334), a set flag without a VMM (`"dead"`, after a destroy that failed to remove the directory,
firecracker:364). `Recover` of a running sandbox is the contract's `start`.

### Agentd

State. `ask` is the request; `host`, `lock`, `kill` are the HTTP requests and the record lock of the
sandbox; `pc`, `answer` are where `run()` is in its guest thread; `child`, `pid`, `heir` the process, its pid until it is
reaped, and whether a process it left behind holds its pipes; `unfed`, `inPipe`, `outPipe` count
units of input and output; `registry` is `RUNNING_COMMANDS`. A program is one of four ways to use pipes.
Stdout and stderr are one pipe: `wait_with_output` drains both at once.

| code | actions |
|---|---|
| `run_command` / `kill_command` (vm-runtime), the client gone | `SendRun`, `SendKill`, `DropRun`, `DropKill` |
| `run` (agentd:199) | `Spawn`, `SpawnFails`, `Enter`, `Feed`, `FeedFails`, `Fed`, `Drain`, `Reap`, `Finish`, `Timeout`, `Leave`, `Reply` |
| `Kill` (agentd:176) | `Lookup`, `Signal` |
| programs, kernel, tokio | `Echo`, `Exit`, `ReapOrphan` |

### OcrJobs

State. `queue` and `permits` are the contents for which no task was spawned and the semaphore; `task[b]` is where the call for
content `b` is or how it ended; `attempt`, `left` (ticks of the current request or sleep) and `age` (of the
call) its counters and timers; `jobs` counts what the service was made to do. `Document` is the one call for a scanned PDF or a standalone
image, which needs no permit and has no outer timeout.

| code | actions |
|---|---|
| `run_image_ocr` | `Spawn`, `Prepared`, `Panics`, `TimesOut` |
| `submit_job`, `wait_for_result_url`, `recognize` | `Answers` (`Submitting`, `Polling`, `Fetching`), `Capped`, `Wakes` |
| `format_page_ranges` | `Ranges`, which is `Visit` folded along the pages in order (`InOrder`, `Scan`) |
| time | `Tick`, which no timer that is due lets pass |

### TableGrid

State. `grid` maps positions to slots, `width` gives the length of each row, `pending` is the builder's map, `expansion` its
budget. `NextRow`, `Place`, `Refuse` (the `ResourceLimit` error), `Marker` (`covered`) and `Finish` are the methods; the loops of the code
are stated by what they find (`FirstFree`, `ColumnsClamp`, `RowsClamp`, `Reach`, `Blank`). After an error no front end goes on, but the model may.

## 3. Runs

| run | question | result |
|---|---|---|
| `VmRuntime_crash` | backend calls fail and the server is killed between any two steps of destroy, start, stop and snapshot requests on two sandboxes, one with secrets, and restarts; no keys | `DurableTracksAnswers`, `AnsweredIsSaved`, `RunningHasFlag`, `DestroyedIsLeftAlone` hold, `SandboxLifecycle` is implemented |
| `VmRuntime_lifecycle` | clients that create, pause and resume disconnect at any await, backend and file operations fail, the server is killed, shut down and restarted, on one sandbox | `TypeOK`, `LockDiscipline`, `IdleHasNoFlag`, `TransitionsAreLegal` hold |
| `VmRuntime_keys` | two clients create, replay and destroy with one key, the reaper pauses and destroys, on two sandboxes, one with secrets; backend calls fail | `OneSandboxPerKey`, `KeysTrackAnswers` hold |
| `VmRuntime_progress` | two clients create, replay, use, resume and destroy one sandbox, and the reaper pauses it, all contending for all mutexes; no failures | every request is `Answered`, `IdleIsReaped` |
| `Firecracker_backend` | errors and dropped calls in one life of the server; kills, exits and restarts from a file that may lag; both together — at every step | `AckedWritesSurvive`, `GuestMatchesDisk`, `PausedIsWhole`, `TypeOK`, `CallsReturn`, `ImplementsContract` hold |
| `Agentd_commands` | two commands of any kind, a kill with a known or a guessed id, clients that go away, pids used again, timeouts | all seven properties hold |
| `OcrJobs_conversion` | four images, two of them equal, with two permits, or one scanned document; a service that may do anything | all six properties hold |
| `TableGrid_build` | every way to build a grid of two rows with spans written as 0, 2 or 3 | all five properties hold |
| `VmRuntime_unbound_key`, `VmRuntime_lost_directory`, `Firecracker_stale_checkpoint`, `Firecracker_startup_error` | statements of the docs and comments the code does not keep | counterexamples, section 6 |

Why several runs of the control plane: each enables the faults its properties are stated for, and only
the requests and daemons that matter to them, so that the state space stays small enough to be
explored completely. So the key conjunct of `AnsweredIsSaved` is vacuous in `VmRuntime_crash`, which has no keys (the late
read of the index is explored by `VmRuntime_keys`), `VmRuntime_lifecycle` has no destroy, and `VmRuntime_progress` no sandbox with secrets; the proofs
of section 5 have none of these bounds, except that liveness is not proved. `Firecracker_backend` draws one of three
sets of faults at the start of each behaviour, and each property says which behaviours it speaks of: `ServerLives` for
the two about data, no `"error"` or `"cancel"` for `CallsReturn`, all of them for the others. The properties in words stand above their definitions.

`CHECK_DEADLOCK FALSE`: the system may stop when ids run out, when the process is down and a
record cannot be recovered, when the guest has used up its writes, or when commands, images or rows are used up. That tasks do not wait on each other
for ever is what `Answered`, `CallsReturn`, `RunsEnd` and `ConversionEnds` say.

## 4. Bounds and fairness

- Tasks: two clients, the reaper and the shutdown future. Mutexes are the only
  way tasks wait for each other; the longest chain of waiters (replay → record → persist → index) has
  three tasks. Sandboxes: two where the order of records in `persist()`, keys or the reaper's list matters, one
  otherwise. Keys: one, as keys interact only through the mutexes, which are shared. A sandbox or
  snapshot id is used once (`new_id`), so `Sandboxes` and `Snapshots` bound how often
  one is created; `SnapshotIdLeft` names the bound for snapshots.
- `MaxWrites = 4`: one write before, one between and one after two captures, and one more.
- `Expire(s)` may happen at any time: the reaper's tick and lifetimes are arbitrary durations. `due` keeps its value over a restart as `expires_at_ms` is persisted;
  that a change of it may be lost with the file is not followed.
- Fairness. A task that can go on again and again does go on
  (`SF_vars(Continue(t))`): tokio polls every ready task, its mutexes are handed over first come,
  first served, and backend calls and file operations end. The reaper's interval fires for ever (SF), time
  passes (`WF` on `Expire`), and a stopped server is restarted by its service manager. Nothing is
  assumed of clients and faults. In `FirecrackerBackend` only the call being served is driven on.
- `Agentd_commands`: two commands suffice for a pid used again by the other and for two at a time in
  one guest. With pipes of one unit, inputs of two units fill both and of three do not fit; a kill that is dropped may be taken up by the guest
  all the same. A `patient` command times out only when nothing else can get it on (`Blocked`), any
  other at any step. Fairness is per command and on the run and its program together: threads and processes are scheduled,
  timers fire. No kill is assumed.
- `OcrJobs_conversion`: `Retries = 2`, `Budget = 4`, `ImageTimeout = 3`, `PerRequest = 2`, `PollInterval = 1`, `Backoff = 2` ticks, so
  that an image can time out in every stage of its call, a document can pass its deadline in a poll, a nap and a download, and two attempts take as long as the
  budget. Time is fair (`WF` on `Tick`) and so is what is due; the service need never answer.
- `TableGrid_build`: `MaxRows = 2`, `MaxWidth = 3` bound rows and the width at which no more is placed; spans of 3 reach beyond both, and a budget of
  4 is spent by two cells. The proofs of section 5 have neither bound.
- `VmRuntime_progress` has no faults: an error ends a request earlier, and a lost lock is what
  `LockDiscipline` rules out under faults. Its one sandbox can be paused by the reaper, resumed and used by the clients, listed again and destroyed, in
  every order; two sandboxes with these requests are beyond a liveness check. `SF` on a task says in particular that a command in a guest ends.

## 5. Proofs

All theorems hold for every value of the constants that satisfies `TasksAssumption`, `DataAssumption`, `ImageAssumption`, `BackendAssumption`,
`AgentdAssumption`, `OcrAssumption` or `GridAssumption`: any number of clients, sandboxes, keys, snapshots, guest writes, commands, images and rows, any
faults, with or without the daemons.

- `TypeCorrect`, `MutexesAreDisciplined` (`VmRuntimeProofs`). A task at a place of a
  record operation has a record among its arguments (`Placed`, `RecordCalls`); with it the types are inductive.
  `LockDiscipline` — each mutex is held by exactly the task in its section — is inductive with
  the types: a release without a holder or a section left without a release would break it.
- `NoCallAfterDestroy`, `IdleSandboxesAreNotFlagged`, `StatesMoveLegally`, `DestroyedStaysDestroyed`, `RetriesObserveOneSandbox`
  (`VmRuntimeSafetyProofs`). The strengthening has four parts. `DownIsCold`: nothing runs while the
  process is down. `Known`: an id is in `used` before memory, a task or a file names it. `BootIsPrivate`: until it
  is inserted, a new sandbox is known to its creator only; this needs `Known`, because
  a fresh id could otherwise already be in another task's hands. `GuardHolds`: what `require_state` found stays true during the
  backend call, because only the holder of the record's mutex changes its state. From these,
  `DestroyedIsLeftAlone` is immediate, and `IdleHasNoFlag` is preserved by every step: the flag is set only in a call whose
  record ends up running. It says nothing of processes: a start that failed may leave a VMM behind a cleared flag (finding 4). `StatesMoveLegally` follows from `GuardHolds` and `BootIsPrivate`: what was allowed when the record was
  locked is allowed when its state changes.
  `DestroyedStaysDestroyed` says that no late write, crash or restart from an old file brings a destroyed sandbox back: what any copy of the file
  calls destroyed has no directory (`Buried`), no call makes one for an id in use, and a start-up from a file with such a sandbox fails instead of
  serving it.
  `RetriesObserveOneSandbox` assumes `Faults \cap {"cancel", "crash"} = {}` and no shutdown; its invariant `KeyBound` says that a live sandbox
  made for a key is bound to it or its creator is about to bind it, holding the create guard.
  `VmRuntime_unbound_key` shows that the assumption on crashes cannot be dropped; nor can the one on dropped requests: a
  create dropped between insertion and binding leaves a live sandbox without its key, and the retry makes another.
- `AnswersAreDurable`, `FileFollowsMemory`, `KeysAreDurable`, `RunningSandboxesAreFlagged` (`VmRuntimeDurabilityProofs`). `Durable` follows a sandbox from the answer to the file:
  once a create is acknowledged, the file and every image that may still replace it name the sandbox, and after a destroy none does; it holds because
  `persist_guard` makes the image renamed the newest one, and because a replay of a create waits, on the create guard, for the persist of the creator. `Carried` is
  the invariant behind `AnsweredIsSaved`: each change of a record (`StateCarried`), a key (`KeyCarried`) or the snapshots (`SnapsCarried`) is in the file, or in the
  image of the persist that runs, or its handler is still on its way to `persist()`; `Attributed` says that only a handler of the sandbox a key was made for moves that key.
  `KeysAreDurable` adds `KeyHeld` (an answered create has its key in the file, in memory and in every image about to replace the file; `persist()` reads the index
  last, so each image has the binding) and `MissesAreFree` (nobody binds the key another create has just looked up in vain: the create guard). The run that checks
  `KeysTrackAnswers` has no crashes; the theorem has.
- `LifecycleIsImplemented`, in the same module. `Fetched` (a record somebody fetched is in the map or destroyed) and
  `Remembered` (what the file has and is not destroyed is in the image that will replace it) are the rest of the invariant. Each action is then shown to leave the abstract state alone (`Quiet`) or to be one of
  its actions. All these theorems assume `Faults \cap {"cancel", "io"} = {}`: section 7 shows what happens otherwise. `RunningSandboxesAreFlagged` assumes no dropped request (a destroy dropped while it
  removes the directory leaves a RUNNING record without one) and speaks of the time before the shutdown, whose checkpoints
  leave sandboxes RUNNING with the flag cleared on purpose; its invariant `FlagBehind` adds that only the shutdown asks for checkpoints, and where it is while it does.
- `BackendTypeCorrect`, `FirecrackerImplementsContract` (`FirecrackerProofs`). The invariant `Stage` says
  of each step of a call which calls have it and what the backend held when the call began; `Flags` relates the
  record's state, the `running` flag, directory and VMM. Every action is then a step of the
  contract (`Begin`, `Succeed`, `Fail`, `Drop`, `ProcessEnds`) or a stutter.
- `FirecrackerDataProofs`. `Kept`: from the end of one capture to the beginning of the next the checkpoint's memory and disk are of one
  instant, because what is captured is the synced disk of a frozen guest; so `PausedIsWhole` holds under every set of faults, as long as memory has not been replaced by
  an older file (`behind`, section 7). `Paired` and `NotOlder`
  extend it to the running guest and to acknowledged writes; `GuestMatchesDisk` and `AckedWritesSurvive` are stated for behaviours in which the server lives
  (`ServerLives`; `FaultsAreGiven`: a behaviour keeps its set of faults), and finding 3 and section 7 show why that cannot go.
- `AgentdProofs`. One invariant relates, for each command, its stage, its child, its pid and its registry entry, says that
  unreaped children have distinct pids, and counts what is in the pipes against what was asked. From it all six safety
  properties follow for any number of commands, kills and pids and pipes of any size.
- `OcrJobsProofs`. `Permits`: permits and tasks together never exceed `Concurrency`, for sets of any size
  (`FiniteSetTheorems`). `Waiting`, `Started` and `Charged` say that the queue holds each content once and apart from
  the started ones, what a call that has not started has cost, and that a call has made no more jobs than submits (`JobsPerContent`, `NothingIsSkipped`). What the sorted list of a set is
  (`InOrderSorts`), that the deduplication keeps one of each (`UniqueKeepsOneOfEach`) and that the loop of `format_page_ranges` ends with maximal runs that cover its
  input (`Scanned` after every step, `ScanEnds`) are inductions. The prover has no rule of induction to apply here; the proofs take the least number at which the claim fails
  (`Least`, from `WFMin`) instead.
- `TableGridProofs`. `IInv` has: rows of the grid without holes; pending positions ahead; every pending or covered position in the claim of
  exactly one origin and every claimed position pending or covered; the budget an upper bound of both. It is preserved by `Place` because the
  clamps keep the new claim off all others, by `Finish` because rows that go are blank. `RowClampIsIdle` adds what no test would show: given the column clamp, the
  clamp of rows (table.rs:207) never cuts, as a position below the new cell that is pending would make the one above it pending too.

Every invariant, action property and refinement of the passing runs is proved. Only model-checked are the liveness
properties (`Answered`, `IdleIsReaped`, `CallsReturn`, `RunsEnd`, `ConversionEnds`): fairness and ENABLED are out of the prover's reach.

## 6. Findings

1. `VmRuntime_unbound_key` — `create()` inserts the record (vm-runtime:276) before it binds the key;
   a persist of another request in between saves the record without the key. After a crash the
   retry with the key makes a second live sandbox, against the comment at vm-runtime:233.
2. `VmRuntime_lost_directory` — after a crash, `recover()` of a RUNNING sandbox calls `start()`, and one error of it
   removes the directory (firecracker:331) while the file still lists the sandbox: `new_persistent` fails on it now and at every later start-up, so that
   no sandbox is served any more, against docs/remote-agent-runtime.md:157–163. Two other ways into that state: a failed first start whose FAILED
   record the next request persists (vm-runtime:261), and a crash between `backend.destroy()` (vm-runtime:357) and the end of `persist()`.
3. `Firecracker_stale_checkpoint` — pause, resume, write, stop, restart of the service, start: `recover()` takes the
   files `stop()` left in `paused/` for the sandbox's checkpoint and clones its old root file system over the
   newer one; docs/remote-agent-runtime.md:163 says contents are kept over restarts.
4. `Firecracker_startup_error` — `start()` cleans up when the checkpoint or the kernel cannot be loaded, but an error of
   `bootstrap_agent()` (firecracker:334: the guest runs, its agent does not answer in time) or of looking for the socket (firecracker:527)
   is passed on as it is: the VMM runs on behind a sandbox that is FAILED, PAUSED or STOPPED, and the directory stays.
   docs/sandbox-feasibility-report.md:37 says that startup errors now terminate the child and remove the directory.

## 7. Known limits

What the models show beyond the runs; each is reachable in the module, and no passing run states the contrary.

- The file is an image of no single instant: `persist()` reads records one after the other and the index
  last, so it can name a key whose sandbox it does not list. `AnsweredIsSaved` says what is left: the file is exact for every
  sandbox, key and snapshot no request under way may have changed.
- `transition()` answers at once when the sandbox is already in the state asked for (vm-runtime:562), even while the request that put it there still waits for its
  persist: such an answer promises nothing of the file, and neither does `AnsweredIsSaved`.
- A write that was handed to the blocking pool by a request that was then dropped lands after
  `persist_guard` was released, possibly between another persist's write and rename. With `"cancel"`,
  `DurableTracksAnswers` does not hold; it is checked with backend failures and with crashes. In `FirecrackerBackend`,
  `saved` only moves forward; there no late write takes it back.
- The replay of a create whose persist failed is answered from memory and not persisted: with `"io"`,
  `DurableTracksAnswers` does not hold either.
- `checkpoint_for_shutdown` visits the sandboxes of the moment it starts; one created meanwhile is running when the process
  ends and its memory is not saved. One failing checkpoint skips the sandboxes after it and the persist; they stay RUNNING in
  the file and restart without their memory.
- A checkpoint is overwritten in place, and `recover()` only looks whether its files exist. Create, pause and the persist of the pause; resume, whose
  `persist()` waits for another record or its turn; the guest writes; a second pause has copied the disk (firecracker:602) when the process is
  killed: the file still says PAUSED, and the sandbox is recovered with the disk of the second capture and the memory of the
  first. A later resume runs that memory on that disk, against docs/remote-agent-runtime.md:160 and 163. `PausedIsWhole` excludes
  it by `behind`; without that conjunct, TLC finds the trace (26 states). With a RUNNING file the same crash gives the same pair
  through the recovery itself, which is why `GuestMatchesDisk` is stated for behaviours in which the server lives.
- One failed resume of a paused sandbox (an error of `load_snapshot`) removes its directory, checkpoint included
  (firecracker:331), while the record stays PAUSED; docs/remote-agent-runtime.md:160 says that a later resume reuses the
  checkpoint. `PausedIsWhole` is about a sandbox whose directory is there.
- A stray VMM (finding 4) stays until the next start of the same sandbox replaces its handle, or stop, destroy or the end of the server: the
  reaper acts on RUNNING records only. While it runs it writes to the same `rootfs.ext4`.
- A failed capture leaves the guest frozen behind a RUNNING record (`RunningHasFlag` allows it); the next agent request on it waits for ever with the record
  lock. `CallsReturn` is stated for behaviours without errors. A destroy that fails to remove the directory has terminated the VMM; the record
  stays RUNNING (`"dead"`), and its agent requests fail. A partial `remove_dir_all` is not modelled: it removes all or nothing.
- resume and start do not move `expires_at_ms`: a sandbox resumed after its lifetime is reaped at the next tick. A create dropped
  while the backend boots leaves a directory no record names.
- `persist()` and the reaper wait for every record lock: one command of an hour holds up every change of any sandbox. `Answered` says that they get
  on, as its fairness has every command end.
- A guest's command runs on without the record lock when its client goes away (`UnlockedRunsAreDropped` says it is the only way), so a later pause or
  command meets it in the guest. A kill waits for that lock, and a command's id is told only with its result: a kill by an id its
  caller knows never signals anything (`KnownKillMisses`, proved).
- A command sent without stdin has agentd's own stdin (agentd:214: only `stdin: Some` is piped); in the model its input is closed at
  once. What such a command reads does not touch the registry, the lock or the child's end.
- A command that ends without reading its input loses its output and exit code (EPIPE, agentd:242). What a command leaves behind
  survives its timeout; docs/sandbox-feasibility-report.md:26 lists this as work to do.
- `timeoutMs` is documented as the "Total budget for submit + poll + result download" (paddle.rs:36), but it is only looked
  at between polls: neither the submits before the first poll, nor the poll or nap in flight, nor the download after it are cut off by it, so the call for
  a whole document may take longer. No run states the budget. "Network hiccups keep polling" (paddle.rs:259) is not what line 279
  does: a transport error ends the call. A submit refused with 429 is sent again at once. A timed-out image leaves its job upstream.
- `Cell::default()`, the filler for gaps and stray markers, has spans of 0 where the type says at least 1 (table.rs:52); renderers take it as a single cell.
  Fillers are not charged to the expansion budget; `ExpansionIsBounded` is about covered positions.

## 8. Not modelled

- Of the modelled parts: validation of request numbers, `get` and `list`, the `state_path: None`
  variant without a file, error wording, the persisted value of `expires_at_ms`, a failing persist
  at the end of `new_persistent`; preflight, jailer paths and the Firecracker HTTP client.
- agentd: the file requests and `Configure`; they act on files and an environment of the guest, whose content no property is about.
- agent protocol: two constants, two enumerations and a test on a path. Whether a legal write fits a frame is a matter of JSON's
  encoding of bytes.
- OCR jobs: parsing of the result, downscaling, placing of the texts in the Markdown.
- in-memory backend: a test stand-in. CLI and Node bindings: stateless conversions.
- Document parser beyond the table grid, PDF engine: by far the largest part of the repository's lines. They turn bytes into text in one sequential call, with generated tables
  (glyph names, character maps), geometry in floating point and thresholds found by trial. They keep no state between calls and nothing interleaves;
  whether a threshold is right is a question about documents, which a model could answer only about itself. What they share and what has
  an invariant of its own is the table grid, which is modelled and proved.

## 9. Plan

Done, in this order: `BackendContract`, `VmRuntime` with its runs, `SandboxBackend` and `FirecrackerBackend` with the
refinement, `Agentd`, `OcrJobs`, `TableGrid`, `SandboxLifecycle` with its refinement, and the proofs of section 5.

What could follow: the anchors of the Markdown renderer (`render/markdown/anchors.rs`: unique ids with suffixes that collide) and the
assembly of lists as functions over bounded inputs.
