------------------------------- MODULE Agentd -------------------------------
(***************************************************************************)
(* Commands in a guest (bins/agentd) and the requests for them on the      *)
(* host: vm-runtime holds the record lock of the sandbox for the whole     *)
(* call, agentd runs every request on a thread of its own.  A pipe is the  *)
(* number of units in it; a program is one of four ways to use its pipes.  *)
(***************************************************************************)
EXTENDS Naturals, FiniteSets

CONSTANTS Cmds,      \* run requests, each with the command id agentd gives it
          Kills,     \* kill requests
          Pids,      \* process ids of the guest; free ones are used again
          None,
          InCap, OutCap,  \* what the stdin pipe and an output pipe hold
          Requests,  \* what may be asked for: a program, its stdin, a timeout
          Faults     \* what may go wrong in this instance

(* filter: writes what it reads, ends with its input; ignore: ends without *)
(* reading; sleep: does neither; daemon: ends, and leaves a process behind *)
(* that has inherited its pipes.                                           *)
Programs == {"filter", "ignore", "sleep", "daemon"}

ASSUME AgentdAssumption ==
  /\ None \notin Cmds \cup Kills \cup Pids
  /\ Cmds \cap Kills = {}
  /\ InCap \in Nat \ {0} /\ OutCap \in Nat \ {0}
  /\ Requests \subseteq [prog : Programs, size : Nat, patient : BOOLEAN]
  /\ Faults \subseteq {"drop", "guess"}

VARIABLES
  ask,            \* the requests; a patient one has a timeout that is long
                  \* compared with all the guest does
  host,           \* the run request on the host
  lock,           \* who holds the sandbox's record lock
  kill,           \* the kill requests
  pc,             \* where run() is in the guest
  child, pid,     \* the direct child of each run
  heir,           \* a process the child left behind holds its pipes
  unfed, inPipe, outPipe,
  answer,         \* what became of the run
  registry        \* RUNNING_COMMANDS

callers  == <<host, lock>>
pipes    == <<unfed, inPipe, outPipe>>
process  == <<child, pid, heir>>
vars == <<ask, callers, kill, pc, process, pipes, answer, registry>>

Idle == [at |-> "idle", id |-> None, pid |-> None, told |-> FALSE]
Done == [Idle EXCEPT !.at = "done"]

Init ==
  /\ ask = [c \in Cmds |-> None]
  /\ host = [c \in Cmds |-> "idle"] /\ lock = None
  /\ kill = [k \in Kills |-> Idle]
  /\ pc = [c \in Cmds |-> "off"]
  /\ child = [c \in Cmds |-> "none"] /\ pid = [c \in Cmds |-> None]
  /\ heir = [c \in Cmds |-> FALSE]
  /\ unfed = [c \in Cmds |-> 0]
  /\ inPipe = [c \in Cmds |-> 0] /\ outPipe = [c \in Cmds |-> 0]
  /\ answer = [c \in Cmds |-> "none"]
  /\ registry = [c \in {} |-> None]

Registered == DOMAIN registry
Unreaped == {c \in Cmds : child[c] \in {"alive", "exited"}}
FreePids == Pids \ {pid[c] : c \in Unreaped}

-----------------------------------------------------------------------------
(* The host.                                                               *)

Unlock(owner) == lock' = IF lock = owner THEN None ELSE lock

SendRunShared(c, request) ==
  /\ host[c] = "idle"
  /\ ask' = [ask EXCEPT ![c] = request]
  /\ host' = [host EXCEPT ![c] = "waiting"]
  /\ pc' = [pc EXCEPT ![c] = "spawn"]
  /\ UNCHANGED <<lock, kill, process, pipes, answer, registry>>

SendRun(c, request) ==
  /\ host[c] = "idle" /\ lock = None
  /\ ask' = [ask EXCEPT ![c] = request]
  /\ lock' = c /\ host' = [host EXCEPT ![c] = "waiting"]
  /\ pc' = [pc EXCEPT ![c] = "spawn"]
  /\ UNCHANGED <<kill, process, pipes, answer, registry>>

(* The HTTP client goes away: the handler and its lock guard are dropped,  *)
(* and the guest's thread does not notice.                                 *)
DropRun(c) ==
  /\ "drop" \in Faults /\ host[c] = "waiting"
  /\ host' = [host EXCEPT ![c] = "dropped"] /\ Unlock(c)
  /\ UNCHANGED <<ask, kill, pc, process, pipes, answer, registry>>

SendKill(k, c) ==
  /\ kill[k].at = "idle" /\ lock = None
  /\ host[c] = "told" \/ "guess" \in Faults
  /\ lock' = k
  /\ kill' = [kill EXCEPT ![k] =
                [at |-> "sent", id |-> c, pid |-> None, told |-> host[c] = "told"]]
  /\ UNCHANGED <<ask, host, pc, process, pipes, answer, registry>>

DropKill(k) ==
  /\ "drop" \in Faults /\ lock = k
  /\ lock' = None
  /\ UNCHANGED <<ask, host, kill, pc, process, pipes, answer, registry>>

-----------------------------------------------------------------------------
(* agentd: run().                                                          *)

Goto(c, next) == pc' = [pc EXCEPT ![c] = next]
(* The run is decided; agentd's ends of the pipes are closed.              *)
Outcome(c, result) ==
  /\ answer' = [answer EXCEPT ![c] = result] /\ Goto(c, "leave")
  /\ unfed' = [unfed EXCEPT ![c] = 0]
  /\ inPipe' = [inPipe EXCEPT ![c] = 0] /\ outPipe' = [outPipe EXCEPT ![c] = 0]

Spawn(c) ==
  /\ pc[c] = "spawn"
  /\ \E p \in FreePids : pid' = [pid EXCEPT ![c] = p]
  /\ child' = [child EXCEPT ![c] = "alive"]
  /\ unfed' = [unfed EXCEPT ![c] = ask[c].size]
  /\ Goto(c, "enter")
  /\ UNCHANGED <<ask, callers, kill, heir, inPipe, outPipe, answer, registry>>

SpawnFailsUnnoticed(c) ==
  /\ pc[c] = "spawn"
  /\ Goto(c, "enter")
  /\ UNCHANGED <<ask, callers, kill, process, pipes, answer, registry>>

SpawnFails(c) ==
  /\ pc[c] = "spawn"
  /\ Outcome(c, "error")
  /\ UNCHANGED <<ask, callers, kill, process, registry>>

(* The pid is registered although the child may already have ended; only   *)
(* this thread reaps it, so the pid is still its own.                      *)
Enter(c) ==
  /\ pc[c] = "enter"
  /\ registry' = [d \in Registered \cup {c} |-> IF d = c THEN pid[c] ELSE registry[d]]
  /\ Goto(c, "feed")
  /\ UNCHANGED <<ask, callers, kill, process, pipes, answer>>

HasReader(c) == child[c] = "alive" \/ heir[c]

(* write_all of the whole input, before any output is read; the guard on   *)
(* the room in the pipe is the write that does not return.  A request      *)
(* without stdin is fed nothing either, but its child has agentd's own     *)
(* stdin in the code (main.rs:214), here a pipe that is closed at once.    *)
Feed(c) ==
  /\ pc[c] = "feed" /\ unfed[c] > 0 /\ HasReader(c) /\ inPipe[c] < InCap
  /\ unfed' = [unfed EXCEPT ![c] = @ - 1]
  /\ inPipe' = [inPipe EXCEPT ![c] = @ + 1]
  /\ UNCHANGED <<ask, callers, kill, pc, process, outPipe, answer, registry>>

(* What becomes of a child whose handle is dropped: kill_on_drop.          *)
DroppedNotKilled(c) == child[c]
Dropped(c) == IF child[c] = "alive" THEN "exited" ELSE child[c]

Abandon(c) ==
  /\ child' = [child EXCEPT ![c] = Dropped(c)]
  /\ UNCHANGED <<pid, heir>>

(* EPIPE: the program has ended without reading its input.                 *)
FeedFails(c) ==
  /\ pc[c] = "feed" /\ unfed[c] > 0 /\ ~HasReader(c)
  /\ Abandon(c) /\ Outcome(c, "error")
  /\ UNCHANGED <<ask, callers, kill, registry>>

Fed(c) ==
  /\ pc[c] = "feed" /\ unfed[c] = 0
  /\ Goto(c, "drain")
  /\ UNCHANGED <<ask, callers, kill, process, pipes, answer, registry>>

(* wait_with_output(): reads both outputs and waits for the exit together. *)
Drain(c) ==
  /\ pc[c] = "drain" /\ outPipe[c] > 0
  /\ outPipe' = [outPipe EXCEPT ![c] = @ - 1]
  /\ UNCHANGED <<ask, callers, kill, pc, process, unfed, inPipe, answer, registry>>

Reaped(c) ==
  /\ child' = [child EXCEPT ![c] = "reaped"] /\ pid' = [pid EXCEPT ![c] = None]

Reap(c) ==
  /\ child[c] = "exited" /\ pc[c] = "drain"
  /\ Reaped(c)
  /\ UNCHANGED <<ask, callers, kill, pc, heir, pipes, answer, registry>>

Finish(c) ==
  /\ pc[c] = "drain" /\ child[c] = "reaped" /\ outPipe[c] = 0 /\ ~heir[c]
  /\ Outcome(c, "code")
  /\ UNCHANGED <<ask, callers, kill, process, registry>>

LeaveUnlessTimedOut(c) ==
  /\ pc[c] = "leave"
  /\ registry' = [d \in {r \in Registered : r # c \/ answer[c] = "timeout"} |-> registry[d]]
  /\ Goto(c, "reply")
  /\ UNCHANGED <<ask, callers, kill, process, pipes, answer>>

Leave(c) ==
  /\ pc[c] = "leave"
  /\ registry' = [d \in Registered \ {c} |-> registry[d]]
  /\ Goto(c, "reply")
  /\ UNCHANGED <<ask, callers, kill, process, pipes, answer>>

(* The answer carries the command id: nobody was told it before.           *)
Reply(c) ==
  /\ pc[c] = "reply"
  /\ Goto(c, "done")
  /\ host' = [host EXCEPT ![c] = IF @ = "waiting" THEN "told" ELSE @]
  /\ Unlock(c)
  /\ UNCHANGED <<ask, kill, process, pipes, answer, registry>>

(* tokio's orphan queue, for children whose handle was dropped.            *)
ReapOrphan(c) ==
  /\ child[c] = "exited" /\ pc[c] \in {"leave", "reply", "done"}
  /\ Reaped(c)
  /\ UNCHANGED <<ask, callers, kill, pc, heir, pipes, answer, registry>>
-----------------------------------------------------------------------------
(* The programs.                                                           *)

Echo(c) ==
  /\ child[c] = "alive" /\ ask[c].prog = "filter"
  /\ inPipe[c] > 0 /\ outPipe[c] < OutCap
  /\ inPipe' = [inPipe EXCEPT ![c] = @ - 1]
  /\ outPipe' = [outPipe EXCEPT ![c] = @ + 1]
  /\ UNCHANGED <<ask, callers, kill, pc, process, unfed, answer, registry>>

EndOfInputNever(c) == FALSE
EndOfInput(c) == pc[c] \notin {"spawn", "enter", "feed"} /\ inPipe[c] = 0

Exit(c) ==
  /\ child[c] = "alive"
  /\ ask[c].prog \in {"ignore", "daemon"} \/ (ask[c].prog = "filter" /\ EndOfInput(c))
  /\ child' = [child EXCEPT ![c] = "exited"]
  /\ heir' = [heir EXCEPT ![c] = ask[c].prog = "daemon"]
  /\ UNCHANGED <<ask, callers, kill, pc, pid, pipes, answer, registry>>

-----------------------------------------------------------------------------
(* The timer around spawn, feed and wait.                                  *)

Stuck(c) ==
  \/ child[c] # "alive"
  \/ ask[c].prog = "sleep"
  \/ ask[c].prog = "filter" /\ ~EndOfInput(c) /\ (inPipe[c] = 0 \/ outPipe[c] = OutCap)

(* Nothing but the timer can get this command on.                          *)
Blocked(c) ==
  /\ HasReader(c) /\ Stuck(c)
  /\ \/ pc[c] = "feed" /\ unfed[c] > 0 /\ inPipe[c] = InCap
     \/ pc[c] = "drain" /\ outPipe[c] = 0 /\ child[c] # "exited"

TimedOutWaiting(c) == pc[c] = "drain"
TimedOut(c) == pc[c] \in {"enter", "feed", "drain"}

Timeout(c) ==
  /\ TimedOut(c)
  /\ ask[c].patient => Blocked(c)
  /\ Abandon(c) /\ Outcome(c, "timeout")
  /\ UNCHANGED <<ask, callers, kill, registry>>

-----------------------------------------------------------------------------
(* agentd: Kill.  The registry's mutex is released before the signal.      *)

Lookup(k) ==
  LET c == kill[k].id IN
  /\ kill[k].at = "sent"
  /\ kill' = [kill EXCEPT ![k] = IF c \in Registered
                 THEN [@ EXCEPT !.at = "found", !.pid = registry[c]]
                 ELSE Done]
  /\ IF c \in Registered THEN lock' = lock ELSE Unlock(k)
  /\ UNCHANGED <<ask, host, pc, process, pipes, answer, registry>>

Holding(p) == {c \in Unreaped : pid[c] = p}

Signal(k) ==
  /\ kill[k].at = "found"
  /\ child' = [c \in Cmds |-> IF c \in Holding(kill[k].pid) THEN "exited" ELSE child[c]]
  /\ kill' = [kill EXCEPT ![k] = Done]
  /\ Unlock(k)
  /\ UNCHANGED <<ask, host, pc, pid, heir, pipes, answer, registry>>

-----------------------------------------------------------------------------
RunStep(c) ==
  \/ Spawn(c) \/ SpawnFails(c) \/ Enter(c) \/ Feed(c) \/ FeedFails(c) \/ Fed(c)
  \/ Drain(c) \/ Reap(c) \/ Finish(c) \/ Timeout(c)
  \/ Leave(c) \/ Reply(c) \/ ReapOrphan(c)
ProgramStep(c) == Echo(c) \/ Exit(c)
KillStep(k) == Lookup(k) \/ Signal(k)

Next ==
  \/ \E c \in Cmds, request \in Requests : SendRun(c, request)
  \/ \E c \in Cmds : DropRun(c) \/ RunStep(c) \/ ProgramStep(c)
  \/ \E k \in Kills, c \in Cmds : SendKill(k, c)
  \/ \E k \in Kills : DropKill(k) \/ KillStep(k)

(* The thread, the timer and the program of a command run on, together; no *)
(* request has to be made and no kill to be handled.                       *)
Fairness == \A c \in Cmds : WF_vars(RunStep(c) \/ ProgramStep(c))

Spec == Init /\ [][Next]_vars
FairSpec == Spec /\ Fairness

-----------------------------------------------------------------------------
Stages == {"off", "spawn", "enter", "feed", "drain", "leave", "reply", "done"}
Running(c) == pc[c] \notin {"off", "done"}

TypeOK ==
  /\ ask \in [Cmds -> Requests \cup {None}]
  /\ host \in [Cmds -> {"idle", "waiting", "told", "dropped"}]
  /\ lock \in Cmds \cup Kills \cup {None}
  /\ kill \in [Kills -> [at : {"idle", "sent", "found", "done"}, id : Cmds \cup {None},
                         pid : Pids \cup {None}, told : BOOLEAN]]
  /\ pc \in [Cmds -> Stages]
  /\ child \in [Cmds -> {"none", "alive", "exited", "reaped"}]
  /\ pid \in [Cmds -> Pids \cup {None}] /\ heir \in [Cmds -> BOOLEAN]
  /\ unfed \in [Cmds -> Nat]
  /\ inPipe \in [Cmds -> 0..InCap] /\ outPipe \in [Cmds -> 0..OutCap]
  /\ answer \in [Cmds -> {"none", "code", "error", "timeout"}]
  /\ Registered \subseteq Cmds /\ registry \in [Registered -> Pids]

(* A kill that names a command its caller was told of finds nothing: ids   *)
(* are only told with the result, when the registry has forgotten them, so *)
(* a pid that is used again is never struck in their name.                 *)
KnownKillMisses ==
  \A k \in Kills : kill[k].told => kill[k].at # "found"

(* A command that runs in the guest without the sandbox's record lock is   *)
(* one whose caller has gone: the others never run two at a time, and no   *)
(* kill is handled beside them.                                            *)
UnlockedRunsAreDropped ==
  \A c \in Cmds : Running(c) => lock = c \/ host[c] = "dropped"

(* Whatever way a run ends (exit, EPIPE, timeout), the registry has        *)
(* forgotten it before it answers, and until then names its own child.     *)
RegistryIsExact ==
  \A c \in Cmds :
    /\ c \in Registered =>
         /\ pc[c] \in {"feed", "drain", "leave"}
         /\ c \in Unreaped => registry[c] = pid[c]
    /\ pc[c] \in {"feed", "drain"} => c \in Registered

(* No direct child outlives its run: not an answer, not a timeout.         *)
NoChildSurvives ==
  \A c \in Cmds : child[c] = "alive" => pc[c] \in {"enter", "feed", "drain"}

(* stdin is written whole before output is read: with a timeout that is    *)
(* long enough, a program that writes what it reads times out only on an   *)
(* input that fills both pipes.                                            *)
OnlyBigInputsTimeOut ==
  \A c \in Cmds :
    answer[c] = "timeout" /\ ask[c].patient /\ ask[c].prog = "filter"
      => ask[c].size > InCap + OutCap

(* Every run ends, with its child reaped, whatever the program does and    *)
(* whether or not somebody waits for it.                                   *)
RunsEnd ==
  \A c \in Cmds :
    pc[c] = "spawn" ~> pc[c] = "done" /\ child[c] \in {"none", "reaped"}
=============================================================================
