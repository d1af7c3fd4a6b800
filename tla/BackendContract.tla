--------------------------- MODULE BackendContract ---------------------------
(***************************************************************************)
(* What the control plane may rely on of a SandboxBackend: the effect of   *)
(* each call on what the backend holds, when it succeeds, when it fails    *)
(* and when its future is dropped.  VmRuntime is written against these     *)
(* operators; SandboxBackend turns them into a specification, which        *)
(* FirecrackerBackend implements.                                          *)
(***************************************************************************)

(* What a backend holds.  Without a directory it is "absent".  With the    *)
(* `running` flag cleared it is "idle", or "stray" when a start that did   *)
(* not end well has left a VMM process; with the flag set its VMM serves   *)
(* ("running"), is left paused by a capture that did not end ("frozen"),   *)
(* or has been terminated ("dead").                                        *)
Backends == {"absent", "idle", "stray", "running", "frozen", "dead"}
Flagged == {"running", "frozen", "dead"}

Starts == {"create", "start", "resume"}

(* The operation can succeed on a backend that holds b.  (pause() compares *)
(* the flag first, and a removed directory may have either.)               *)
Serves(o, b) ==
  CASE o \in Starts \cup {"destroy"}          -> b # "absent"
    [] o \in {"pause", "checkpoint"}          -> b \notin {"frozen", "dead"}
    [] o \in {"use", "peek", "snapshot"}      -> b = "running"
    [] OTHER                                  -> TRUE

(* What it then holds.  start() on a backend whose flag says running and   *)
(* pause() on one whose flag says idle return at once, whatever VMM is     *)
(* there.                                                                  *)
After(o, b) ==
  CASE o \in Starts /\ b \in {"idle", "stray"}              -> "running"
    [] o \in {"pause", "checkpoint"} /\ b \in Flagged       -> "idle"
    [] o = "stop" /\ b # "absent"                            -> "idle"
    [] o = "destroy"                                         -> "absent"
    [] OTHER                                                 -> b

(* What an error may leave.  A start that fails before the guest runs      *)
(* removes the directory; one whose VMM does not open its socket, or whose *)
(* agent does not answer, leaves the directory, and may leave the VMM.  A  *)
(* failed capture may leave the guest paused.  destroy() has terminated    *)
(* the VMM when it fails to remove the directory.                          *)
Broken(o, b) ==
  CASE o \in Starts /\ b \in {"idle", "stray"}                -> {"idle", "stray", "absent"}
    [] o \in {"pause", "checkpoint", "snapshot"} /\ b = "running" -> {"running", "frozen"}
    [] o = "destroy" /\ b \in Flagged                         -> {"dead"}
    [] o = "destroy" /\ b = "stray"                           -> {"idle"}
    [] OTHER                                                  -> {b}

(* The operations that may return an error: none of those that only        *)
(* compare the flag, and not stop(), which ignores what kill() returns.    *)
CanBreak(o, b) ==
  /\ o # "stop"
  /\ ~(o \in Starts /\ b \in Flagged)
  /\ ~(o \in {"pause", "checkpoint"} /\ b \in {"idle", "stray"})

(* What an operation whose future is dropped half way may leave: any of    *)
(* its steps may have been the last one.                                   *)
Interrupted(o, b) ==
  {b} \cup Broken(o, b)
      \cup (IF o \in {"pause", "checkpoint", "stop"} /\ b \in Flagged THEN {"dead"} ELSE {})
      \cup (IF o = "stop" /\ b = "stray" THEN {"idle"} ELSE {})
      \cup (IF o = "destroy" THEN {"absent"} ELSE {})

(* What is left of it when the whole process ends during operation o: the  *)
(* VMM dies with its parent, the directory stays unless o was removing it. *)
Orphaned(o, b) ==
  IF b = "absent" THEN {"absent"}
  ELSE {"idle"} \cup (Interrupted(o, b) \cap {"absent"})
=============================================================================
