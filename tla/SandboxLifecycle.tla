--------------------------- MODULE SandboxLifecycle ---------------------------
(***************************************************************************)
(* What the control plane promises about its sandboxes, as an abstract     *)
(* specification: each moves along SandboxState::can_transition_to         *)
(* (crates/runtime-types), and a change that was answered survives the end *)
(* of the process.  One whose request is still under way may be in the     *)
(* file or not.  How requests wait for each other does not show here.      *)
(***************************************************************************)
CONSTANTS
  Sandboxes,      \* ids of sandboxes
  WithSecrets     \* sandboxes whose request carries secrets

VARIABLES
  process,  \* "up" or "down"
  made,     \* ids for which a sandbox was made: none is made twice
  state,    \* the state of each sandbox the process knows, "none" of others
  saved,    \* the same in the file the next process reads
  unsaved   \* sandboxes with a request under way that may have changed them

vars == <<process, made, state, saved, unsaved>>

States == {"Creating", "Running", "Paused", "Stopped", "Failed", "Destroyed"}

(* can_transition_to, without the steps from a state to itself.            *)
Successors ==
  [Creating  |-> {"Running", "Failed", "Destroyed"},
   Running   |-> {"Paused", "Stopped", "Failed", "Destroyed"},
   Paused    |-> {"Running", "Stopped", "Failed", "Destroyed"},
   Stopped   |-> {"Running", "Failed", "Destroyed"},
   Failed    |-> {"Destroyed"},
   Destroyed |-> {}]

(* Only a failed first start is answered and not saved.                    *)
Agree(file, memory) == file = memory \/ (memory = "Failed" /\ file = "none")

Init ==
  /\ process = "up" /\ made = {} /\ unsaved = {}
  /\ state = [s \in Sandboxes |-> "none"]
  /\ saved = [s \in Sandboxes |-> "none"]

Become(s, next) == state' = [state EXCEPT ![s] = next]

Make(s) ==
  /\ process = "up" /\ s \in Sandboxes \ made
  /\ made' = made \cup {s}
  /\ \/ Become(s, "Running") /\ unsaved' = unsaved \cup {s}
     \/ Become(s, "Failed") /\ UNCHANGED unsaved
  /\ UNCHANGED <<process, saved>>

Change(s) ==
  /\ process = "up" /\ state[s] # "none"
  /\ unsaved' = unsaved \cup {s}
  /\ \E next \in Successors[state[s]] : Become(s, next)
  /\ UNCHANGED <<process, made, saved>>

(* A destroyed sandbox is forgotten; that may be asked for again.          *)
Forget(s) ==
  /\ process = "up" /\ s \in made /\ state[s] \in {"Destroyed", "none"}
  /\ unsaved' = unsaved \cup {s}
  /\ Become(s, "none") \/ UNCHANGED state
  /\ UNCHANGED <<process, made, saved>>

(* The file is replaced.  It agrees with memory on every sandbox, except   *)
(* where requests are under way; even there it names no sandbox that was   *)
(* not made, and drops none that is not being destroyed.                   *)
Save ==
  /\ process = "up"
  /\ unsaved' \subseteq unsaved
  /\ saved' \in [Sandboxes -> States \cup {"none"}]
  /\ \A s \in Sandboxes :
       /\ s \notin unsaved' => Agree(saved'[s], state[s])
       /\ saved'[s] # "none" => s \in made
       /\ saved'[s] = "none" => saved[s] = "none" \/ state[s] \in {"Destroyed", "none"}
  /\ UNCHANGED <<process, made, state>>

(* What is not in the file is lost; a sandbox in the making is not made.   *)
End ==
  /\ process = "up" /\ process' = "down"
  /\ state' = saved /\ unsaved' = {}
  /\ made \subseteq made' /\ made' \subseteq Sandboxes
  /\ UNCHANGED saved

(* Secrets are not in the file: their sandboxes come back FAILED.          *)
Restart ==
  /\ process = "down" /\ process' = "up"
  /\ state' = [s \in Sandboxes |->
                 IF s \in WithSecrets /\ saved[s] # "none" THEN "Failed" ELSE saved[s]]
  /\ saved' = state'
  /\ UNCHANGED <<made, unsaved>>

Next ==
  \/ \E s \in Sandboxes : Make(s) \/ Change(s) \/ Forget(s)
  \/ Save \/ End \/ Restart

Spec == Init /\ [][Next]_vars
===============================================================================
