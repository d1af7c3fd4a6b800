---------------------------- MODULE SandboxBackend ----------------------------
(***************************************************************************)
(* The SandboxBackend trait as the control plane uses it: one call at a    *)
(* time (the record mutex), each with one of the outcomes of               *)
(* BackendContract.  This is the abstract specification of a backend.      *)
(***************************************************************************)
EXTENDS BackendContract

VARIABLES backend,  \* what the backend holds
          op,       \* the call it is serving
          outcome   \* what the last call returned, "none" if it did not

vars == <<backend, op, outcome>>

Calls == Starts \cup {"pause", "checkpoint", "stop", "destroy", "use", "snapshot"}

Init == backend = "absent" /\ op = "none" /\ outcome = "none"

Return(result) == op' = "none" /\ outcome' = result

(* SandboxBackendFactory::create                                           *)
Make == op = "none" /\ backend = "absent" /\ backend' = "idle" /\ UNCHANGED <<op, outcome>>

Begin == op = "none" /\ op' \in Calls /\ outcome' = "none" /\ UNCHANGED backend

Succeed == /\ op # "none" /\ Serves(op, backend)
           /\ backend' = After(op, backend)
           /\ Return("ok")

Fail == /\ op # "none" /\ CanBreak(op, backend)
        /\ backend' \in Broken(op, backend)
        /\ Return("error")

Drop == /\ op # "none"
        /\ backend' \in Interrupted(op, backend)
        /\ Return("none")

ProcessEnds == backend' \in Orphaned(op, backend) /\ Return("none")

Next == Make \/ Begin \/ Succeed \/ Fail \/ Drop \/ ProcessEnds

Spec == Init /\ [][Next]_vars
=============================================================================
