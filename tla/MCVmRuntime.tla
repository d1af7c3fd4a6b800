----------------------------- MODULE MCVmRuntime -----------------------------
(* Small instances of the control plane for TLC.                           *)
EXTENDS VmRuntime, TLC

Symmetry == Permutations(Clients)
=============================================================================
