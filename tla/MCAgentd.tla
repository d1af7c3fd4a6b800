------------------------------ MODULE MCAgentd ------------------------------
(* The requests of the run: each program, with input for both pipes, one   *)
(* unit more than they hold, or none.                                      *)
EXTENDS Agentd

Asks(program, units, long) == [prog |-> program, size |-> units, patient |-> long]
MCRequests ==
  {Asks("filter", 2, TRUE), Asks("filter", 3, TRUE), Asks("ignore", 2, TRUE),
   Asks("sleep", 0, FALSE), Asks("daemon", 1, FALSE)}
=============================================================================
