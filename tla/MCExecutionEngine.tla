-------------------------- MODULE MCExecutionEngine --------------------------
(* ExecutionEngine as it is: its constants are given in the .cfg.           *)
EXTENDS ExecutionEngine
=============================================================================
