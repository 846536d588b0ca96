-------------------------- MODULE MCStackSupervisor --------------------------
(* StackSupervisor with its four processes, for TLC. *)
EXTENDS StackSupervisor

CONSTANTS postgres, neo4j, llmSvc, backend

MCLeaves == {postgres, neo4j, llmSvc}
MCSups == {postgres, neo4j, llmSvc, backend}

=============================================================================
