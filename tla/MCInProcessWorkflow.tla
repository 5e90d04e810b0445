------------------------ MODULE MCInProcessWorkflow ------------------------
(* A definition of a sequential step, which one of the two workflows has no *)
(* handler for, three parallel ones through a pool of two, and a sequential *)
(* step that may throw synchronously.                                       *)
EXTENDS InProcessWorkflow

MCGroupOf == [s \in 1 .. 5 |-> IF s = 1 THEN 1 ELSE IF s = 5 THEN 3 ELSE 2]
MCRegistered == [w \in Workflows |-> IF w = "partial" THEN 2 .. 5 ELSE 1 .. 5]
=============================================================================
