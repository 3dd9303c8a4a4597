------------------------ MODULE MCSandboxExecutions ------------------------
(* Two executions of one worker; the first asks for a file operation that  *)
(* needs review, and two commits may hold it at once.                      *)
EXTENDS SandboxExecutions, TLC

CONSTANTS e1, e2, o1, c1, c2

MCOwner == o1 :> e1
=============================================================================
