---------------------------- MODULE MCRunnerEnsure ----------------------------
(* Two gm-mcp processes that dispatch to one project, and two runner pids.    *)
EXTENDS RunnerEnsure

CONSTANTS p1, p2, r1, n1, n2
================================================================================
