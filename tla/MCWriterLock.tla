------------------------------ MODULE MCWriterLock ------------------------------
(* consolidate alone, in one checkout, with git commands that may fail.      *)
EXTENDS WriterLock

LandingInit == LockInit /\ WorkInit
LandingSpec == LandingInit /\ [][WorkStep /\ UNCHANGED writerVars]_<<writerVars, workVars>>
=================================================================================
