---------------------------- MODULE MCReleaseBridge ----------------------------
(* Two servers, two releases of each part.                                    *)
EXTENDS ReleaseBridge
CONSTANTS p1, p2
================================================================================
