----------------------------- MODULE MCSelfUpdate -----------------------------
(* A server and self-update-now; main holds b1, then b2, and a checkout runs  *)
(* the next version.                                                          *)
EXTENDS SelfUpdate
CONSTANTS s1, c1, b1, b2, next

Mains   == <<b1, b2>>
Numbers == [b \in Build |-> CASE b = b1 -> 1 [] b = b2 -> 2 [] b = next -> 3]
================================================================================
