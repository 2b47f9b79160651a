------------------------------- MODULE MCPublish -------------------------------
(* Two lanes of one clone that edit one file, in places that do not clash.   *)
EXTENDS Publish, TLC

CONSTANTS a, b, doc, row, closes, text0, k1

OneClone == [l \in Lane |-> k1]
EditsOf == [l \in Lane |-> {doc}]
NoDrops == [l \in Lane |-> {}]
NoPins == [l \in Lane |-> 0]
================================================================================
