---------------------------- MODULE MCSpoolDispatch ----------------------------
(* Two calls on a read-once request and two listings of one session, and     *)
(* three calls on one plain-text request.                                    *)
EXTENDS SpoolDispatchInv, TLC

CONSTANTS c1, c2, c3, t1, t2, t3

Alike == Permutations(Call) \cup Permutations({t2, t3})

OnePlain      == [t \in Task |-> "plain"]
NoListing     == [t \in Task |-> {}]

SecretListing == [t \in Task |-> IF t = t1 THEN "secret" ELSE "listing"]
OneSession    == [t \in Task |-> {u \in Task : SecretListing[t] = "listing" /\ SecretListing[u] = "listing"}]
================================================================================
