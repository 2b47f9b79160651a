--------------------------------- MODULE MCHost ---------------------------------
(* One run over what a server does on its host and that shares no state: a   *)
(* behaviour is one of them, the others rest in one initial state.           *)
EXTENDS Reaper, BundleDrift

CONSTANTS v1, u1, u2

VARIABLE subject

HostInit ==
    /\ ReapInit /\ DriftInit
    /\ subject \in {"reap", "drift"}
    /\ subject # "drift" => entry.bundle = "A"

Reaps(A) == subject = "reap" /\ A /\ UNCHANGED <<subject, driftVars>>
Drifts(A) == subject = "drift" /\ A /\ UNCHANGED <<subject, reapVars>>

HostNext == Reaps(ReapNext) \/ Drifts(DriftNext)

hostVars == <<subject, reapVars, driftVars>>

\* The fairness of each component, of its steps in a behaviour of its own.
HostFairness ==
    /\ WF_hostVars(Reaps(SweepStep))
    /\ \A p \in Pid : WF_hostVars(Reaps(Ages(p))) /\ WF_hostVars(Reaps(p \in struck /\ Ends(p)))
    /\ \A s \in DriftServer : /\ WF_hostVars(Drifts(DriftStep(s)))
                              /\ SF_hostVars(Drifts(Stats(s) /\ drift'[s].asker = {}))

HostSpec == HostInit /\ [][HostNext]_hostVars /\ HostFairness
=================================================================================
