-------------------------------- MODULE MCLive --------------------------------
(* One run over the components of a server that keep no state in common: a   *)
(* behaviour is one of them, the others rest in their initial states.        *)
EXTENDS Feeds, SkillGate, ColdStart, TLC

CONSTANTS c1, c2

VARIABLE subject

MCSessions ==
    { c1 :> "resolve" @@ c2 :> kind : kind \in {"instruction", "stop"} }

\* Each specification's own steps, with the other components at rest.
LiveInit ==
    /\ FeedsInit /\ GateInit /\ ColdInit
    /\ subject \in {"feeds", "gate", "cold"}

Feeds_(A) == subject = "feeds" /\ A /\ UNCHANGED <<subject, gateVars, coldVars>>
Gates(A) == subject = "gate" /\ A /\ UNCHANGED <<subject, feedVars, coldVars>>
Colds(A) == subject = "cold" /\ A /\ UNCHANGED <<subject, feedVars, gateVars>>

LiveNext == Feeds_(FeedsNext) \/ Gates(GateNext) \/ Colds(ColdNext)

liveVars == <<subject, feedVars, gateVars, coldVars>>

\* The fairness of each component, of its steps in a behaviour of its own.
LiveFairness ==
    /\ WF_liveVars(Feeds_(Tick)) /\ WF_liveVars(Feeds_(Warn))
    /\ \A c \in Call : WF_liveVars(Feeds_(FeedStep(c))) /\ WF_liveVars(Feeds_(LookupStep(c)))
    /\ WF_liveVars(Gates(Poll)) /\ WF_liveVars(Gates(ReadState)) /\ WF_liveVars(Gates(Apply))
    /\ WF_liveVars(Gates(Backstop)) /\ WF_liveVars(Gates(ListAgain))
    /\ WF_liveVars(Colds(Receive)) /\ WF_liveVars(Colds(IdleLoad)) /\ WF_liveVars(Colds(Connect))
    /\ WF_liveVars(Colds(SdkReply)) /\ WF_liveVars(Colds(ColdEnd)) /\ WF_liveVars(Colds(Recheck))
    /\ WF_liveVars(Colds(ColdBreak))

LiveSpec == LiveInit /\ [][LiveNext]_liveVars /\ LiveFairness

\* The type invariants of the components.
LiveTypeOK == FeedsTypeOK /\ GateTypeOK /\ ColdTypeOK

(* The state is typed; a row named as the next one was so when it was asked   *)
(* for; and the SDK meets one legal session.                                 *)
SessionsInv == LiveTypeOK /\ NextRowIsFresh /\ OneSession
===============================================================================
