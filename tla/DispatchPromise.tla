---------------------------- MODULE DispatchPromise ----------------------------
(***************************************************************************)
(* What a gm dispatch promises its caller, with no spool, no polling and   *)
(* no daemon process in sight.  A request is written at most once, runs at *)
(* most once, and is either withdrawn before it ran or ends in one answer; *)
(* a call returns exactly once and never says anything of the request that *)
(* is not so: "answered" carries the request's own answer, "withdrawn" and *)
(* "nothing written" name a request that did not run and never will.       *)
(***************************************************************************)
CONSTANTS Call,    \* invocations of the dispatch tool
          Task,    \* request names
          Answer,  \* what a finished request may have answered
          None     \* no task, no answer

VARIABLES request,   \* [Task -> the life of the request]
          answer,    \* [Task -> its answer, None until it is done]
          reply,     \* [Call -> what the call returned, None while open]
          subject    \* [Call -> the task the call is about]

promiseVars == <<request, answer, reply, subject>>

Life     == {"unwritten", "queued", "running", "done", "withdrawn"}
NotSent  == "nothing_written"
Withdrew == "withdrawn"
Pending  == "pending"       \* timed out, aborted, or nothing known: ask again
Replied(c) == reply[c] # None

Init == /\ request = [t \in Task |-> "unwritten"]
        /\ answer  = [t \in Task |-> None]
        /\ reply   = [c \in Call |-> None]
        /\ subject = [c \in Call |-> None]

\* A call takes up a task: a new one, or one an earlier call left pending.
Open(c, t) ==
    /\ subject[c] = None
    /\ subject' = [subject EXCEPT ![c] = t]
    /\ UNCHANGED <<request, answer, reply>>

Write(t) ==
    /\ request[t] = "unwritten"
    /\ \E c \in Call : subject[c] = t /\ ~Replied(c)
    /\ request' = [request EXCEPT ![t] = "queued"]
    /\ UNCHANGED <<answer, reply, subject>>

Run(t) ==
    /\ request[t] = "queued"
    /\ request' = [request EXCEPT ![t] = "running"]
    /\ UNCHANGED <<answer, reply, subject>>

Finish(t, a) ==
    /\ request[t] = "running"
    /\ request' = [request EXCEPT ![t] = "done"]
    /\ answer'  = [answer EXCEPT ![t] = a]
    /\ UNCHANGED <<reply, subject>>

Say(c, r) ==
    /\ subject[c] # None
    /\ ~Replied(c)
    /\ reply' = [reply EXCEPT ![c] = r]
    /\ UNCHANGED <<answer, subject>>

Answered(c) ==
    /\ subject[c] # None
    /\ request[subject[c]] = "done"
    /\ Say(c, answer[subject[c]])
    /\ UNCHANGED request

\* Only the call that wrote a request may refuse to write it.
SayNotSent(c) ==
    /\ subject[c] # None
    /\ request[subject[c]] = "unwritten"
    /\ Say(c, NotSent)
    /\ UNCHANGED request

SayWithdrew(c) ==
    /\ subject[c] # None
    /\ request[subject[c]] = "queued"
    /\ Say(c, Withdrew)
    /\ request' = [request EXCEPT ![subject[c]] = "withdrawn"]

SayPending(c) == Say(c, Pending) /\ UNCHANGED request

Next ==
    \/ \E c \in Call, t \in Task : Open(c, t)
    \/ \E t \in Task : Write(t) \/ Run(t)
    \/ \E t \in Task, a \in Answer : Finish(t, a)
    \/ \E c \in Call : Answered(c) \/ SayNotSent(c) \/ SayWithdrew(c) \/ SayPending(c)

Spec == Init /\ [][Next]_promiseVars
================================================================================
