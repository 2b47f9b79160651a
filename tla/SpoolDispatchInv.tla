---------------------------- MODULE SpoolDispatchInv ----------------------------
(***************************************************************************)
(* The inductive invariant behind the safety properties of SpoolDispatch.  *)
(* Each conjunct says which call or daemon may still touch a request, and  *)
(* how the pieces of state that are written at different times agree.      *)
(***************************************************************************)
EXTENDS SpoolDispatch

\* Stages before the request is written.
Unpublished == {"preflight", "owner", "publish"}

\* A call takes a task when it begins, keeps it, and has an answer only after that.
CallsKeepTheirTask ==
    \A c \in Call :
        /\ pc[c] = "idle" <=> task[c] = None
        /\ pc[c] = "idle" => reply[c] = "open" /\ got[c] = Absent
        /\ pc[c] = "returned" <=> reply[c] # "open"

\* A request still to be written belongs to one call, which will write it or give up.
WriterIsAlone ==
    \A c, d \in Call :
        pc[c] \in Unpublished /\ task[d] = task[c] => d = c

UnpublishedIsUnwritten ==
    \A c \in Call : pc[c] \in Unpublished => ticket[task[c]] = "unwritten" /\ ~resuming[c]

WrittenIsTaken ==
    \A t \in Task : ticket[t] # "unwritten" => \E c \in Call : task[c] = t

\* How often a request ran can be read off the place of its file.
RunsFollowTicket ==
    \A t \in Task :
        runs[t] = IF ticket[t] \in {"unwritten", "queued", "withdrawn"} THEN 0 ELSE 1

\* Only a request that was claimed is served or answered.
OnlyClaimedLand ==
    \A t \in Task : t \in mine \/ landed[t] # Absent => runs[t] = 1

\* What is on disk, and what a call has read, is what the daemon wrote.
AnswersAgree ==
    /\ \A t \in Task : out[t] # Absent => out[t] = landed[t]
    /\ \A c \in Call : got[c] # Absent => got[c] = landed[task[c]]
    /\ \A c \in Call : pc[c] = "finish" \/ reply[c] = "answered" => got[c] # Absent
    /\ \A c \in Call : got[c] # Absent => pc[c] \in {"finish", "returned"}
    /\ \A c \in Call : pc[c] = "read" \/ reply[c] = "unreadable" => landed[task[c]] # Absent

\* A call that said a request was withdrawn, or never written, stays right.
RefusalsStayTrue ==
    \A c \in Call :
        /\ reply[c] = "withdrawn" => ticket[task[c]] = "withdrawn"
        /\ reply[c] \in Unsent => ticket[task[c]] = "unwritten"

PrunesListings == \A c \in Call : before[c] \subseteq {t \in Task : Kind[t] = "listing"}

IInv ==
    /\ TypeOK
    /\ CallsKeepTheirTask
    /\ WriterIsAlone
    /\ UnpublishedIsUnwritten
    /\ WrittenIsTaken
    /\ RunsFollowTicket
    /\ OnlyClaimedLand
    /\ AnswersAgree
    /\ RefusalsStayTrue
    /\ PrunesListings
    /\ NoAnswerLostUnread
    /\ ReadOnceLeavesNoFile
================================================================================
