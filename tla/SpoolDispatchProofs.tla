-------------------------- MODULE SpoolDispatchProofs --------------------------
(***************************************************************************)
(* Proofs about SpoolDispatch, for every set of calls and tasks, every     *)
(* assignment of kinds and listings and every cap: IInv is an inductive    *)
(* invariant, and the safety properties the runs check follow from it.     *)
(***************************************************************************)
EXTENDS SpoolDispatchInv, TLAPS

USE DEF callVars, spoolVars, daemonVars, sweepVars

\* Once a call has begun it has a task.
LEMMA TaskTaken ==
    ASSUME IInv, NEW c \in Call, pc[c] # "idle"
    PROVE  task[c] \in Task
BY DEF IInv, TypeOK, CallsKeepTheirTask

LEMMA AnsweredHasTask ==
    ASSUME IInv, NEW c \in Call, reply[c] # "open"
    PROVE  task[c] \in Task
BY DEF IInv, TypeOK, CallsKeepTheirTask

\* The initial states satisfy the invariant.
LEMMA InitHolds == Init => IInv
<1> SUFFICES ASSUME Init PROVE IInv
    OBVIOUS
<1>1. TypeOK
    BY DEF Init, TypeOK, Stages, Outcome, Replies, Places
<1>2. CallsKeepTheirTask /\ WriterIsAlone /\ UnpublishedIsUnwritten /\ PrunesListings
    BY DEF Init, CallsKeepTheirTask, WriterIsAlone, UnpublishedIsUnwritten, PrunesListings,
           Unpublished
<1>3. WrittenIsTaken /\ RunsFollowTicket /\ OnlyClaimedLand
    BY DEF Init, WrittenIsTaken, RunsFollowTicket, OnlyClaimedLand
<1>4. AnswersAgree /\ RefusalsStayTrue
    BY DEF Init, AnswersAgree, RefusalsStayTrue, Unsent
<1>5. NoAnswerLostUnread /\ ReadOnceLeavesNoFile
    BY DEF Init, NoAnswerLostUnread, Perishable, Gone, Read, ReadOnceLeavesNoFile
<1> QED BY <1>1, <1>2, <1>3, <1>4, <1>5 DEF IInv

-----------------------------------------------------------------------------
(* Steps of a call that leave the spool alone.                              *)

\* What is lost to the disk stays accounted for while those who read it do.
LEMMA ReadersStay ==
    ASSUME IInv, UNCHANGED <<task, out, landed, cleaned>>,
           \A d \in Call : /\ Read(d) => Read(d)'
                           /\ reply[d] = "unreadable" => reply'[d] = "unreadable"
    PROVE  NoAnswerLostUnread'
<1>1. \A t \in Task : (Gone(t)' => Gone(t)) /\ (Perishable(t) => Perishable(t)')
    BY DEF Gone, Perishable
<1>2. ASSUME NEW t \in Task, Kind[t] # "listing", Gone(t)'
      PROVE  /\ Perishable(t)'
             /\ \E c \in Call : task'[c] = t /\ (Read(c)' \/ reply'[c] = "unreadable")
    <2>1. Perishable(t) /\ \E c \in Call : task[c] = t /\ (Read(c) \/ reply[c] = "unreadable")
        BY <1>1, <1>2 DEF IInv, NoAnswerLostUnread
    <2>2. PICK c \in Call : task[c] = t /\ (Read(c) \/ reply[c] = "unreadable")
        BY <2>1
    <2>3. task'[c] = t
        BY <2>2
    <2>4. Read(c)' \/ reply'[c] = "unreadable"
        BY <2>2
    <2> QED BY <1>1, <2>1, <2>3, <2>4
<1> QED BY <1>2 DEF NoAnswerLostUnread

\* A running call may move on, or return with anything but an answer or a
\* withdrawal, without touching the spool.
LEMMA CallMoves ==
    ASSUME IInv, NEW c \in Call, NEW stage \in Stages, NEW r \in Replies,
           pc[c] \notin {"idle", "returned"},
           stage # "idle",
           stage = "returned" <=> r # "open",
           stage \in Unpublished => pc[c] \in Unpublished,
           stage = "finish" <=> pc[c] = "finish",
           stage = "read" => landed[task[c]] # Absent,
           r \notin {"withdrawn", "answered", "unreadable"},
           r \in Unsent => pc[c] \in Unpublished,
           pc'    = [pc EXCEPT ![c] = stage],
           reply' = [reply EXCEPT ![c] = r],
           aborted' \in [Call -> BOOLEAN],
           UNCHANGED <<task, resuming, before, got, spoolVars, daemonVars, sweepVars>>
    PROVE  IInv'
<1>1. TypeOK'
    BY DEF IInv, TypeOK
<1>2. CallsKeepTheirTask'
    BY DEF IInv, TypeOK, CallsKeepTheirTask
<1>3. WriterIsAlone'
    BY DEF IInv, TypeOK, WriterIsAlone
<1>4. UnpublishedIsUnwritten'
    BY DEF IInv, TypeOK, UnpublishedIsUnwritten
<1>5. WrittenIsTaken' /\ RunsFollowTicket' /\ OnlyClaimedLand' /\ PrunesListings'
    BY DEF IInv, WrittenIsTaken, RunsFollowTicket, OnlyClaimedLand, PrunesListings
<1>6. AnswersAgree'
    BY DEF IInv, TypeOK, AnswersAgree
<1>7. RefusalsStayTrue'
    BY DEF IInv, TypeOK, RefusalsStayTrue, UnpublishedIsUnwritten
<1>8. NoAnswerLostUnread'
    <2>1. reply[c] = "open"
        BY DEF IInv, CallsKeepTheirTask
    <2>2. \A d \in Call : /\ Read(d) => Read(d)'
                          /\ reply[d] = "unreadable" => reply'[d] = "unreadable"
        BY <2>1 DEF IInv, TypeOK, Read
    <2> QED BY <2>2, ReadersStay
<1>9. ReadOnceLeavesNoFile'
    BY DEF IInv, TypeOK, ReadOnceLeavesNoFile
<1> QED BY <1>1, <1>2, <1>3, <1>4, <1>5, <1>6, <1>7, <1>8, <1>9 DEF IInv

\* The steps of runDispatch that only look and decide.
LEMMA LooksPreserve ==
    ASSUME IInv, NEW c \in Call,
           \/ ResumeOut(c) \/ ResumeIn(c) \/ ResumeInflight(c)
           \/ PreflightRefuses(c) \/ PreflightPasses(c) \/ OwnerProbed(c)
           \/ \E r \in {"storage_full", "publish_error"} : PublishFails(c, r)
           \/ SeeLanded(c) \/ SeeDeadline(c)
           \/ RecheckEnds(c) \/ VerdictClaimed(c) \/ VerdictQueued(c)
           \/ Abort(c)
    PROVE  IInv'
<1> DEFINE Moves(stage, r) ==
        /\ pc'    = [pc EXCEPT ![c] = stage]
        /\ reply' = [reply EXCEPT ![c] = r]
        /\ aborted' \in [Call -> BOOLEAN]
        /\ UNCHANGED <<task, resuming, before, got, spoolVars, daemonVars, sweepVars>>
<1>a. reply[c] \in Replies /\ pc[c] \in Stages
    BY DEF IInv, TypeOK
<1>b. ASSUME pc[c] \notin {"idle", "returned"}
      PROVE  reply[c] = "open" /\ reply = [reply EXCEPT ![c] = "open"]
    BY <1>b DEF IInv, TypeOK, CallsKeepTheirTask
<1>c. pc = [pc EXCEPT ![c] = pc[c]] /\ aborted \in [Call -> BOOLEAN]
    BY DEF IInv, TypeOK
<1>1. CASE ResumeOut(c) \/ ResumeIn(c)
    <2>1. PICK stage \in {"poll", "resumeIn", "resumeInflight"} : Moves(stage, "open")
        BY <1>1, <1>b, <1>c DEF ResumeOut, ResumeIn, ResumeLooks, Goto
    <2> QED BY <1>1, <2>1, CallMoves
            DEF ResumeOut, ResumeIn, ResumeLooks, Stages, Replies, Unpublished, Unsent
<1>2. CASE ResumeInflight(c)
    <2>1. Moves("poll", "open") \/ Moves("returned", "unknown_task")
        BY <1>2, <1>b, <1>c DEF ResumeInflight, Goto, Return
    <2> QED BY <1>2, <2>1, CallMoves DEF ResumeInflight, Stages, Replies, Unpublished, Unsent
<1>3. CASE PreflightRefuses(c) \/ PreflightPasses(c)
    <2>1. \/ Moves("returned", "not_running")
          \/ Moves("owner", "open")
          \/ Moves("publish", "open")
        BY <1>3, <1>b, <1>c DEF PreflightRefuses, PreflightPasses, Goto, Return
    <2> QED BY <1>3, <2>1, CallMoves
            DEF PreflightRefuses, PreflightPasses, Stages, Replies, Unpublished, Unsent
<1>4. CASE OwnerProbed(c)
    <2>1. Moves("returned", "aborted_unwritten") \/ Moves("publish", "open")
        BY <1>4, <1>b, <1>c DEF OwnerProbed, Goto, Return
    <2> QED BY <1>4, <2>1, CallMoves DEF OwnerProbed, Stages, Replies, Unpublished, Unsent
<1>5. CASE \E r \in {"storage_full", "publish_error"} : PublishFails(c, r)
    <2>1. PICK r \in {"storage_full", "publish_error"} : Moves("returned", r) /\ pc[c] = "publish"
        BY <1>5, <1>c DEF PublishFails, Goto, Return
    <2> QED BY <2>1, CallMoves DEF Stages, Replies, Unpublished, Unsent
<1>6. CASE SeeLanded(c) \/ SeeDeadline(c) \/ RecheckEnds(c)
    <2>1. PICK stage \in {"read", "recheck", "verdictClaimed"} : Moves(stage, "open")
        BY <1>6, <1>b, <1>c DEF SeeLanded, SeeDeadline, RecheckEnds, Goto
    <2>2. pc[c] \notin {"idle", "returned", "finish"}
        BY <1>6 DEF SeeLanded, SeeDeadline, RecheckEnds
    <2>3. CASE SeeLanded(c)
        <3>1. landed[task[c]] # Absent
            BY <2>3, <2>2, TaskTaken DEF SeeLanded, IInv, AnswersAgree
        <3> QED BY <2>1, <2>2, <3>1, CallMoves DEF Stages, Replies, Unpublished, Unsent
    <2>4. CASE SeeDeadline(c) \/ RecheckEnds(c)
        <3>1. Moves("recheck", "open") \/ Moves("verdictClaimed", "open")
            BY <2>4, <1>b, <1>c DEF SeeDeadline, RecheckEnds, Goto
        <3> QED BY <2>2, <3>1, CallMoves DEF Stages, Replies, Unpublished, Unsent
    <2> QED BY <1>6, <2>3, <2>4
<1>7. CASE VerdictClaimed(c)
    <2>1. Moves("returned", "claimed_still_in_flight") \/ Moves("verdictQueued", "open")
        BY <1>7, <1>b, <1>c DEF VerdictClaimed, Goto, Return
    <2> QED BY <1>7, <2>1, CallMoves
            DEF VerdictClaimed, Stages, Replies, Unpublished, Unsent, TimedOut
<1>8. CASE VerdictQueued(c)
    <2>1. PICK r \in {"queued_not_yet_claimed", "no_input_file_left"} : Moves("returned", r)
        BY <1>8, <1>c DEF VerdictQueued, Goto, Return
    <2> QED BY <1>8, <2>1, CallMoves
            DEF VerdictQueued, Stages, Replies, Unpublished, Unsent, TimedOut
<1>9. CASE Abort(c)
    <2>1. Moves(pc[c], "open")
        BY <1>9, <1>b, <1>c DEF Abort
    <2>2. pc[c] \notin {"idle", "returned"}
        BY <1>9 DEF Abort
    <2>3. pc[c] = "read" => landed[task[c]] # Absent
        BY DEF IInv, AnswersAgree
    <2> QED BY <1>a, <2>1, <2>2, <2>3, CallMoves DEF Replies, Unsent
<1> QED BY <1>1, <1>2, <1>3, <1>4, <1>5, <1>6, <1>7, <1>8, <1>9

-----------------------------------------------------------------------------
(* Steps of a call that touch the spool.                                    *)

\* A call begins on a task nobody has, or takes up one that was returned.
LEMMA StartPreserves ==
    ASSUME IInv, NEW c \in Call, NEW t \in Task, NEW resume \in BOOLEAN, NEW old \in SUBSET OnDisk,
           Start(c, t, resume, old)
    PROVE  IInv'
<1> USE DEF Start, Goto
<1>a. old \subseteq Task /\ out \in [Task -> Outcome \cup {Absent}]
    BY DEF OnDisk, IInv, TypeOK
<1>b. /\ pc[c] = "idle" /\ task[c] = None /\ None \notin Task
      /\ got[c] = Absent /\ reply[c] = "open"
    BY NoneAssumption DEF IInv, CallsKeepTheirTask
<1>1. TypeOK'
    <2>1. before' \in [Call -> SUBSET Task]
        BY <1>a, ListingsAssumption DEF IInv, TypeOK, OnDisk
    <2>2. out' \in [Task -> Outcome \cup {Absent}]
        BY <1>a
    <2> QED BY <1>a, <2>1, <2>2 DEF IInv, TypeOK, Stages
<1>2. CallsKeepTheirTask'
    BY <1>b DEF IInv, TypeOK, CallsKeepTheirTask
<1>3. WriterIsAlone'
    BY <1>b DEF IInv, TypeOK, WriterIsAlone, Unpublished
<1>4. UnpublishedIsUnwritten'
    BY <1>b DEF IInv, TypeOK, UnpublishedIsUnwritten, Unpublished, WrittenIsTaken
<1>5. WrittenIsTaken'
    BY <1>b DEF IInv, TypeOK, WrittenIsTaken
<1>6. RunsFollowTicket' /\ OnlyClaimedLand'
    BY DEF IInv, RunsFollowTicket, OnlyClaimedLand
<1>7. AnswersAgree'
    BY <1>a, <1>b DEF IInv, TypeOK, AnswersAgree
<1>8. RefusalsStayTrue'
    BY <1>b DEF IInv, TypeOK, RefusalsStayTrue, Unsent
<1>9. PrunesListings'
    BY KindAssumption, ListingsAssumption DEF IInv, TypeOK, PrunesListings
<1>10. NoAnswerLostUnread'
    BY <1>a, <1>b DEF IInv, TypeOK, NoAnswerLostUnread, Perishable, Gone, Read
<1>11. ReadOnceLeavesNoFile'
    BY <1>a, <1>b, AnsweredHasTask DEF IInv, TypeOK, ReadOnceLeavesNoFile
<1> QED BY <1>1, <1>2, <1>3, <1>4, <1>5, <1>6, <1>7, <1>8, <1>9, <1>10, <1>11 DEF IInv

\* The only call that may write a request writes it.
LEMMA PublishPreserves ==
    ASSUME IInv, NEW c \in Call, Publish(c)
    PROVE  IInv'
<1> USE DEF Publish, Goto
<1>a. task[c] \in Task /\ ticket[task[c]] = "unwritten" /\ reply[c] = "open"
    BY TaskTaken DEF IInv, UnpublishedIsUnwritten, Unpublished, CallsKeepTheirTask
<1>1. TypeOK'
    BY DEF IInv, TypeOK, Stages, Places
<1>2. CallsKeepTheirTask'
    BY <1>a DEF IInv, TypeOK, CallsKeepTheirTask
<1>3. WriterIsAlone' /\ UnpublishedIsUnwritten'
    BY <1>a DEF IInv, TypeOK, WriterIsAlone, UnpublishedIsUnwritten, Unpublished
<1>4. WrittenIsTaken'
    BY <1>a DEF IInv, TypeOK, WrittenIsTaken
<1>5. RunsFollowTicket' /\ OnlyClaimedLand'
    BY <1>a DEF IInv, TypeOK, RunsFollowTicket, OnlyClaimedLand
<1>6. AnswersAgree' /\ PrunesListings'
    BY <1>a DEF IInv, TypeOK, AnswersAgree, PrunesListings
<1>7. RefusalsStayTrue'
    BY <1>a DEF IInv, TypeOK, RefusalsStayTrue, WriterIsAlone, Unpublished, Unsent
<1>8. NoAnswerLostUnread' /\ ReadOnceLeavesNoFile'
    BY DEF IInv, TypeOK, NoAnswerLostUnread, Perishable, Gone, Read, ReadOnceLeavesNoFile
<1> QED BY <1>1, <1>2, <1>3, <1>4, <1>5, <1>6, <1>7, <1>8 DEF IInv

\* An aborted call withdraws its request only while it is queued.
LEMMA AbortedReplyPreserves ==
    ASSUME IInv, NEW c \in Call, AbortedReply(c)
    PROVE  IInv'
<1>a. task[c] \in Task /\ reply[c] = "open" /\ pc[c] = "poll"
    BY TaskTaken DEF AbortedReply, IInv, CallsKeepTheirTask
<1>b. CASE ~(~resuming[c] /\ ticket[task[c]] = "queued")
    <2>1. /\ pc' = [pc EXCEPT ![c] = "returned"]
          /\ reply' = [reply EXCEPT ![c] = "aborted"]
          /\ aborted' \in [Call -> BOOLEAN]
          /\ UNCHANGED <<task, resuming, before, got, spoolVars, daemonVars, sweepVars>>
        BY <1>b DEF AbortedReply, Return, Goto, IInv, TypeOK
    <2> QED BY <1>a, <2>1, CallMoves DEF Stages, Replies, Unpublished, Unsent
<1>c. CASE ~resuming[c] /\ ticket[task[c]] = "queued"
    <2>a. /\ ticket' = [ticket EXCEPT ![task[c]] = "withdrawn"]
          /\ pc' = [pc EXCEPT ![c] = "returned"]
          /\ reply' = [reply EXCEPT ![c] = "withdrawn"]
          /\ UNCHANGED <<task, resuming, aborted, before, got,
                         out, landed, runs, cleaned, daemonVars, sweepVars>>
        BY <1>c DEF AbortedReply, Return, Goto
    <2>1. TypeOK'
        BY <2>a DEF IInv, TypeOK, Stages, Places, Replies
    <2>2. CallsKeepTheirTask'
        BY <1>a, <2>a DEF IInv, TypeOK, CallsKeepTheirTask
    <2>3. WriterIsAlone' /\ UnpublishedIsUnwritten'
        BY <1>a, <1>c, <2>a DEF IInv, TypeOK, WriterIsAlone, UnpublishedIsUnwritten, Unpublished
    <2>4. WrittenIsTaken' /\ PrunesListings'
        BY <1>a, <2>a DEF IInv, TypeOK, WrittenIsTaken, PrunesListings
    <2>5. RunsFollowTicket' /\ OnlyClaimedLand'
        BY <1>a, <1>c, <2>a DEF IInv, TypeOK, RunsFollowTicket, OnlyClaimedLand
    <2>6. AnswersAgree'
        BY <1>a, <2>a DEF IInv, TypeOK, AnswersAgree
    <2>7. RefusalsStayTrue'
        BY <1>a, <1>c, <2>a DEF IInv, TypeOK, RefusalsStayTrue, Unsent
    <2>8. NoAnswerLostUnread'
        <3>1. \A d \in Call : /\ Read(d) => Read(d)'
                              /\ reply[d] = "unreadable" => reply'[d] = "unreadable"
            BY <1>a, <2>a DEF IInv, TypeOK, Read
        <3> QED BY <2>a, <3>1, ReadersStay
    <2>9. ReadOnceLeavesNoFile'
        BY <2>a DEF IInv, TypeOK, ReadOnceLeavesNoFile
    <2> QED BY <2>1, <2>2, <2>3, <2>4, <2>5, <2>6, <2>7, <2>8, <2>9 DEF IInv
<1> QED BY <1>b, <1>c

\* What a call reads is what the daemon wrote.
LEMMA OpenReplyPreserves ==
    ASSUME IInv, NEW c \in Call, OpenReply(c)
    PROVE  IInv'
<1>a. task[c] \in Task /\ reply[c] = "open" /\ pc[c] = "read" /\ out[task[c]] \in Outcome \cup {Absent}
    BY TaskTaken DEF OpenReply, IInv, CallsKeepTheirTask, TypeOK
<1>b. /\ out[task[c]] # Absent
      /\ got' = [got EXCEPT ![c] = out[task[c]]]
      /\ pc' = [pc EXCEPT ![c] = "finish"]
      /\ UNCHANGED <<task, resuming, aborted, before, reply, spoolVars, daemonVars, sweepVars>>
    BY DEF OpenReply, Goto
<1>1. TypeOK'
    BY <1>a, <1>b DEF IInv, TypeOK, Stages
<1>2. CallsKeepTheirTask'
    BY <1>a, <1>b DEF IInv, TypeOK, CallsKeepTheirTask
<1>3. WriterIsAlone' /\ UnpublishedIsUnwritten'
    BY <1>b DEF IInv, TypeOK, WriterIsAlone, UnpublishedIsUnwritten, Unpublished
<1>4. WrittenIsTaken' /\ PrunesListings' /\ RunsFollowTicket' /\ OnlyClaimedLand'
    BY <1>b DEF IInv, WrittenIsTaken, PrunesListings, RunsFollowTicket, OnlyClaimedLand
<1>5. AnswersAgree'
    BY <1>a, <1>b DEF IInv, TypeOK, AnswersAgree
<1>6. RefusalsStayTrue'
    BY <1>b DEF IInv, RefusalsStayTrue
<1>7. NoAnswerLostUnread'
    BY <1>a, <1>b DEF IInv, TypeOK, NoAnswerLostUnread, Perishable, Gone, Read
<1>8. ReadOnceLeavesNoFile'
    BY <1>a, <1>b DEF IInv, TypeOK, ReadOnceLeavesNoFile
<1> QED BY <1>1, <1>2, <1>3, <1>4, <1>5, <1>6, <1>7, <1>8 DEF IInv

\* What a call removes when it leaves, with an answer or without, is a listing
\* or the read-once answer of its own task.
LEMMA LeavingPreserves ==
    ASSUME IInv, NEW c \in Call, NEW r \in {"answered", "unreadable"}, NEW listings \in SUBSET before[c],
           \/ pc[c] = "read" /\ r = "unreadable"
           \/ pc[c] = "finish",
           out'   = Without(listings \cup RemovedOnLeaving(c, got[c])),
           pc'    = [pc EXCEPT ![c] = "returned"],
           reply' = [reply EXCEPT ![c] = r],
           UNCHANGED <<task, resuming, aborted, before, got,
                       ticket, landed, runs, cleaned, daemonVars, sweepVars>>
    PROVE  IInv'
<1> DEFINE removed == listings \cup RemovedOnLeaving(c, got[c])
<1>a. /\ task[c] \in Task /\ reply[c] = "open" /\ landed[task[c]] # Absent
      /\ pc[c] = "finish" => got[c] # Absent
      /\ got[c] # Absent => got[c] = landed[task[c]]
    BY TaskTaken DEF IInv, CallsKeepTheirTask, AnswersAgree
<1>b. /\ out' = [t \in Task |-> IF t \in removed THEN Absent ELSE out[t]]
      /\ \A t \in removed : Kind[t] = "listing" \/ t = task[c]
      /\ got[c] = "refused" \/ Kind[task[c]] = "secret" => task[c] \in removed
      /\ task[c] \in removed /\ Kind[task[c]] # "listing" => Perishable(task[c])
    BY <1>a DEF Without, RemovedOnLeaving, ReadOnce, Perishable, Absent, IInv, PrunesListings
<1> HIDE DEF removed
<1>1. TypeOK'
    BY <1>b DEF IInv, TypeOK, Stages, Replies
<1>2. CallsKeepTheirTask'
    BY <1>a DEF IInv, TypeOK, CallsKeepTheirTask
<1>3. WriterIsAlone' /\ UnpublishedIsUnwritten'
    BY DEF IInv, TypeOK, WriterIsAlone, UnpublishedIsUnwritten, Unpublished
<1>4. WrittenIsTaken' /\ PrunesListings' /\ RunsFollowTicket' /\ OnlyClaimedLand'
    BY DEF IInv, WrittenIsTaken, PrunesListings, RunsFollowTicket, OnlyClaimedLand
<1>5. AnswersAgree'
    BY <1>a, <1>b DEF IInv, TypeOK, AnswersAgree
<1>6. RefusalsStayTrue'
    BY <1>a DEF IInv, TypeOK, RefusalsStayTrue, Unsent
<1>7. NoAnswerLostUnread'
    <2> SUFFICES ASSUME NEW t \in Task, Kind[t] # "listing", Gone(t)'
                 PROVE  /\ Perishable(t)'
                        /\ \E d \in Call : task[d] = t /\ (Read(d)' \/ reply'[d] = "unreadable")
        BY DEF NoAnswerLostUnread
    <2>1. Perishable(t)' = Perishable(t)
        BY DEF Perishable
    <2>2. reply'[c] \in {"answered", "unreadable"} /\ (Read(c)' \/ reply'[c] = "unreadable")
        BY DEF IInv, TypeOK, Read
    <2>3. CASE out[t] = Absent
        <3>1. Gone(t)
            BY <2>3 DEF Gone
        <3>2. PICK d \in Call : Perishable(t) /\ task[d] = t /\ (Read(d) \/ reply[d] = "unreadable")
            BY <3>1 DEF IInv, NoAnswerLostUnread
        <3>3. CASE d = c
            BY <2>1, <2>2, <3>2, <3>3
        <3>4. CASE d # c
            <4>1. Read(d)' = Read(d) /\ reply'[d] = reply[d]
                BY <3>4 DEF IInv, TypeOK, Read
            <4> QED BY <2>1, <3>2, <4>1
        <3> QED BY <3>3, <3>4
    <2>4. CASE out[t] # Absent
        <3>1. t = task[c] /\ t \in removed
            BY <1>b, <2>4 DEF Gone
        <3> QED BY <1>b, <2>1, <2>2, <3>1
    <2> QED BY <2>3, <2>4
<1>8. ReadOnceLeavesNoFile'
    BY <1>a, <1>b, AnsweredHasTask DEF IInv, TypeOK, ReadOnceLeavesNoFile
<1> QED BY <1>1, <1>2, <1>3, <1>4, <1>5, <1>6, <1>7, <1>8 DEF IInv

\* A call leaves readLandedOutFile with the answer, or without it.
LEMMA LeavesPreserve ==
    ASSUME IInv, NEW c \in Call,
           OpenFails(c) \/ FinishReply(c) \/ \E pruned \in BOOLEAN : FinishFails(c, pruned)
    PROVE  IInv'
<1> USE DEF Return, Goto
<1>1. CASE OpenFails(c)
    <2>1. got[c] = Absent
        BY <1>1 DEF OpenFails, IInv, AnswersAgree
    <2>2. out' = Without({} \cup RemovedOnLeaving(c, got[c])) /\ {} \in SUBSET before[c]
        BY <1>1, <2>1 DEF OpenFails
    <2> QED BY <1>1, <2>2, LeavingPreserves DEF OpenFails
<1>2. CASE FinishReply(c)
    <2>1. before[c] \in SUBSET before[c] /\ "answered" \in {"answered", "unreadable"}
        OBVIOUS
    <2> QED BY <1>2, <2>1, LeavingPreserves DEF FinishReply
<1>3. ASSUME NEW pruned \in BOOLEAN, FinishFails(c, pruned) PROVE IInv'
    <2> DEFINE listings == IF pruned THEN before[c] ELSE {}
    <2>1. listings \in SUBSET before[c]
        OBVIOUS
    <2>2. out' = Without(listings \cup RemovedOnLeaving(c, got[c]))
        BY <1>3 DEF FinishFails
    <2> HIDE DEF listings
    <2> QED BY <1>3, <2>1, <2>2, LeavingPreserves DEF FinishFails
<1> QED BY <1>1, <1>2, <1>3

-----------------------------------------------------------------------------
(* The daemon and the sweep.                                                *)

\* What only a step of the spool can disturb.
LEMMA CallsUntouched ==
    ASSUME IInv, UNCHANGED callVars
    PROVE  CallsKeepTheirTask' /\ WriterIsAlone' /\ PrunesListings'
BY DEF IInv, CallsKeepTheirTask, WriterIsAlone, PrunesListings

\* A daemon claims a queued request, which has not run.
LEMMA ClaimPreserves ==
    ASSUME IInv, NEW t \in Task, DaemonClaims(t)
    PROVE  IInv'
<1> USE DEF DaemonClaims
<1>a. CallsKeepTheirTask' /\ WriterIsAlone' /\ PrunesListings'
    BY CallsUntouched
<1>1. TypeOK'
    BY DEF IInv, TypeOK, Places
<1>2. UnpublishedIsUnwritten' /\ WrittenIsTaken' /\ RefusalsStayTrue'
    BY DEF IInv, TypeOK, UnpublishedIsUnwritten, WrittenIsTaken, RefusalsStayTrue
<1>3. RunsFollowTicket' /\ OnlyClaimedLand'
    BY DEF IInv, TypeOK, RunsFollowTicket, OnlyClaimedLand
<1>4. AnswersAgree' /\ NoAnswerLostUnread' /\ ReadOnceLeavesNoFile'
    BY DEF IInv, AnswersAgree, NoAnswerLostUnread, Perishable, Gone, Read, ReadOnceLeavesNoFile
<1> QED BY <1>a, <1>1, <1>2, <1>3, <1>4 DEF IInv

\* An answer lands once, where no call can have read one yet.
LEMMA AnswerLands ==
    ASSUME IInv, NEW t \in Task, NEW answer \in Outcome,
           runs[t] = 1, landed[t] = Absent,
           out'    = [out EXCEPT ![t] = answer],
           landed' = [landed EXCEPT ![t] = answer],
           UNCHANGED <<callVars, cleaned>>
    PROVE  AnswersAgree' /\ NoAnswerLostUnread' /\ ReadOnceLeavesNoFile'
<1>a. answer # Absent
    BY DEF Outcome, Absent
<1>b. \A c \in Call : task[c] = t => got[c] = Absent
    BY DEF IInv, AnswersAgree
<1>1. AnswersAgree'
    BY <1>a, <1>b DEF IInv, TypeOK, AnswersAgree
<1>2. NoAnswerLostUnread'
    BY <1>a DEF IInv, TypeOK, NoAnswerLostUnread, Perishable, Gone, Read
<1>3. ReadOnceLeavesNoFile'
    BY <1>b, AnsweredHasTask DEF IInv, TypeOK, AnswersAgree, ReadOnceLeavesNoFile
<1> QED BY <1>1, <1>2, <1>3

\* A claim marker that is dropped or moved aside was a claim.
LEMMA MarkersMove ==
    ASSUME IInv, NEW moved \in SUBSET {t \in Task : ticket[t] = "claimed"},
           NEW place \in {"released", "quarantined"},
           ticket' = [t \in Task |-> IF t \in moved THEN place ELSE ticket[t]],
           UNCHANGED <<callVars, runs>>
    PROVE  /\ ticket' \in [Task -> Places]
           /\ UnpublishedIsUnwritten' /\ WrittenIsTaken'
           /\ RunsFollowTicket' /\ RefusalsStayTrue'
<1>1. ticket' \in [Task -> Places]
    BY DEF IInv, TypeOK, Places
<1>2. UnpublishedIsUnwritten' /\ WrittenIsTaken'
    BY DEF IInv, TypeOK, CallsKeepTheirTask, Unpublished, UnpublishedIsUnwritten, WrittenIsTaken
<1>3. RunsFollowTicket'
    BY DEF IInv, RunsFollowTicket
<1>4. RefusalsStayTrue'
    BY AnsweredHasTask DEF IInv, TypeOK, RefusalsStayTrue, Unsent
<1> QED BY <1>1, <1>2, <1>3, <1>4

\* The daemon answers what it has claimed.
LEMMA LandPreserves ==
    ASSUME IInv, NEW t \in Task, NEW answer \in {"ok", "refused"}, DaemonLands(t, answer)
    PROVE  IInv'
<1> USE DEF DaemonLands
<1>a. CallsKeepTheirTask' /\ WriterIsAlone' /\ PrunesListings'
    BY CallsUntouched
<1>b. runs[t] = 1 /\ answer \in Outcome
    BY DEF IInv, OnlyClaimedLand, Outcome
<1>1. TypeOK'
    BY <1>b DEF IInv, TypeOK
<1>2. UnpublishedIsUnwritten' /\ WrittenIsTaken' /\ RefusalsStayTrue' /\ RunsFollowTicket'
    BY DEF IInv, UnpublishedIsUnwritten, WrittenIsTaken, RefusalsStayTrue, RunsFollowTicket
<1>3. OnlyClaimedLand'
    BY <1>b DEF IInv, TypeOK, OnlyClaimedLand
<1>4. AnswersAgree' /\ NoAnswerLostUnread' /\ ReadOnceLeavesNoFile'
    BY <1>b, AnswerLands
<1> QED BY <1>a, <1>1, <1>2, <1>3, <1>4 DEF IInv

\* The daemon drops the marker of what it has answered.
LEMMA ReleasePreserves ==
    ASSUME IInv, NEW t \in Task, DaemonReleases(t)
    PROVE  IInv'
<1> DEFINE moved == {u \in {t} : ticket[u] = "claimed"}
<1>a. CallsKeepTheirTask' /\ WriterIsAlone' /\ PrunesListings'
    BY CallsUntouched DEF DaemonReleases
<1>b. ticket' = [u \in Task |-> IF u \in moved THEN "released" ELSE ticket[u]]
    BY DEF DaemonReleases, DropMarker, IInv, TypeOK
<1>1. /\ ticket' \in [Task -> Places] /\ UnpublishedIsUnwritten' /\ WrittenIsTaken'
      /\ RunsFollowTicket' /\ RefusalsStayTrue'
    BY <1>b, MarkersMove DEF DaemonReleases
<1>2. TypeOK'
    BY <1>1 DEF DaemonReleases, IInv, TypeOK
<1>3. OnlyClaimedLand'
    BY DEF DaemonReleases, IInv, OnlyClaimedLand
<1>4. AnswersAgree' /\ NoAnswerLostUnread' /\ ReadOnceLeavesNoFile'
    BY DEF DaemonReleases, IInv, AnswersAgree, NoAnswerLostUnread, Perishable, Gone, Read, ReadOnceLeavesNoFile
<1> QED BY <1>a, <1>1, <1>2, <1>3, <1>4 DEF IInv

\* The next daemon answers a claim that was lost and clears one that was answered.
LEMMA AdoptPreserves ==
    ASSUME IInv, NEW t \in Task, DaemonAdopts(t)
    PROVE  IInv'
<1> DEFINE moved == {u \in {t} : ticket[u] = "claimed"}
<1>a. CallsKeepTheirTask' /\ WriterIsAlone' /\ PrunesListings'
    BY CallsUntouched DEF DaemonAdopts
<1>b. ticket' = [u \in Task |-> IF u \in moved THEN "released" ELSE ticket[u]]
    BY DEF DaemonAdopts, DropMarker, IInv, TypeOK
<1>c. runs[t] = 1 /\ "orphaned" \in Outcome
    BY DEF DaemonAdopts, IInv, RunsFollowTicket, Outcome
<1>1. /\ ticket' \in [Task -> Places] /\ UnpublishedIsUnwritten' /\ WrittenIsTaken'
      /\ RunsFollowTicket' /\ RefusalsStayTrue'
    BY <1>b, MarkersMove DEF DaemonAdopts
<1>2. TypeOK'
    BY <1>1, <1>c DEF DaemonAdopts, IInv, TypeOK
<1>3. OnlyClaimedLand'
    BY <1>c DEF DaemonAdopts, IInv, TypeOK, OnlyClaimedLand
<1>4. AnswersAgree' /\ NoAnswerLostUnread' /\ ReadOnceLeavesNoFile'
    <2>1. CASE landed[t] = Absent
        BY <2>1, <1>c, AnswerLands DEF DaemonAdopts
    <2>2. CASE landed[t] # Absent
        BY <2>2 DEF DaemonAdopts, IInv, AnswersAgree, NoAnswerLostUnread, Perishable, Gone, Read,
                    ReadOnceLeavesNoFile
    <2> QED BY <2>1, <2>2
<1> QED BY <1>a, <1>1, <1>2, <1>3, <1>4 DEF IInv

\* A daemon exits or starts, or the sweep reads the process table: no file moves.
LEMMA FilesStay ==
    ASSUME IInv, DaemonExits \/ Respawn \/ \E readable \in BOOLEAN : SweepMeasures(readable)
    PROVE  IInv'
<1> USE DEF DaemonExits, Respawn, SweepMeasures
<1>a. CallsKeepTheirTask' /\ WriterIsAlone' /\ PrunesListings'
    BY CallsUntouched
<1>1. TypeOK'
    BY DEF IInv, TypeOK
<1>2. UnpublishedIsUnwritten' /\ WrittenIsTaken' /\ RefusalsStayTrue' /\ RunsFollowTicket'
    BY DEF IInv, UnpublishedIsUnwritten, WrittenIsTaken, RefusalsStayTrue, RunsFollowTicket
<1>3. OnlyClaimedLand'
    BY DEF IInv, OnlyClaimedLand
<1>4. AnswersAgree' /\ NoAnswerLostUnread' /\ ReadOnceLeavesNoFile'
    BY DEF IInv, AnswersAgree, NoAnswerLostUnread, Perishable, Gone, Read, ReadOnceLeavesNoFile
<1> QED BY <1>a, <1>1, <1>2, <1>3, <1>4 DEF IInv

\* The sweep moves claims aside.
LEMMA SweepPreserves ==
    ASSUME IInv, SweepMoves
    PROVE  IInv'
<1> DEFINE moved == {t \in Task : ticket[t] = "claimed" /\ t \notin liveSeen}
<1>a. CallsKeepTheirTask' /\ WriterIsAlone' /\ PrunesListings'
    BY CallsUntouched DEF SweepMoves
<1>b. ticket' = [t \in Task |-> IF t \in moved THEN "quarantined" ELSE ticket[t]]
    BY DEF SweepMoves
<1>1. /\ ticket' \in [Task -> Places] /\ UnpublishedIsUnwritten' /\ WrittenIsTaken'
      /\ RunsFollowTicket' /\ RefusalsStayTrue'
    BY <1>b, MarkersMove DEF SweepMoves
<1>2. TypeOK'
    BY <1>1 DEF SweepMoves, IInv, TypeOK
<1>3. OnlyClaimedLand'
    BY DEF SweepMoves, IInv, OnlyClaimedLand
<1>4. AnswersAgree' /\ NoAnswerLostUnread' /\ ReadOnceLeavesNoFile'
    BY DEF SweepMoves, IInv, AnswersAgree, NoAnswerLostUnread, Perishable, Gone, Read, ReadOnceLeavesNoFile
<1> QED BY <1>a, <1>1, <1>2, <1>3, <1>4 DEF IInv

-----------------------------------------------------------------------------
(* The theorems.                                                            *)

\* A step that changes nothing keeps the invariant.
LEMMA StutterPreserves == IInv /\ UNCHANGED vars => IInv'
BY DEF vars, IInv, TypeOK, CallsKeepTheirTask, WriterIsAlone, UnpublishedIsUnwritten,
       WrittenIsTaken, RunsFollowTicket, OnlyClaimedLand, AnswersAgree, RefusalsStayTrue,
       PrunesListings, NoAnswerLostUnread, Perishable, Gone, Read, ReadOnceLeavesNoFile

(* Every step of a call, of a daemon or of the sweep keeps the invariant,   *)
(* so a spool that starts empty keeps it for ever.                          *)
THEOREM Invariance == Spec => []IInv
<1>1. IInv /\ [Next]_vars => IInv'
    <2> SUFFICES ASSUME IInv, [Next]_vars PROVE IInv'
        OBVIOUS
    <2>1. CASE \E c \in Call, t \in Task, resume \in BOOLEAN :
                 \E old \in SUBSET OnDisk : Start(c, t, resume, old)
        BY <2>1, StartPreserves
    <2>2. CASE \E c \in Call : CallStep(c) \/ Abort(c)
        BY <2>2, LooksPreserve, PublishPreserves, AbortedReplyPreserves, OpenReplyPreserves,
           LeavesPreserve DEF CallStep
    <2>3. CASE DaemonStep
        BY <2>3, ClaimPreserves, LandPreserves, ReleasePreserves, AdoptPreserves, FilesStay
           DEF DaemonStep
    <2>4. CASE SweepStep
        BY <2>4, FilesStay, SweepPreserves DEF SweepStep
    <2>5. CASE UNCHANGED vars
        BY <2>5, StutterPreserves
    <2> QED BY <2>1, <2>2, <2>3, <2>4, <2>5 DEF Next
<1> QED BY <1>1, InitHolds, PTL DEF Spec

(* Every variable of calls, spool, daemon and sweep keeps its type.         *)
THEOREM TypeCorrect == Spec => []TypeOK
BY Invariance, PTL DEF IInv

(* No mix of timeouts, resumes, aborts, daemon exits and sweeps makes a     *)
(* request run twice.                                                       *)
THEOREM RunsOnce == Spec => []RunsAtMostOnce
<1>1. IInv => RunsAtMostOnce
    BY DEF IInv, RunsFollowTicket, RunsAtMostOnce
<1> QED BY <1>1, Invariance, PTL

(* request_withdrawn_before_claim: true is never said of a request that has *)
(* run or will run.                                                         *)
THEOREM Withdrawn == Spec => []WithdrawnNeverRuns
<1>1. IInv => WithdrawnNeverRuns
    BY AnsweredHasTask DEF IInv, RunsFollowTicket, RefusalsStayTrue, WithdrawnNeverRuns
<1> QED BY <1>1, Invariance, PTL

(* A call that says nothing was written leaves nothing that could run.      *)
THEOREM UnsentIsUnsent == Spec => []UnsentNeverRuns
<1>1. IInv => UnsentNeverRuns
    BY AnsweredHasTask DEF IInv, RunsFollowTicket, RefusalsStayTrue, UnsentNeverRuns, Unsent
<1> QED BY <1>1, Invariance, PTL

(* Whatever a call returns as an answer is what the daemon wrote for the    *)
(* task the call is about.                                                  *)
THEOREM AnswerIsOwn == Spec => []AnswerIsTheTasksOwn
<1>1. IInv => AnswerIsTheTasksOwn
    BY DEF IInv, AnswersAgree, AnswerIsTheTasksOwn
<1> QED BY <1>1, Invariance, PTL

(* No answer other than a listing leaves the disk but by age, or, when it   *)
(* is a secret or a refusal, by a call that has it or said that it could    *)
(* not read it.                                                             *)
THEOREM NoneLostUnread == Spec => []NoAnswerLostUnread
BY Invariance, PTL DEF IInv

(* A secret or a refusal a call returned, or failed to return once it had   *)
(* been parsed, is off the disk for good, and a secret also when it was not *)
(* even parsed.                                                             *)
THEOREM ReadOnceStaysGone == Spec => []ReadOnceLeavesNoFile
BY Invariance, PTL DEF IInv

(* What runs is what was asked, at most once; never what was withdrawn or   *)
(* not sent.                                                                *)
THEOREM RunsOnlyAsAsked == Spec => []RunsAsAsked
BY RunsOnce, Withdrawn, UnsentIsUnsent, PTL DEF RunsAsAsked

(* An answer is the task's own, is not lost unread, and is off the disk     *)
(* when it must be.                                                         *)
THEOREM AnswersAreKept == Spec => []AnswersKept
BY AnswerIsOwn, NoneLostUnread, ReadOnceStaysGone, PTL DEF AnswersKept

-----------------------------------------------------------------------------
(***************************************************************************)
(* SpoolDispatch implements DispatchPromise: under the mapping of Promise  *)
(* every initial state is an initial state of the promise, and every step  *)
(* of a call, of the daemon or of the sweep is a step of the promise or    *)
(* leaves it as it is.                                                     *)
(***************************************************************************)

\* The promise's view of the spool.
RequestBar == [t \in Task |-> Life(t)]
AnswerBar  == [t \in Task |-> IF landed[t] = Absent THEN None ELSE landed[t]]
ReplyBar   == [c \in Call |-> Told(c)]
Bars       == <<RequestBar, AnswerBar, ReplyBar, task>>

\* The life of a request, as the invariant lets one read it.
LEMMA LifeByTicket ==
    ASSUME IInv, NEW t \in Task
    PROVE  /\ ticket[t] \in {"unwritten", "queued", "withdrawn"} => Life(t) = ticket[t]
           /\ landed[t] # Absent      => Life(t) = "done"
           /\ runs[t] = 1 /\ landed[t] = Absent => Life(t) = "running"
BY DEF IInv, RunsFollowTicket, OnlyClaimedLand, Life

\* Requests and answers stand still while ticket, landed and runs do.
LEMMA RequestsStay ==
    ASSUME UNCHANGED <<ticket, landed, runs>>
    PROVE  UNCHANGED <<RequestBar, AnswerBar>>
BY DEF RequestBar, AnswerBar, Life

\* Nothing is said while no call returns and no returned call's answer changes.
LEMMA SilentStep ==
    ASSUME IInv, UNCHANGED reply, \A c \in Call : reply[c] = "answered" => got'[c] = got[c]
    PROVE  UNCHANGED ReplyBar
BY DEF ReplyBar, Told

\* What the promise hears when a call returns r.
LEMMA SayStep ==
    ASSUME IInv, NEW c \in Call, NEW r \in Replies \ {"open"},
           reply[c] = "open", UNCHANGED got, reply' = [reply EXCEPT ![c] = r]
    PROVE  /\ ReplyBar[c] = None
           /\ r = "answered"  => ReplyBar' = [ReplyBar EXCEPT ![c] = got[c]]
           /\ r = "withdrawn" => ReplyBar' = [ReplyBar EXCEPT ![c] = "withdrawn"]
           /\ r \in Unsent    => ReplyBar' = [ReplyBar EXCEPT ![c] = "nothing_written"]
           /\ r \notin Unsent \cup {"answered", "withdrawn"}
                 => ReplyBar' = [ReplyBar EXCEPT ![c] = "pending"]
<1> USE DEF ReplyBar, Told
<1>1. ReplyBar[c] = None
    OBVIOUS
<1>2. \A d \in Call \ {c} : ReplyBar'[d] = ReplyBar[d]
    BY DEF IInv, TypeOK
<1>3. reply'[c] = r
    BY DEF IInv, TypeOK
<1>4. /\ r = "answered"  => ReplyBar'[c] = got[c]
      /\ r = "withdrawn" => ReplyBar'[c] = "withdrawn"
      /\ r \in Unsent    => ReplyBar'[c] = "nothing_written"
      /\ r \notin Unsent \cup {"answered", "withdrawn"} => ReplyBar'[c] = "pending"
    BY <1>3 DEF Unsent
<1>5. ReplyBar' = [d \in Call |-> ReplyBar'[d]] /\ ReplyBar = [d \in Call |-> ReplyBar[d]]
    OBVIOUS
<1> HIDE DEF ReplyBar, Told
<1> QED BY <1>1, <1>2, <1>4, <1>5

-----------------------------------------------------------------------------
(* Steps of a call.                                                         *)

\* A call that returns without an answer, a withdrawal or a refusal to write says "pending".
LEMMA PendingStep ==
    ASSUME IInv, NEW c \in Call, NEW r \in Replies \ (Unsent \cup {"open", "answered", "withdrawn"}),
           pc[c] \notin {"idle", "returned"}, reply' = [reply EXCEPT ![c] = r],
           UNCHANGED <<got, task, ticket, landed, runs>>
    PROVE  Promise!SayPending(c)
<1>1. task[c] # None /\ reply[c] = "open"
    BY DEF IInv, CallsKeepTheirTask
<1>2. ReplyBar[c] = None /\ ReplyBar' = [ReplyBar EXCEPT ![c] = "pending"]
    BY <1>1, SayStep
<1> QED BY <1>1, <1>2, RequestsStay
        DEF Promise!SayPending, Promise!Say, Promise!Replied, Promise!Pending,
            ReplyBar, RequestBar, AnswerBar

\* A call that has not written its request may say so.
LEMMA NotSentStep ==
    ASSUME IInv, NEW c \in Call, NEW r \in Unsent,
           pc[c] \in Unpublished, reply' = [reply EXCEPT ![c] = r],
           UNCHANGED <<got, task, ticket, landed, runs>>
    PROVE  Promise!SayNotSent(c)
<1>1. /\ task[c] \in Task /\ task[c] # None /\ reply[c] = "open"
      /\ ticket[task[c]] = "unwritten"
    BY TaskTaken DEF IInv, CallsKeepTheirTask, Unpublished, UnpublishedIsUnwritten
<1>2. ReplyBar[c] = None /\ ReplyBar' = [ReplyBar EXCEPT ![c] = "nothing_written"]
    BY <1>1, SayStep DEF Replies, Unsent
<1>3. RequestBar[task[c]] = "unwritten"
    BY <1>1, LifeByTicket DEF RequestBar
<1> QED BY <1>1, <1>2, <1>3, RequestsStay
        DEF Promise!SayNotSent, Promise!Say, Promise!Replied, Promise!NotSent,
            ReplyBar, RequestBar, AnswerBar

\* A step of a call that leaves the spool alone and does not return is silent.
LEMMA QuietStep ==
    ASSUME IInv, UNCHANGED <<reply, got, task, ticket, landed, runs>>
    PROVE  UNCHANGED Bars
BY SilentStep, RequestsStay DEF Bars

LEMMA LooksKeepPromise ==
    ASSUME IInv, NEW c \in Call,
           \/ ResumeOut(c) \/ ResumeIn(c) \/ ResumeInflight(c)
           \/ PreflightRefuses(c) \/ PreflightPasses(c) \/ OwnerProbed(c)
           \/ \E r \in {"storage_full", "publish_error"} : PublishFails(c, r)
           \/ SeeLanded(c) \/ SeeDeadline(c)
           \/ RecheckEnds(c) \/ VerdictClaimed(c) \/ VerdictQueued(c)
           \/ Abort(c)
    PROVE  Promise!Next \/ UNCHANGED Bars
<1>1. CASE ResumeOut(c) \/ ResumeIn(c)
    BY <1>1, QuietStep DEF ResumeOut, ResumeIn, ResumeLooks
<1>2. CASE ResumeInflight(c)
    <2>1. CASE ticket[task[c]] = "claimed"
        BY <1>2, <2>1, QuietStep DEF ResumeInflight
    <2>2. CASE ticket[task[c]] # "claimed"
        <3>1. Promise!SayPending(c)
            BY <1>2, <2>2, PendingStep DEF ResumeInflight, Return, Replies, Unsent
        <3> QED BY <3>1 DEF Promise!Next
    <2> QED BY <2>1, <2>2
<1>3. CASE PreflightRefuses(c)
    <2>1. Promise!SayNotSent(c)
        BY <1>3, NotSentStep DEF PreflightRefuses, Return, Unsent, Unpublished
    <2> QED BY <2>1 DEF Promise!Next
<1>4. CASE PreflightPasses(c) \/ SeeLanded(c) \/ SeeDeadline(c) \/ RecheckEnds(c) \/ Abort(c)
    BY <1>4, QuietStep DEF PreflightPasses, SeeLanded, SeeDeadline, RecheckEnds, Abort
<1>5. CASE OwnerProbed(c)
    <2>1. CASE ~aborted[c]
        BY <1>5, <2>1, QuietStep DEF OwnerProbed
    <2>2. CASE aborted[c]
        <3>1. Promise!SayNotSent(c)
            BY <1>5, <2>2, NotSentStep DEF OwnerProbed, Return, Unsent, Unpublished
        <3> QED BY <3>1 DEF Promise!Next
    <2> QED BY <2>1, <2>2
<1>6. CASE \E r \in {"storage_full", "publish_error"} : PublishFails(c, r)
    <2>1. Promise!SayNotSent(c)
        BY <1>6, NotSentStep DEF PublishFails, Return, Unsent, Unpublished
    <2> QED BY <2>1 DEF Promise!Next
<1>7. CASE VerdictClaimed(c)
    <2>1. CASE ticket[task[c]] # "claimed"
        BY <1>7, <2>1, QuietStep DEF VerdictClaimed
    <2>2. CASE ticket[task[c]] = "claimed"
        <3>1. Promise!SayPending(c)
            BY <1>7, <2>2, PendingStep DEF VerdictClaimed, Return, Replies, Unsent, TimedOut
        <3> QED BY <3>1 DEF Promise!Next
    <2> QED BY <2>1, <2>2
<1>8. CASE VerdictQueued(c)
    <2>1. PICK r \in {"queued_not_yet_claimed", "no_input_file_left"} :
             reply' = [reply EXCEPT ![c] = r]
        BY <1>8 DEF VerdictQueued, Return
    <2>2. Promise!SayPending(c)
        BY <1>8, <2>1, PendingStep DEF VerdictQueued, Replies, Unsent, TimedOut
    <2> QED BY <2>2 DEF Promise!Next
<1> QED BY <1>1, <1>2, <1>3, <1>4, <1>5, <1>6, <1>7, <1>8

\* A call that begins opens its task.
LEMMA StartOpens ==
    ASSUME IInv, NEW c \in Call, NEW t \in Task, NEW resume \in BOOLEAN, NEW old \in SUBSET OnDisk,
           Start(c, t, resume, old)
    PROVE  Promise!Next
<1>1. task[c] = None
    BY DEF Start, IInv, CallsKeepTheirTask
<1>2. UNCHANGED <<RequestBar, AnswerBar, ReplyBar>>
    BY SilentStep, RequestsStay DEF Start
<1>3. Promise!Open(c, t)
    BY <1>1, <1>2 DEF Start, Promise!Open, RequestBar, AnswerBar, ReplyBar
<1> QED BY <1>3 DEF Promise!Next

\* What a step that changes one request does to the promise's view.
LEMMA OneRequest ==
    ASSUME IInv, NEW t \in Task,
           \A u \in Task \ {t} : ticket'[u] = ticket[u] /\ landed'[u] = landed[u]
    PROVE  RequestBar' = [RequestBar EXCEPT ![t] = Life(t)']
BY DEF RequestBar, Life

\* Publishing a request writes it.
LEMMA PublishWrites ==
    ASSUME IInv, NEW c \in Call, Publish(c)
    PROVE  Promise!Next
<1>1. PICK t \in Task : task[c] = t
    BY TaskTaken DEF Publish
<1>2. reply[c] = "open" /\ ticket[t] = "unwritten"
    BY <1>1 DEF Publish, IInv, CallsKeepTheirTask, Unpublished, UnpublishedIsUnwritten
<1>3. RequestBar[t] = "unwritten"
    BY <1>2, LifeByTicket DEF RequestBar
<1>4. ticket' = [ticket EXCEPT ![t] = "queued"] /\ ticket'[t] = "queued"
    BY <1>1 DEF Publish, IInv, TypeOK
<1>5. RequestBar' = [RequestBar EXCEPT ![t] = "queued"]
    <2>1. Life(t)' = "queued"
        BY <1>4 DEF Life
    <2>2. \A u \in Task \ {t} : ticket'[u] = ticket[u] /\ landed'[u] = landed[u]
        BY <1>4 DEF Publish, IInv, TypeOK
    <2> QED BY <2>1, <2>2, OneRequest
<1>6. UNCHANGED <<ReplyBar, AnswerBar, task>>
    BY SilentStep DEF Publish, AnswerBar
<1>7. ReplyBar[c] = None
    BY <1>2 DEF ReplyBar, Told
<1>8. Promise!Write(t)
    BY <1>1, <1>3, <1>5, <1>6, <1>7
       DEF Promise!Write, Promise!Replied, RequestBar, AnswerBar, ReplyBar
<1> QED BY <1>8 DEF Promise!Next

\* An aborted call withdraws a request that never ran, or says nothing of it.
LEMMA AbortedReplyKeepsPromise ==
    ASSUME IInv, NEW c \in Call, AbortedReply(c)
    PROVE  Promise!Next
<1>1. PICK t \in Task : task[c] = t
    BY TaskTaken DEF AbortedReply
<1>2. t # None /\ reply[c] = "open"
    BY <1>1, NoneAssumption DEF AbortedReply, IInv, CallsKeepTheirTask
<1>3. CASE ~(~resuming[c] /\ ticket[task[c]] = "queued")
    <2>1. Promise!SayPending(c)
        BY <1>3, PendingStep DEF AbortedReply, Return, Replies, Unsent
    <2> QED BY <2>1 DEF Promise!Next
<1>4. CASE ~resuming[c] /\ ticket[task[c]] = "queued"
    <2>a. /\ ticket' = [ticket EXCEPT ![t] = "withdrawn"] /\ ticket'[t] = "withdrawn"
          /\ reply' = [reply EXCEPT ![c] = "withdrawn"]
          /\ UNCHANGED <<task, got, landed, runs>>
        BY <1>1, <1>4 DEF AbortedReply, Return, IInv, TypeOK
    <2>1. RequestBar[t] = "queued"
        BY <1>1, <1>4, LifeByTicket DEF RequestBar
    <2>2. RequestBar' = [RequestBar EXCEPT ![t] = "withdrawn"]
        <3>1. Life(t)' = "withdrawn"
            BY <2>a DEF Life
        <3>2. \A u \in Task \ {t} : ticket'[u] = ticket[u] /\ landed'[u] = landed[u]
            BY <2>a DEF IInv, TypeOK
        <3> QED BY <3>1, <3>2, OneRequest
    <2>3. ReplyBar[c] = None /\ ReplyBar' = [ReplyBar EXCEPT ![c] = "withdrawn"]
        BY <1>2, <2>a, SayStep DEF Replies
    <2>4. UNCHANGED <<AnswerBar, task>>
        BY <2>a DEF AnswerBar
    <2>5. Promise!SayWithdrew(c)
        BY <1>1, <1>2, <2>1, <2>2, <2>3, <2>4
           DEF Promise!SayWithdrew, Promise!Say, Promise!Replied, Promise!Withdrew,
               RequestBar, AnswerBar, ReplyBar
    <2> QED BY <2>5 DEF Promise!Next
<1> QED BY <1>3, <1>4

\* A call reads in silence, answers with what was read, or says nothing of its request.
LEMMA ReadKeepsPromise ==
    ASSUME IInv, NEW c \in Call, OpenReply(c)
    PROVE  UNCHANGED Bars
<1>1. \A d \in Call : reply[d] = "answered" => got'[d] = got[d]
    BY DEF OpenReply, IInv, TypeOK, CallsKeepTheirTask
<1> QED BY <1>1, SilentStep, RequestsStay DEF OpenReply, Bars

LEMMA UnreadKeepsPromise ==
    ASSUME IInv, NEW c \in Call,
           OpenFails(c) \/ \E pruned \in BOOLEAN : FinishFails(c, pruned)
    PROVE  Promise!Next
<1>1. /\ pc[c] \notin {"idle", "returned"} /\ reply' = [reply EXCEPT ![c] = "unreadable"]
      /\ UNCHANGED <<got, task, ticket, landed, runs>>
    BY DEF OpenFails, FinishFails, Return
<1>2. Promise!SayPending(c)
    BY <1>1, PendingStep DEF Replies, Unsent
<1> QED BY <1>2 DEF Promise!Next

LEMMA FinishAnswers ==
    ASSUME IInv, NEW c \in Call, FinishReply(c)
    PROVE  Promise!Next
<1>1. /\ task[c] \in Task /\ task[c] # None /\ reply[c] = "open"
      /\ got[c] = landed[task[c]] /\ landed[task[c]] # Absent
    BY TaskTaken, NoneAssumption DEF FinishReply, IInv, CallsKeepTheirTask, AnswersAgree
<1>2. RequestBar[task[c]] = "done" /\ AnswerBar[task[c]] = got[c]
    BY <1>1, LifeByTicket DEF RequestBar, AnswerBar
<1>3. ReplyBar[c] = None /\ ReplyBar' = [ReplyBar EXCEPT ![c] = got[c]]
    BY <1>1, SayStep DEF FinishReply, Return, Replies
<1>4. UNCHANGED <<RequestBar, AnswerBar, task>>
    BY RequestsStay DEF FinishReply
<1>5. Promise!Answered(c)
    BY <1>1, <1>2, <1>3, <1>4
       DEF Promise!Answered, Promise!Say, Promise!Replied, RequestBar, AnswerBar, ReplyBar
<1> QED BY <1>5 DEF Promise!Next

-----------------------------------------------------------------------------
(* Steps of the daemon and of the sweep.                                    *)

\* A claim runs the request.
LEMMA ClaimRuns ==
    ASSUME IInv, NEW t \in Task, DaemonClaims(t)
    PROVE  Promise!Next
<1>1. RequestBar[t] = "queued"
    BY LifeByTicket DEF DaemonClaims, RequestBar
<1>2. landed[t] = Absent
    BY DEF DaemonClaims, IInv, RunsFollowTicket, OnlyClaimedLand
<1>3. RequestBar' = [RequestBar EXCEPT ![t] = "running"]
    <2>1. Life(t)' = "running"
        BY <1>2 DEF DaemonClaims, Life, IInv, TypeOK
    <2>2. \A u \in Task \ {t} : ticket'[u] = ticket[u] /\ landed'[u] = landed[u]
        BY DEF DaemonClaims, IInv, TypeOK
    <2> QED BY <2>1, <2>2, OneRequest
<1>4. UNCHANGED <<ReplyBar, AnswerBar, task>>
    BY SilentStep DEF DaemonClaims, AnswerBar
<1>5. Promise!Run(t)
    BY <1>1, <1>3, <1>4 DEF Promise!Run, RequestBar, AnswerBar, ReplyBar
<1> QED BY <1>5 DEF Promise!Next

\* The answer of a running request, however it lands, finishes it.
LEMMA LandingFinishes ==
    ASSUME IInv, NEW t \in Task, NEW answer \in Outcome,
           runs[t] = 1, landed[t] = Absent,
           landed' = [landed EXCEPT ![t] = answer],
           \A u \in Task \ {t} : ticket'[u] = ticket[u],
           ticket'[t] \in {ticket[t], "released"},
           UNCHANGED callVars
    PROVE  Promise!Next
<1>a. landed'[t] = answer /\ answer # Absent
    BY DEF IInv, TypeOK, Outcome, Absent
<1>1. RequestBar[t] = "running"
    BY LifeByTicket DEF RequestBar
<1>2. RequestBar' = [RequestBar EXCEPT ![t] = "done"]
    <2>1. Life(t)' = "done"
        BY <1>a DEF Life, IInv, RunsFollowTicket
    <2>2. \A u \in Task \ {t} : ticket'[u] = ticket[u] /\ landed'[u] = landed[u]
        BY DEF IInv, TypeOK
    <2> QED BY <2>1, <2>2, OneRequest
<1>3. AnswerBar' = [AnswerBar EXCEPT ![t] = answer]
    BY <1>a DEF AnswerBar, IInv, TypeOK
<1>4. UNCHANGED <<ReplyBar, task>>
    BY SilentStep
<1>5. Promise!Finish(t, answer)
    BY <1>1, <1>2, <1>3, <1>4 DEF Promise!Finish, RequestBar, AnswerBar, ReplyBar
<1> QED BY <1>5 DEF Promise!Next

\* Markers that are dropped or moved aside do not show.
LEMMA MarkersDoNotShow ==
    ASSUME IInv, UNCHANGED <<task, got, reply, landed>>,
           \A t \in Task : \/ ticket'[t] = ticket[t]
                           \/ ticket[t] = "claimed" /\ ticket'[t] \in {"released", "quarantined"}
    PROVE  UNCHANGED Bars
<1>1. \A t \in Task : Life(t)' = Life(t)
    BY DEF Life
<1>2. UNCHANGED <<RequestBar, AnswerBar, ReplyBar>>
    BY <1>1, SilentStep DEF RequestBar, AnswerBar
<1> QED BY <1>2 DEF Bars

LEMMA DaemonKeepsPromise ==
    ASSUME IInv, DaemonStep \/ SweepStep
    PROVE  Promise!Next \/ UNCHANGED Bars
<1>1. ASSUME NEW t \in Task, DaemonClaims(t) PROVE Promise!Next
    BY <1>1, ClaimRuns
<1>2. ASSUME NEW t \in Task, DaemonReleases(t) PROVE UNCHANGED Bars
    <2>1. \A u \in Task : \/ ticket'[u] = ticket[u]
                          \/ ticket[u] = "claimed" /\ ticket'[u] \in {"released", "quarantined"}
        BY <1>2 DEF DaemonReleases, DropMarker, IInv, TypeOK
    <2>2. UNCHANGED <<task, got, reply, landed>>
        BY <1>2 DEF DaemonReleases
    <2> QED BY <2>1, <2>2, MarkersDoNotShow
<1>3. ASSUME NEW t \in Task, DaemonAdopts(t) PROVE Promise!Next \/ UNCHANGED Bars
    <2>1. \A u \in Task : IF u = t THEN ticket'[u] = "released" ELSE ticket'[u] = ticket[u]
        BY <1>3 DEF DaemonAdopts, DropMarker, IInv, TypeOK
    <2>2. CASE landed[t] = Absent
        <3>1. runs[t] = 1 /\ "orphaned" \in Outcome
            BY <1>3 DEF DaemonAdopts, IInv, RunsFollowTicket, Outcome
        <3> QED BY <1>3, <2>1, <2>2, <3>1, LandingFinishes DEF DaemonAdopts
    <2>3. CASE landed[t] # Absent
        <3>1. UNCHANGED <<task, got, reply, landed>> /\ ticket[t] = "claimed"
            BY <1>3, <2>3 DEF DaemonAdopts
        <3> QED BY <2>1, <3>1, MarkersDoNotShow
    <2> QED BY <2>2, <2>3
<1>4. ASSUME NEW t \in Task, NEW answer \in {"ok", "refused"}, DaemonLands(t, answer)
      PROVE  Promise!Next
    <2>1. runs[t] = 1 /\ answer \in Outcome
        BY <1>4 DEF DaemonLands, IInv, OnlyClaimedLand, Outcome
    <2> QED BY <1>4, <2>1, LandingFinishes DEF DaemonLands
<1>5. CASE DaemonExits \/ Respawn \/ \E readable \in BOOLEAN : SweepMeasures(readable)
    BY <1>5, QuietStep DEF DaemonExits, Respawn, SweepMeasures
<1>6. CASE SweepMoves
    <2>1. \A u \in Task : \/ ticket'[u] = ticket[u]
                          \/ ticket[u] = "claimed" /\ ticket'[u] \in {"released", "quarantined"}
        BY <1>6 DEF SweepMoves
    <2>2. UNCHANGED <<task, got, reply, landed>>
        BY <1>6 DEF SweepMoves
    <2> QED BY <2>1, <2>2, MarkersDoNotShow
<1> QED BY <1>1, <1>2, <1>3, <1>4, <1>5, <1>6 DEF DaemonStep, SweepStep

-----------------------------------------------------------------------------
(* Every run of the spool, its callers and its daemons is a run of the      *)
(* promise: a request is written once, runs once and is answered once, and  *)
(* each call returns once, saying nothing of its request that is not so.    *)
THEOREM PromiseKept == Spec => KeepsPromise
<1>1. Init => Promise!Init
    BY DEF Init, Promise!Init, Life, Told
<1>2. IInv /\ [Next]_vars => [Promise!Next]_(Promise!promiseVars)
    <2> SUFFICES ASSUME IInv, [Next]_vars PROVE Promise!Next \/ UNCHANGED Bars
        BY DEF Bars, RequestBar, AnswerBar, ReplyBar, Promise!promiseVars
    <2>1. CASE \E c \in Call, t \in Task, resume \in BOOLEAN :
                 \E old \in SUBSET OnDisk : Start(c, t, resume, old)
        BY <2>1, StartOpens
    <2>2. CASE \E c \in Call : CallStep(c) \/ Abort(c)
        BY <2>2, LooksKeepPromise, PublishWrites, AbortedReplyKeepsPromise, ReadKeepsPromise,
           UnreadKeepsPromise, FinishAnswers DEF CallStep
    <2>3. CASE DaemonStep \/ SweepStep
        BY <2>3, DaemonKeepsPromise
    <2>4. CASE UNCHANGED vars
        BY <2>4, QuietStep DEF vars
    <2> QED BY <2>1, <2>2, <2>3, <2>4 DEF Next
<1> QED BY <1>1, <1>2, Invariance, PTL DEF Spec, KeepsPromise, Promise!Spec
================================================================================
