----------------------------- MODULE SpoolDispatch -----------------------------
(***************************************************************************)
(* One project's exec-spool, the gm-mcp calls that use it and the daemon   *)
(* that serves it (src/src/dispatch.js: runDispatch and what it calls).    *)
(*                                                                         *)
(* A call publishes in/<verb>/<task>.txt, polls for out/<verb>-<task>.json *)
(* and returns an answer, a timed-out reply that names the task, or an     *)
(* aborted reply.  A call that carries resume_task polls a task an earlier *)
(* call left behind.  Calls run in several processes, so every look at the *)
(* file system is a step of its own.                                       *)
(*                                                                         *)
(* The daemon (agentplug-runner) is not part of the repository.  It is     *)
(* modelled from what dispatch.js relies on: it claims a request by        *)
(* renaming it to .txt.inflight, lands an out-file, then removes the claim *)
(* marker; it may exit at any time; the next daemon answers a claim its    *)
(* predecessor left with dispatch_orphaned.                                *)
(***************************************************************************)
EXTENDS Naturals, FiniteSets

CONSTANTS Call,        \* invocations of runDispatch
          Task,        \* request names (nextN makes them unique)
          Kind,        \* [Task -> kind of its verb]
          ListingsOf,  \* [Task -> listing tasks whose out-file has its <verb>-<session>- prefix]
          MaxClaimed,  \* MAX_CLAIMED_DISPATCHES_PER_PROJECT
          None

Kinds == {"object", "plain", "listing", "secret"}

ASSUME NoneAssumption     == None \notin Task \cup STRING
ASSUME KindAssumption     == Kind \in [Task -> Kinds]
ASSUME ListingsAssumption == ListingsOf \in [Task -> SUBSET {t \in Task : Kind[t] = "listing"}]
ASSUME CapAssumption      == MaxClaimed \in Nat \ {0}

VARIABLES
    pc,        \* [Call -> where the call stands]
    task,      \* [Call -> the task it polls]
    resuming,  \* [Call -> BOOLEAN]: it carries resume_task
    aborted,   \* [Call -> BOOLEAN]: its AbortSignal fired
    before,    \* [Call -> listings it may prune: those older than callStartedAtMs]
    got,       \* [Call -> the answer it parsed]
    reply,     \* [Call -> what it returned]
    ticket,    \* [Task -> where the request file is]
    out,       \* [Task -> the out-file]
    landed,    \* [Task -> the answer the daemon wrote]  (history)
    runs,      \* [Task -> how often a daemon claimed it] (history)
    cleaned,   \* tasks whose out-file was removed by age  (history)
    up,        \* a daemon process is running
    mine,      \* tasks the running daemon has claimed and not released
    sweep,     \* the orphan sweep started by a respawn
    liveSeen   \* requests its process table showed as live

callVars   == <<pc, task, resuming, aborted, before, got, reply>>
spoolVars  == <<ticket, out, landed, runs, cleaned>>
daemonVars == <<up, mine>>
sweepVars  == <<sweep, liveSeen>>
vars       == <<callVars, spoolVars, daemonVars, sweepVars>>

Absent   == "absent"
Outcome  == {"ok", "refused", "orphaned"}

Places   == {"unwritten", "queued", "claimed", "released", "withdrawn", "quarantined"}
Stages   == {"idle", "resumeOut", "resumeIn", "resumeInflight", "preflight", "owner",
             "publish", "poll", "read", "finish", "recheck", "verdictClaimed",
             "verdictQueued", "returned"}
Unsent   == {"not_running", "storage_full", "publish_error", "aborted_unwritten"}
TimedOut == {"claimed_still_in_flight", "queued_not_yet_claimed", "no_input_file_left"}
Replies  == Unsent \cup TimedOut
              \cup {"open", "answered", "unreadable", "unknown_task", "withdrawn", "aborted"}

Init == /\ pc       = [c \in Call |-> "idle"]
        /\ task     = [c \in Call |-> None]
        /\ resuming = [c \in Call |-> FALSE]
        /\ aborted  = [c \in Call |-> FALSE]
        /\ before   = [c \in Call |-> {}]
        /\ got      = [c \in Call |-> Absent]
        /\ reply    = [c \in Call |-> "open"]
        /\ ticket   = [t \in Task |-> "unwritten"]
        /\ out      = [t \in Task |-> Absent]
        /\ landed   = [t \in Task |-> Absent]
        /\ runs     = [t \in Task |-> 0]
        /\ cleaned  = {}
        /\ up \in BOOLEAN
        /\ mine     = {}
        /\ sweep    = "idle"
        /\ liveSeen = {}

Active(c) == pc[c] \notin {"idle", "returned"}
OnDisk    == {t \in Task : out[t] # Absent}

Goto(c, stage) == pc' = [pc EXCEPT ![c] = stage]
Return(c, r)   == Goto(c, "returned") /\ reply' = [reply EXCEPT ![c] = r]

-----------------------------------------------------------------------------
(* The call begins.  pruneSpoolResponsesOnce may remove out-files that are  *)
(* older than their verb's maximum age, which is longer than a poll lasts:  *)
(* an answer is not that old while the call that asked for it still polls,  *)
(* but a resume may poll for one of any age.  A resume names a task an      *)
(* earlier reply gave, or one that was never written; a new request has a   *)
(* name of its own.                                                         *)

Aged == {t \in OnDisk : \A c \in Call : Active(c) /\ task[c] = t => resuming[c]}

Start(c, t, resume, old) ==
    /\ pc[c] = "idle"
    /\ \/ \A d \in Call : task[d] # t
       \/ resume /\ \E d \in Call : task[d] = t /\ pc[d] = "returned"
    /\ old \subseteq Aged
    /\ out'      = [u \in Task |-> IF u \in old THEN Absent ELSE out[u]]
    /\ cleaned'  = cleaned \cup old
    /\ task'     = [task EXCEPT ![c] = t]
    /\ resuming' = [resuming EXCEPT ![c] = resume]
    /\ before'   = [before EXCEPT ![c] =
                       IF Kind[t] = "listing" THEN ((ListingsOf[t] \cap OnDisk) \ old) \ {t} ELSE {}]
    /\ Goto(c, IF resume THEN "resumeOut" ELSE "preflight")
    /\ UNCHANGED <<aborted, got, reply, ticket, landed, runs, daemonVars, sweepVars>>

(* A resume looks for the out-file, then the queued request, then the       *)
(* claimed one, and refuses the task only when it saw none of the three.    *)
ResumeLooks(c, stage, found, next) ==
    /\ pc[c] = stage
    /\ Goto(c, IF found THEN "poll" ELSE next)
    /\ UNCHANGED <<task, resuming, aborted, before, got, reply, spoolVars, daemonVars, sweepVars>>

ResumeOut(c) == ResumeLooks(c, "resumeOut", out[task[c]] # Absent, "resumeIn")
ResumeIn(c)  == ResumeLooks(c, "resumeIn", ticket[task[c]] = "queued", "resumeInflight")

\* Mutant: a resume that finds no trace of its task dispatches it again.
ResumeRepublishes(c) ==
    /\ pc[c] = "resumeInflight"
    /\ ticket' = [ticket EXCEPT ![task[c]] = IF @ = "claimed" THEN @ ELSE "queued"]
    /\ Goto(c, "poll")
    /\ UNCHANGED <<task, resuming, aborted, before, got, reply,
                   out, landed, runs, cleaned, daemonVars, sweepVars>>

ResumeInflight(c) ==
    /\ pc[c] = "resumeInflight"
    /\ IF ticket[task[c]] = "claimed"
       THEN Goto(c, "poll") /\ UNCHANGED reply
       ELSE Return(c, "unknown_task")
    /\ UNCHANGED <<task, resuming, aborted, before, got, spoolVars, daemonVars, sweepVars>>

-----------------------------------------------------------------------------
(* A new request.  runnerUnavailable and daemonNotRunning refuse only when  *)
(* no daemon runs; they let the call pass for a cold project, during a boot *)
(* grace, and when the signal fires while they wait.                        *)

PreflightRefuses(c) ==
    /\ pc[c] = "preflight"
    /\ ~up
    /\ Return(c, "not_running")
    /\ UNCHANGED <<task, resuming, aborted, before, got, spoolVars, daemonVars, sweepVars>>

PreflightPasses(c) ==
    /\ pc[c] = "preflight"
    /\ Goto(c, IF Kind[task[c]] = "plain" THEN "owner" ELSE "publish")
    /\ UNCHANGED <<task, resuming, aborted, before, got, reply, spoolVars, daemonVars, sweepVars>>

(* A plain-text verb first awaits the owner probe; only this path looks at  *)
(* the signal again before it writes.                                       *)
OwnerProbed(c) ==
    /\ pc[c] = "owner"
    /\ IF aborted[c]
       THEN Return(c, "aborted_unwritten")
       ELSE Goto(c, "publish") /\ UNCHANGED reply
    /\ UNCHANGED <<task, resuming, aborted, before, got, spoolVars, daemonVars, sweepVars>>

Publish(c) ==
    /\ pc[c] = "publish"
    /\ ticket' = [ticket EXCEPT ![task[c]] = "queued"]
    /\ Goto(c, "poll")
    /\ UNCHANGED <<task, resuming, aborted, before, got, reply,
                   out, landed, runs, cleaned, daemonVars, sweepVars>>

\* Mutant: the temp file's removal fails after the link and is reported as a failed publish.
PublishFailsLate(c, r) ==
    /\ pc[c] = "publish"
    /\ ticket' = [ticket EXCEPT ![task[c]] = "queued"]
    /\ Return(c, r)
    /\ UNCHANGED <<task, resuming, aborted, before, got,
                   out, landed, runs, cleaned, daemonVars, sweepVars>>

\* ENOSPC and EDQUOT answer storage_full; the third ENOENT, or any other error, is thrown.
PublishFails(c, r) ==
    /\ pc[c] = "publish"
    /\ Return(c, r)
    /\ UNCHANGED <<task, resuming, aborted, before, got, spoolVars, daemonVars, sweepVars>>

-----------------------------------------------------------------------------
(* The poll loop: the signal first, then the out-file, then the deadline.   *)
(* waitForSpoolChange wakes on the directory watch, on its fallback timer   *)
(* or at the deadline, so the loop always looks again; the deadline may     *)
(* have passed at any look.                                                 *)

\* Mutant: the withdrawal is reported from a look at the file, and the unlink follows.
AbortedReplyUnchecked(c) ==
    /\ pc[c] = "poll"
    /\ aborted[c]
    /\ Return(c, IF ~resuming[c] /\ out[task[c]] = Absent THEN "withdrawn" ELSE "aborted")
    /\ ticket' = [ticket EXCEPT ![task[c]] = IF @ = "queued" THEN "withdrawn" ELSE @]
    /\ UNCHANGED <<task, resuming, aborted, before, got,
                   out, landed, runs, cleaned, daemonVars, sweepVars>>

AbortedReply(c) ==
    /\ pc[c] = "poll"
    /\ aborted[c]
    /\ IF ~resuming[c] /\ ticket[task[c]] = "queued"
       THEN /\ ticket' = [ticket EXCEPT ![task[c]] = "withdrawn"]
            /\ Return(c, "withdrawn")
       ELSE /\ UNCHANGED ticket
            /\ Return(c, "aborted")
    /\ UNCHANGED <<task, resuming, aborted, before, got,
                   out, landed, runs, cleaned, daemonVars, sweepVars>>

SeeLanded(c) ==
    /\ pc[c] \in {"poll", "recheck"}
    /\ ~aborted[c]
    /\ out[task[c]] # Absent
    /\ Goto(c, "read")
    /\ UNCHANGED <<task, resuming, aborted, before, got, reply, spoolVars, daemonVars, sweepVars>>

\* Mutant: the deadline counts only once the daemon has claimed the request.
SeeDeadlineOnceClaimed(c) ==
    /\ pc[c] = "poll"
    /\ ~aborted[c]
    /\ out[task[c]] = Absent
    /\ ticket[task[c]] \notin {"unwritten", "queued"}
    /\ Goto(c, "recheck")
    /\ UNCHANGED <<task, resuming, aborted, before, got, reply, spoolVars, daemonVars, sweepVars>>

SeeDeadline(c) ==
    /\ pc[c] = "poll"
    /\ ~aborted[c]
    /\ out[task[c]] = Absent
    /\ Goto(c, "recheck")
    /\ UNCHANGED <<task, resuming, aborted, before, got, reply, spoolVars, daemonVars, sweepVars>>

\* Mutant: only a refusal is removed after it is read.
ReadOnceRefusals(t, answer) == answer = "refused"

ReadOnce(t, answer) == answer = "refused" \/ Kind[t] = "secret"

Without(gone) == [t \in Task |-> IF t \in gone THEN Absent ELSE out[t]]

\* The finally of readLandedOutFile, on every way out of it: a refusal once it is parsed, a secret always.
RemovedOnLeaving(c, answer) == IF ReadOnce(task[c], answer) THEN {task[c]} ELSE {}

(* readLandedOutFile: existsSync succeeded (SeeLanded), then the file is    *)
(* opened, read and parsed.  Any of these may fail, because the file is     *)
(* gone or all the same; the reply then says it was not valid JSON.         *)
OpenReply(c) ==
    /\ pc[c] = "read"
    /\ out[task[c]] # Absent
    /\ got' = [got EXCEPT ![c] = out[task[c]]]
    /\ Goto(c, "finish")
    /\ UNCHANGED <<task, resuming, aborted, before, reply, spoolVars, daemonVars, sweepVars>>

OpenFails(c) ==
    /\ pc[c] = "read"
    /\ out' = Without(RemovedOnLeaving(c, Absent))
    /\ Return(c, "unreadable")
    /\ UNCHANGED <<task, resuming, aborted, before, got,
                   ticket, landed, runs, cleaned, daemonVars, sweepVars>>

(* After the last await of readLandedOutFile: pruneSupersededListings       *)
(* removes the session's older listings when this is one, a long reply is   *)
(* spilled, and the answer is returned.                                     *)
FinishReply(c) ==
    /\ pc[c] = "finish"
    /\ out' = Without(before[c] \cup RemovedOnLeaving(c, got[c]))
    /\ Return(c, "answered")
    /\ UNCHANGED <<task, resuming, aborted, before, got,
                   ticket, landed, runs, cleaned, daemonVars, sweepVars>>

\* What follows the parse may throw, before the prune or after it (the spill of a full disk).
FinishFails(c, pruned) ==
    /\ pc[c] = "finish"
    /\ out' = Without((IF pruned THEN before[c] ELSE {}) \cup RemovedOnLeaving(c, got[c]))
    /\ Return(c, "unreadable")
    /\ UNCHANGED <<task, resuming, aborted, before, got,
                   ticket, landed, runs, cleaned, daemonVars, sweepVars>>

(* The final recheck window: its last look found nothing, or the signal cut *)
(* the window short.  Either way the timed-out reply follows.               *)
RecheckEnds(c) ==
    /\ pc[c] = "recheck"
    /\ aborted[c] \/ out[task[c]] = Absent
    /\ Goto(c, "verdictClaimed")
    /\ UNCHANGED <<task, resuming, aborted, before, got, reply, spoolVars, daemonVars, sweepVars>>

(* readSpoolDispatchState looks for the claim marker first, and for the     *)
(* queued request only when it saw no marker.                               *)
VerdictClaimed(c) ==
    /\ pc[c] = "verdictClaimed"
    /\ IF ticket[task[c]] = "claimed"
       THEN Return(c, "claimed_still_in_flight")
       ELSE Goto(c, "verdictQueued") /\ UNCHANGED reply
    /\ UNCHANGED <<task, resuming, aborted, before, got, spoolVars, daemonVars, sweepVars>>

VerdictQueued(c) ==
    /\ pc[c] = "verdictQueued"
    /\ Return(c, IF ticket[task[c]] = "queued" THEN "queued_not_yet_claimed"
                                               ELSE "no_input_file_left")
    /\ UNCHANGED <<task, resuming, aborted, before, got, spoolVars, daemonVars, sweepVars>>

\* The host cancels the call: the signal fires only while the call awaits.
Abort(c) ==
    /\ pc[c] \in {"preflight", "owner", "poll", "recheck", "finish"}
    /\ ~aborted[c]
    /\ aborted' = [aborted EXCEPT ![c] = TRUE]
    /\ UNCHANGED <<pc, task, resuming, before, got, reply, spoolVars, daemonVars, sweepVars>>

-----------------------------------------------------------------------------
(* The daemon, external.                                                    *)

DaemonClaims(t) ==
    /\ up
    /\ ticket[t] = "queued"
    /\ Cardinality({u \in Task : ticket[u] = "claimed"}) < MaxClaimed
    /\ ticket' = [ticket EXCEPT ![t] = "claimed"]
    /\ runs'   = [runs EXCEPT ![t] = @ + 1]
    /\ mine'   = mine \cup {t}
    /\ UNCHANGED <<callVars, out, landed, cleaned, up, sweepVars>>

DaemonLands(t, answer) ==
    /\ up
    /\ t \in mine
    /\ landed[t] = Absent
    /\ out'    = [out EXCEPT ![t] = answer]
    /\ landed' = [landed EXCEPT ![t] = answer]
    /\ UNCHANGED <<callVars, ticket, runs, cleaned, daemonVars, sweepVars>>

DropMarker(t) == ticket' = [ticket EXCEPT ![t] = IF @ = "claimed" THEN "released" ELSE @]

DaemonReleases(t) ==
    /\ up
    /\ t \in mine
    /\ landed[t] # Absent
    /\ DropMarker(t)
    /\ mine' = mine \ {t}
    /\ UNCHANGED <<callVars, out, landed, runs, cleaned, up, sweepVars>>

DaemonExits ==
    /\ up
    /\ up'   = FALSE
    /\ mine' = {}
    /\ UNCHANGED <<callVars, spoolVars, sweepVars>>

\* The next daemon answers a claim that was lost, and clears one that was answered.
DaemonAdopts(t) ==
    /\ up
    /\ ticket[t] = "claimed"
    /\ t \notin mine
    /\ IF landed[t] = Absent
       THEN /\ out'    = [out EXCEPT ![t] = "orphaned"]
            /\ landed' = [landed EXCEPT ![t] = "orphaned"]
       ELSE UNCHANGED <<out, landed>>
    /\ DropMarker(t)
    /\ UNCHANGED <<callVars, runs, cleaned, daemonVars, sweepVars>>

-----------------------------------------------------------------------------
(* ensureSpoolRunnerRunning: any process that has dispatched asks again, in *)
(* the poll loop and from its watchdog, and starts a sweep of the requests  *)
(* the dead runner left in flight.                                          *)

Respawn ==
    /\ ~up
    /\ \E c \in Call : pc[c] # "idle"
    /\ up'    = TRUE
    /\ sweep' = "pending"
    /\ UNCHANGED <<callVars, spoolVars, mine, liveSeen>>

(* measuredTable: the process table is read first, and every request a      *)
(* daemon is running at that moment is taken to show in it.  An unreadable  *)
(* table refuses the sweep.                                                 *)
SweepMeasures(readable) ==
    /\ sweep = "pending"
    /\ IF readable
       THEN sweep' = "measured" /\ liveSeen' = mine
       ELSE sweep' = "idle" /\ UNCHANGED liveSeen
    /\ UNCHANGED <<callVars, spoolVars, daemonVars>>

\* Only then are the claim markers listed, and the ones not seen live are moved aside.
SweepMoves ==
    /\ sweep = "measured"
    /\ ticket' = [t \in Task |-> IF ticket[t] = "claimed" /\ t \notin liveSeen
                                 THEN "quarantined" ELSE ticket[t]]
    /\ sweep'    = "idle"
    /\ liveSeen' = {}
    /\ UNCHANGED <<callVars, out, landed, runs, cleaned, daemonVars>>

-----------------------------------------------------------------------------
CallStep(c) ==
    \/ ResumeOut(c) \/ ResumeIn(c) \/ ResumeInflight(c)
    \/ PreflightRefuses(c) \/ PreflightPasses(c) \/ OwnerProbed(c)
    \/ Publish(c) \/ \E r \in {"storage_full", "publish_error"} : PublishFails(c, r)
    \/ AbortedReply(c) \/ SeeLanded(c) \/ SeeDeadline(c)
    \/ OpenReply(c) \/ OpenFails(c)
    \/ FinishReply(c) \/ \E pruned \in BOOLEAN : FinishFails(c, pruned)
    \/ RecheckEnds(c) \/ VerdictClaimed(c) \/ VerdictQueued(c)

DaemonStep ==
    \/ \E t \in Task : DaemonClaims(t) \/ DaemonReleases(t) \/ DaemonAdopts(t)
    \/ \E t \in Task, answer \in {"ok", "refused"} : DaemonLands(t, answer)
    \/ DaemonExits

SweepStep == Respawn \/ SweepMoves \/ \E readable \in BOOLEAN : SweepMeasures(readable)

Next ==
    \/ \E c \in Call, t \in Task, resume \in BOOLEAN :
          \E old \in SUBSET OnDisk : Start(c, t, resume, old)
    \/ \E c \in Call : CallStep(c) \/ Abort(c)
    \/ DaemonStep
    \/ SweepStep

Spec == Init /\ [][Next]_vars

-----------------------------------------------------------------------------
(* Properties.                                                              *)

TypeOK ==
    /\ pc       \in [Call -> Stages]
    /\ task     \in [Call -> Task \cup {None}]
    /\ resuming \in [Call -> BOOLEAN]
    /\ aborted  \in [Call -> BOOLEAN]
    /\ before   \in [Call -> SUBSET Task]
    /\ got      \in [Call -> Outcome \cup {Absent}]
    /\ reply    \in [Call -> Replies]
    /\ ticket   \in [Task -> Places]
    /\ out      \in [Task -> Outcome \cup {Absent}]
    /\ landed   \in [Task -> Outcome \cup {Absent}]
    /\ runs     \in [Task -> Nat]
    /\ cleaned  \in SUBSET Task
    /\ up       \in BOOLEAN
    /\ mine     \in SUBSET Task
    /\ sweep    \in {"idle", "pending", "measured"}
    /\ liveSeen \in SUBSET Task

(* A request runs at most once, whatever mix of timeouts, resumes, aborts   *)
(* and daemon exits it meets: no path of runDispatch publishes it again.    *)
RunsAtMostOnce == \A t \in Task : runs[t] <= 1

(* request_withdrawn_before_claim: true is never said of a request that a   *)
(* daemon claimed, before or after the caller was told.                     *)
WithdrawnNeverRuns ==
    \A c \in Call : reply[c] = "withdrawn" => runs[task[c]] = 0

(* A reply that says nothing was written (daemon-not-running, storage_full, *)
(* aborted before publication) leaves no request behind that could run.     *)
UnsentNeverRuns ==
    \A c \in Call : reply[c] \in Unsent => runs[task[c]] = 0 /\ ticket[task[c]] = "unwritten"

(* An answer is the one the daemon wrote for this very task, even when the  *)
(* file was pruned, removed by another reader or left by an earlier daemon. *)
AnswerIsTheTasksOwn ==
    \A c \in Call : reply[c] = "answered" =>
        got[c] # Absent /\ got[c] = landed[task[c]]

(* A landed answer other than a listing leaves the disk only by age, or, if *)
(* it is a refusal or a secret, at the hands of a call that is about it:    *)
(* one that has it, returned it, or told its caller that the file of this   *)
(* task could not be read.                                                  *)
Perishable(t) == landed[t] = "refused" \/ Kind[t] = "secret"
Gone(t)       == landed[t] # Absent /\ out[t] = Absent /\ t \notin cleaned
Read(c)       == pc[c] = "finish" \/ reply[c] = "answered"

NoAnswerLostUnread ==
    \A t \in Task : Kind[t] # "listing" /\ Gone(t) =>
        Perishable(t) /\ \E c \in Call : task[c] = t /\ (Read(c) \/ reply[c] = "unreadable")

(* Once a call returned the answer of env_get, kv_get or ci_log, or a       *)
(* refusal, or failed on its way to return it, the out-file that held it is *)
(* off the disk for good.                                                   *)
ReadOnceLeavesNoFile ==
    \A c \in Call :
        /\ reply[c] \in {"answered", "unreadable"}
        /\ got[c] = "refused" \/ Kind[task[c]] = "secret"
        => out[task[c]] = Absent

(* Every call comes back, on its answer or at its deadline, whether or not  *)
(* a daemon ever runs: nothing in the poll loop waits for the daemon.       *)
Fairness == \A c \in Call : WF_vars(CallStep(c))
FairSpec == Spec /\ Fairness
EveryCallReturns == \A c \in Call : Active(c) ~> pc[c] = "returned"

(* The spool keeps what a dispatch promises its caller.                     *)
Life(t) ==
    IF ticket[t] \in {"unwritten", "queued", "withdrawn"}
    THEN ticket[t]
    ELSE IF landed[t] = Absent THEN "running" ELSE "done"

Told(c) ==
    IF reply[c] = "open"          THEN None
    ELSE IF reply[c] = "answered" THEN got[c]
    ELSE IF reply[c] \in Unsent   THEN "nothing_written"
    ELSE IF reply[c] = "withdrawn" THEN "withdrawn" ELSE "pending"

Promise == INSTANCE DispatchPromise WITH
    Answer  <- Outcome,
    request <- [t \in Task |-> Life(t)],
    answer  <- [t \in Task |-> IF landed[t] = Absent THEN None ELSE landed[t]],
    reply   <- [c \in Call |-> Told(c)],
    subject <- task

KeepsPromise == Promise!Spec

-----------------------------------------------------------------------------
(* What the replies and the documents say of the spool.                     *)

Held(t) == ticket[t] \in {"queued", "claimed"} \/ out[t] # Absent

(* "neither an input file nor an out-file exists for this task id": the     *)
(* note of dispatch_state no_input_file_left, which tells the caller to     *)
(* dispatch afresh.                                                         *)
NoInputVerdictTrue ==
    [][\A c \in Call : reply[c] = "open" /\ reply'[c] = "no_input_file_left" => ~Held(task[c])]_vars

(* A resume is refused only when the spool holds no trace of the task.      *)
UnknownTaskTrue ==
    [][\A c \in Call : reply[c] = "open" /\ reply'[c] = "unknown_task" => ~Held(task[c])]_vars

(* "An aborted call also withdraws its request from the spool when the      *)
(* daemon has not claimed it yet."                                          *)
AbortedCallWithdraws ==
    \A c \in Call :
        aborted[c] /\ pc[c] = "returned" /\ ~resuming[c] => ticket[task[c]] # "queued"

(* "A dispatch that outran its timeout_seconds is not lost": its answer is  *)
(* there for a resume until it ages out or is read.                         *)
TimedOutNotLost ==
    \A c \in Call : reply[c] \in TimedOut /\ Gone(task[c]) =>
        \E d \in Call : task[d] = task[c] /\ Read(d)

(* "spoolOrphans still checks liveness and never moves a live request."     *)
SweepMovesNoLiveRequest ==
    [][\A t \in Task :
          ticket[t] # "quarantined" /\ ticket'[t] = "quarantined" => t \notin mine]_vars

(* What runs is what was asked, at most once; never what was withdrawn or    *)
(* not sent (the conjunction one run checks).                                *)
RunsAsAsked == RunsAtMostOnce /\ WithdrawnNeverRuns /\ UnsentNeverRuns

(* An answer is the task's own, is not lost unread, and is off the disk when *)
(* it must be.                                                               *)
AnswersKept == AnswerIsTheTasksOwn /\ NoAnswerLostUnread /\ ReadOnceLeavesNoFile
================================================================================
