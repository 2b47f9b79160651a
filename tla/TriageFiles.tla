------------------------------- MODULE TriageFiles -------------------------------
(* write_queue and spool_orphans (triage-verbs.js). The queue of a repository *)
(* is read, changed and written under a lock file that is removed once old;   *)
(* orphaned requests are moved out of the spool by what one process table     *)
(* and one listing show, while the runner goes on.                            *)
EXTENDS Naturals, FiniteSets

CONSTANTS
    Writer,   \* calls of write_queue
    QueueRow,
    Asked     \* requests in the spool

VARIABLES
    queue,   \* rows of the file
    qlock,   \* whose lock file is there
    writer,  \* the calls: [at, act, row, read, judged]
    due,     \* history: rows added and not done
    mixed    \* history: a call removed another lock than the one it had judged

queueVars == <<queue, qlock, writer, due, mixed>>

NoOne == "no one"
ASSUME NoOneAssumption == NoOne \notin Writer

StagesOfWriter == {"try", "drop", "read", "write", "unlock", "answered", "busy", "dead"}

QueueInit ==
    /\ queue \in SUBSET QueueRow /\ qlock = NoOne /\ due = queue /\ mixed = FALSE
    /\ writer \in [Writer -> [at : {"try"}, act : {"add", "done"}, row : QueueRow,
                              read : {{}}, judged : {NoOne}]]

WriterAt(w, stage) == writer[w].at = stage
GoesTo(w, stage) == writer' = [writer EXCEPT ![w].at = stage]

\* Mutant of Free: the lock is opened, not created.
FreeAny(w) == TRUE
Free(w) == qlock = NoOne

LocksQueue(w) ==
    /\ WriterAt(w, "try") /\ Free(w)
    /\ qlock' = w /\ GoesTo(w, "read")
    /\ UNCHANGED <<queue, due, mixed>>

\* statOf: the lock of a call that died is old in the end, that of a live one never.
JudgesLock(w) ==
    /\ WriterAt(w, "try") /\ qlock \in Writer /\ WriterAt(qlock, "dead")
    /\ writer' = [writer EXCEPT ![w].at = "drop", ![w].judged = qlock]
    /\ UNCHANGED <<queue, qlock, due, mixed>>

DropsLock(w) ==
    /\ WriterAt(w, "drop")
    /\ qlock' = NoOne /\ GoesTo(w, "try")
    /\ mixed' = (mixed \/ qlock \notin {NoOne, writer[w].judged})
    /\ UNCHANGED <<queue, due>>

\* queue_busy, the deadline passed.
GivesUp(w) ==
    /\ WriterAt(w, "try") /\ qlock # NoOne
    /\ GoesTo(w, "busy")
    /\ UNCHANGED <<queue, qlock, due, mixed>>

ReadsQueue(w) ==
    /\ WriterAt(w, "read")
    /\ writer' = [writer EXCEPT ![w].at = "write", ![w].read = queue]
    /\ UNCHANGED <<queue, qlock, due, mixed>>

With(w, rows) == IF writer[w].act = "add" THEN rows \cup {writer[w].row} ELSE rows \ {writer[w].row}

\* writeAtomic
WritesQueue(w) ==
    /\ WriterAt(w, "write")
    /\ queue' = With(w, writer[w].read) /\ due' = With(w, due)
    /\ GoesTo(w, "unlock")
    /\ UNCHANGED <<qlock, mixed>>

UnlocksQueue(w) ==
    /\ WriterAt(w, "unlock")
    /\ mixed' = (mixed \/ qlock \notin {NoOne, w})
    /\ qlock' = NoOne /\ GoesTo(w, "answered")
    /\ UNCHANGED <<queue, due>>

\* The server ends; one is enough.
WriterDies(w) ==
    /\ writer[w].at \in {"read", "write", "unlock"}
    /\ \A v \in Writer : ~WriterAt(v, "dead")
    /\ GoesTo(w, "dead")
    /\ UNCHANGED <<queue, qlock, due, mixed>>

QueueStep ==
    \E w \in Writer : LocksQueue(w) \/ JudgesLock(w) \/ DropsLock(w) \/ GivesUp(w) \/ ReadsQueue(w)
                        \/ WritesQueue(w) \/ UnlocksQueue(w) \/ WriterDies(w)

-----------------------------------------------------------------------------
(* spool_orphans, of one root.                                               *)

VARIABLES
    spooled, \* where each request is: "in", "inflight", "done", "aside"
    served,  \* requests a process serves, its id in the command line
    orphans, \* the call: [at, table, files]
    serving  \* history: requests served since before the call read the table

orphanVars == <<spooled, served, orphans, serving>>

NoListing == [at |-> "off", table |-> {}, files |-> {}, unserved |-> FALSE]

OrphanInit ==
    /\ spooled \in [Asked -> {"in", "inflight"}]
    /\ served \in SUBSET {a \in Asked : spooled[a] = "inflight"}
    /\ orphans = NoListing /\ serving = {}

\* The runner: claims by rename, a process of its own for each; answers; dies.
Claims(a) ==
    /\ spooled[a] = "in"
    /\ spooled' = [spooled EXCEPT ![a] = "inflight"] /\ served' = served \cup {a}
    /\ UNCHANGED <<orphans, serving>>
Answers(a) ==
    /\ a \in served
    /\ spooled' = [spooled EXCEPT ![a] = IF @ = "inflight" THEN "done" ELSE @]
    /\ served' = served \ {a} /\ serving' = serving \ {a}
    /\ UNCHANGED orphans
RunnerDies ==
    /\ served # {} /\ served' = {} /\ serving' = {}
    /\ UNCHANGED <<spooled, orphans>>

ReadsProcesses ==
    /\ orphans.at = "off"
    /\ \E unserved \in BOOLEAN : orphans' = [at |-> "list", table |-> served, files |-> {}, unserved |-> unserved]
    /\ serving' = {a \in served : spooled[a] = "inflight"}
    /\ UNCHANGED <<spooled, served>>

\* Claimed, and no command line of the table has its id.
Orphan(a) == spooled[a] = "inflight" /\ a \notin orphans.table

\* What is listed is judged at once; plain requests only by their age.
ListsSpool ==
    /\ orphans.at = "list"
    /\ \E old \in SUBSET {a \in Asked : spooled[a] = "in" /\ orphans.unserved} :
          orphans' = [orphans EXCEPT !.at = "move", !.files = {<<a, spooled[a]>> : a \in old \cup {b \in Asked : Orphan(b)}}]
    /\ UNCHANGED <<spooled, served, serving>>

\* renameSync by the name it was listed under; it fails when that is gone.
MovesAside(f) ==
    /\ orphans.at = "move" /\ f \in orphans.files
    /\ spooled' = IF spooled[f[1]] = f[2] THEN [spooled EXCEPT ![f[1]] = "aside"] ELSE spooled
    /\ orphans' = [orphans EXCEPT !.files = @ \ {f}]
    /\ UNCHANGED <<served, serving>>

OrphansEnd ==
    /\ orphans.at = "move" /\ orphans.files = {}
    /\ orphans' = NoListing /\ serving' = {}
    /\ UNCHANGED <<spooled, served>>

OrphanStep ==
    \/ \E a \in Asked : Claims(a) \/ Answers(a)
    \/ RunnerDies \/ ReadsProcesses \/ ListsSpool \/ OrphansEnd
    \/ \E f \in Asked \X {"in", "inflight"} : MovesAside(f)

\* The two share no file.
TriageSpec ==
    /\ QueueInit /\ OrphanInit
    /\ [][\/ QueueStep /\ UNCHANGED orphanVars
          \/ OrphanStep /\ UNCHANGED queueVars]_<<queueVars, orphanVars>>

-----------------------------------------------------------------------------
TriageTypeOK ==
    /\ queue \subseteq QueueRow /\ qlock \in Writer \cup {NoOne}
    /\ \A w \in Writer : writer[w].at \in StagesOfWriter
    /\ spooled \in [Asked -> {"in", "inflight", "done", "aside"}] /\ served \subseteq Asked
    /\ orphans.at \in {"off", "list", "move"}

(* A row added and not done stays queued, one done does not come back,       *)
(* whatever writers wait, give up, die and find the lock of a dead one, as   *)
(* long as nobody removes a lock under a name it judged of another lock.     *)
QueueKept == ~mixed => queue = due

(* "live requests stay where they are": those served since before the table  *)
(* was read, whatever is claimed and answered meanwhile. One that is claimed *)
(* between the table and the listing does not.                               *)
LiveStays == \A a \in serving : spooled[a] # "aside"

(* The state is typed, the queue keeps its rows, and live requests stay.     *)
TriageInv == TriageTypeOK /\ QueueKept /\ LiveStays
================================================================================
