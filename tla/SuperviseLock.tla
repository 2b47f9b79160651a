----------------------------- MODULE SuperviseLock -----------------------------
(* The lock of the stdio supervisor (gm-supervise.js): supervisors of one     *)
(* project, started and killed in any order, between any two of their file    *)
(* operations.                                                                *)
EXTENDS Naturals

CONSTANT Boss   \* supervisors, one process each

ASSUME BossNames == {"none", "earlier"} \cap Boss = {}

VARIABLES
    superLock,  \* the lock file: who made it, and whether its pid is written yet
    boss,       \* [at: its line, tried, judged: the holder it read]
    snatched    \* a supervisor removed another lock than the one it judged

superVars == <<superLock, boss, snatched>>

NoLock == [by |-> "none", written |-> FALSE]
\* A supervisor of an earlier time, killed before it wrote its pid or later.
Left == [by : {"earlier"}, written : BOOLEAN]

SuperInit ==
    /\ superLock \in {NoLock} \cup Left
    /\ boss = [b \in Boss |-> [at |-> "off", tried |-> 0, judged |-> "none"]]
    /\ snatched = FALSE

BossAt(b, at) == boss[b].at = at
BossRuns(b) == b \in Boss /\ boss[b].at \notin {"off", "gone"}
BossGoes(b, at) == boss' = [boss EXCEPT ![b].at = at]

Starts(b) == BossAt(b, "off") /\ BossGoes(b, "open") /\ UNCHANGED <<superLock, snatched>>

\* acquireLock: two attempts to create the file; who has it is read, and a
\* holder without a process loses the file, whoever is in it by then.
CreatesLock(b) ==
    /\ BossAt(b, "open") /\ boss[b].tried < 2
    /\ IF superLock = NoLock THEN superLock' = [by |-> b, written |-> FALSE] /\ BossGoes(b, "write")
       ELSE BossGoes(b, "read") /\ UNCHANGED superLock
    /\ UNCHANGED snatched
WritesPid(b) ==
    /\ BossAt(b, "write") /\ BossGoes(b, "serves")
    /\ superLock' = IF superLock.by = b THEN [superLock EXCEPT !.written = TRUE] ELSE superLock
    /\ UNCHANGED snatched
\* A lock without a pid is taken for one of a supervisor that runs.
HolderGone(lock) == lock.written /\ ~BossRuns(lock.by)
ReadsHolder(b) ==
    /\ BossAt(b, "read")
    /\ boss' = IF superLock = NoLock THEN [boss EXCEPT ![b].at = "open", ![b].tried = @ + 1]
               ELSE IF HolderGone(superLock) THEN [boss EXCEPT ![b].at = "unlink", ![b].judged = superLock.by]
               ELSE [boss EXCEPT ![b].at = "gone"]
    /\ UNCHANGED <<superLock, snatched>>
Unlinks(b) ==
    /\ BossAt(b, "unlink")
    /\ superLock' = NoLock
    /\ snatched' = (snatched \/ superLock.by \notin {"none", boss[b].judged})
    /\ boss' = [boss EXCEPT ![b].at = "open", ![b].tried = @ + 1]
Contended(b) == BossAt(b, "open") /\ boss[b].tried = 2 /\ BossGoes(b, "gone") /\ UNCHANGED <<superLock, snatched>>

\* releaseLock, as the process exits: the file goes if it is this one's.
ReadsOwn(b) == BossAt(b, "serves") /\ BossGoes(b, IF superLock = [by |-> b, written |-> TRUE] THEN "release" ELSE "gone") /\ UNCHANGED <<superLock, snatched>>
Releases(b) ==
    /\ BossAt(b, "release") /\ BossGoes(b, "gone")
    /\ superLock' = NoLock /\ snatched' = (snatched \/ superLock.by \notin {"none", b})
\* A kill: the lock stays as it is.
Killed(b) == BossRuns(b) /\ BossGoes(b, "gone") /\ UNCHANGED <<superLock, snatched>>

SuperNext ==
    \E b \in Boss :
        \/ Starts(b) \/ CreatesLock(b) \/ WritesPid(b) \/ ReadsHolder(b) \/ Unlinks(b) \/ Contended(b)
        \/ ReadsOwn(b) \/ Releases(b) \/ Killed(b)

-----------------------------------------------------------------------------
SuperTypeOK ==
    /\ superLock.by \in {"none", "earlier"} \cup Boss /\ superLock.written \in BOOLEAN
    /\ \A b \in Boss : boss[b].tried \in 0..2 /\ boss[b].judged \in {"none", "earlier"} \cup Boss

(* Two supervisors do not serve one project: of those that start together,   *)
(* and with a lock its creator has not written to yet, one goes on. What     *)
(* breaks it is a supervisor that removes a lock made after its judgement.   *)
OneBoss == ~snatched => \A b, d \in Boss : BossAt(b, "serves") /\ BossAt(d, "serves") => b = d

(* Nor does one leave the lock of another behind it: while one serves, the   *)
(* lock is its own.                                                          *)
BossHasLock == ~snatched => \A b \in Boss : BossAt(b, "serves") => superLock.by = b

SuperInv == SuperTypeOK /\ OneBoss /\ BossHasLock
================================================================================
