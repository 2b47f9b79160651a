----------------------------- MODULE RunnerEnsure -----------------------------
(***************************************************************************)
(* Who starts the spool runner (src/src/dispatch.js:                       *)
(* ensureSpoolRunnerRunning and what it calls).                            *)
(*                                                                         *)
(* Every gm-mcp process that has dispatched to a project asks for its      *)
(* runner again and again, from its poll loops and from a watchdog timer.  *)
(* Two lock files keep the processes apart: one per project                *)
(* (.runner-ensure.lock, created, then written) and one for the machine    *)
(* (spool-launch.lock, linked into place with its text).  Whoever holds    *)
(* both spawns `agentplug-runner spool` and writes the child's pid into    *)
(* both.                                                                   *)
(*                                                                         *)
(* Within a process the code is synchronous, so its passes never overlap;  *)
(* between processes every system call is a step.  Times are classes:      *)
(* a lock file is fresh (at most ENSURE_LEASE_MS), aged, or old            *)
(* (ENSURE_CHILD_MAX_AGE_MS).  The interval, the backoff and the boot      *)
(* grace delay the next pass of a process by some time, and no more.       *)
(***************************************************************************)
EXTENDS Naturals, FiniteSets

CONSTANTS Proc,       \* gm-mcp processes
          Root,       \* projects they all dispatch to
          Runner,     \* process ids for spool runners
          Mortal,     \* the gm-mcp processes that may exit
          SlowPasses, \* a pass may outlast ENSURE_LEASE_MS (a suspended process)
          None

ASSUME DisjointAssumption == /\ Proc \cap Runner = {}
                             /\ None \notin Proc \cup Runner
ASSUME MortalAssumption   == Mortal \subseteq Proc /\ Mortal # Proc
ASSUME SlowAssumption     == SlowPasses \in BOOLEAN

VARIABLES
    alive,     \* gm-mcp processes that run
    pass,      \* [Proc -> the pass it is in: its next system call and its locals]
    throttled, \* [Proc -> projects asked for within the ensure interval or backoff]
    entry,     \* [Proc -> [Root -> its inflightEnsuresByRoot entry]]
    ensure,    \* [Root -> .runner-ensure.lock]
    launcher,  \* spool-launch.lock
    runner,    \* [Runner -> the process]
    served     \* [Root -> liveDaemonSweepsProject]

vars == <<alive, pass, throttled, entry, ensure, launcher, runner, served>>

Holder == Proc \cup Runner
Absent == [by |-> None, text |-> None, age |-> "none"]
File(p, text) == [by |-> p, text |-> text, age |-> "fresh"]
NoRunner == [state |-> "unused", root |-> None, by |-> None]
NoEntry  == [child |-> None, old |-> FALSE]
Idle     == [at |-> "idle", root |-> None, tries |-> 0, age |-> "none",
             handle |-> None, child |-> None]

Init == /\ alive    = Proc
        /\ pass     = [p \in Proc |-> Idle]
        /\ throttled = [p \in Proc |-> {}]
        /\ entry    = [p \in Proc |-> [r \in Root |-> NoEntry]]
        /\ ensure   = [r \in Root |-> Absent]
        /\ launcher = Absent
        /\ runner   = [n \in Runner |-> NoRunner]
        /\ served   = [r \in Root |-> FALSE]

Up(n)       == runner[n].state = "up"
PidAlive(h) == h \in alive \/ (h \in Runner /\ runner[h].state \in {"up", "killed"})

At(p, s)    == p \in alive /\ pass[p].at = s
Goto(p, s)  == pass' = [pass EXCEPT ![p].at = s]
Retry(p, s) == pass' = [pass EXCEPT ![p].at = s, ![p].tries = @ + 1]
Enter(p, s) == pass' = [pass EXCEPT ![p].at = s, ![p].tries = 1]
Finish(p)   == pass' = [pass EXCEPT ![p] = Idle]

EnsureOf(p)      == ensure[pass[p].root]
SetEnsure(p, f)  == ensure' = [ensure EXCEPT ![pass[p].root] = f]

-----------------------------------------------------------------------------
(* ensureSpoolDecision up to the locks.  An entry whose child has exited or *)
(* is older than ENSURE_CHILD_MAX_AGE_MS is dropped, and the latter killed. *)

\* Mutant: the old entry is dropped and its child left running.
ReapWithoutKill(p, r) == runner' = runner

Reap(p, r) ==
    runner' = [n \in Runner |->
                  IF entry[p][r].old /\ n = entry[p][r].child /\ Up(n)
                  THEN [runner[n] EXCEPT !.state = "killed"] ELSE runner[n]]

\* Mutant: the entry of a child that still runs does not stop the next pass.
NeverInFlight(p, r) == FALSE

RunnerEnsureInFlight(p, r) ==
    LET e == entry[p][r] IN e.child # None /\ ~e.old /\ PidAlive(e.child)

Begin(p, r) ==
    /\ At(p, "idle")
    /\ ~served[r]
    /\ ~RunnerEnsureInFlight(p, r)
    /\ r \notin throttled[p]
    /\ throttled' = [throttled EXCEPT ![p] = @ \cup {r}]
    /\ Reap(p, r)
    /\ entry' = [entry EXCEPT ![p][r] = NoEntry]
    /\ pass'  = [pass EXCEPT ![p].at = "ensureCreate", ![p].root = r, ![p].tries = 1]
    /\ UNCHANGED <<alive, ensure, launcher, served>>

-----------------------------------------------------------------------------
(* claimRunnerEnsure                                                        *)

EnsureCreate(p) ==
    /\ At(p, "ensureCreate")
    /\ IF EnsureOf(p) = Absent
       THEN SetEnsure(p, File(p, None)) /\ Goto(p, "ensureWrite")
       ELSE /\ UNCHANGED ensure
            /\ IF pass[p].tries = 2 THEN Finish(p) ELSE Goto(p, "ensureStat")
    /\ UNCHANGED <<alive, throttled, entry, launcher, runner, served>>

\* The text goes into the file this process created, if that still has the name.
EnsureWrite(p) ==
    /\ At(p, "ensureWrite")
    /\ SetEnsure(p, IF EnsureOf(p).by = p THEN File(p, p) ELSE EnsureOf(p))
    /\ Enter(p, "launchLink")
    /\ UNCHANGED <<alive, throttled, entry, launcher, runner, served>>

EnsureStat(p) ==
    /\ At(p, "ensureStat")
    /\ IF EnsureOf(p).age \in {"none", "fresh"}
       THEN Finish(p)
       ELSE pass' = [pass EXCEPT ![p].at = "ensureRead", ![p].age = EnsureOf(p).age]
    /\ UNCHANGED <<alive, throttled, entry, ensure, launcher, runner, served>>

\* Mutant: a living holder is respected whatever the age of its lock.
HeldForEver(p) == PidAlive(EnsureOf(p).text)

EnsureHeld(p) == pass[p].age # "old" /\ PidAlive(EnsureOf(p).text)

EnsureRead(p) ==
    /\ At(p, "ensureRead")
    /\ IF EnsureOf(p) = Absent \/ EnsureHeld(p) THEN Finish(p) ELSE Goto(p, "ensureRename")
    /\ UNCHANGED <<alive, throttled, entry, ensure, launcher, runner, served>>

\* reclaimLockByRename takes away the file that has the name now.
EnsureRename(p) ==
    /\ At(p, "ensureRename")
    /\ SetEnsure(p, Absent)
    /\ IF EnsureOf(p) = Absent THEN Finish(p) ELSE Retry(p, "ensureCreate")
    /\ UNCHANGED <<alive, throttled, entry, launcher, runner, served>>

-----------------------------------------------------------------------------
(* claimGlobalLauncher: at most two attempts.                               *)

LaunchLink(p) ==
    /\ At(p, "launchLink")
    /\ IF launcher = Absent
       THEN launcher' = File(p, p) /\ Goto(p, "spawn")
       ELSE UNCHANGED launcher /\ Goto(p, "launchRead")
    /\ UNCHANGED <<alive, throttled, entry, ensure, runner, served>>

\* An empty file reads as pid 0, which nobody is; a file that is gone is not reclaimed.
LauncherLockMayBeReclaimed == launcher # Absent /\ ~PidAlive(launcher.text)

LaunchRead(p) ==
    /\ At(p, "launchRead")
    /\ IF LauncherLockMayBeReclaimed THEN Goto(p, "launchUnlink") ELSE Finish(p)
    /\ UNCHANGED <<alive, throttled, entry, ensure, launcher, runner, served>>

LastTry(p) == pass[p].tries = 2

LaunchUnlink(p) ==
    /\ At(p, "launchUnlink")
    /\ launcher' = Absent
    /\ IF launcher = Absent \/ LastTry(p) THEN Finish(p) ELSE Retry(p, "launchLink")
    /\ UNCHANGED <<alive, throttled, entry, ensure, runner, served>>

-----------------------------------------------------------------------------
(* spawnRunnerDetached and trackRunnerEnsureChild.  replaceLockText opens   *)
(* the file with its content cut off, creating it if it is gone, and then   *)
(* writes.  A pid is not given out again while a lock or an entry names it. *)

Named == {launcher.text} \cup {ensure[r].text : r \in Root}
            \cup {entry[p][r].child : p \in Proc, r \in Root} \cup {pass[p].child : p \in Proc}

Spawn(p, n) ==
    /\ At(p, "spawn")
    /\ runner[n] = NoRunner /\ n \notin Named
    /\ runner' = [runner EXCEPT ![n] = [state |-> "up", root |-> pass[p].root, by |-> p]]
    /\ pass'   = [pass EXCEPT ![p].at = "launchTruncate", ![p].child = n]
    /\ UNCHANGED <<alive, throttled, entry, ensure, launcher, served>>

SpawnFails(p) ==
    /\ At(p, "spawn")
    /\ launcher' = Absent
    /\ Finish(p)
    /\ UNCHANGED <<alive, throttled, entry, ensure, runner, served>>

Opened(file, p)    == IF file = Absent THEN p ELSE file.by
Truncated(file, p) == File(Opened(file, p), None)
Written(file, p)   == IF file.by = pass[p].handle THEN File(file.by, pass[p].child) ELSE file

LaunchTruncate(p) ==
    /\ At(p, "launchTruncate")
    /\ launcher' = Truncated(launcher, p)
    /\ pass' = [pass EXCEPT ![p].at = "launchWrite", ![p].handle = Opened(launcher, p)]
    /\ UNCHANGED <<alive, throttled, entry, ensure, runner, served>>

\* recordRunnerEnsureInflight follows before the next system call.
LaunchWrite(p) ==
    /\ At(p, "launchWrite")
    /\ launcher' = Written(launcher, p)
    /\ entry' = [entry EXCEPT ![p][pass[p].root] = [child |-> pass[p].child, old |-> FALSE]]
    /\ Goto(p, "ensureTruncate")
    /\ UNCHANGED <<alive, throttled, ensure, runner, served>>

EnsureTruncate(p) ==
    /\ At(p, "ensureTruncate")
    /\ SetEnsure(p, Truncated(EnsureOf(p), p))
    /\ pass' = [pass EXCEPT ![p].at = "ensureChild", ![p].handle = Opened(EnsureOf(p), p)]
    /\ UNCHANGED <<alive, throttled, entry, launcher, runner, served>>

EnsureChild(p) ==
    /\ At(p, "ensureChild")
    /\ SetEnsure(p, Written(EnsureOf(p), p))
    /\ Finish(p)
    /\ UNCHANGED <<alive, throttled, entry, launcher, runner, served>>

-----------------------------------------------------------------------------
(* The rest of the world: time, the runner (external), process exits.       *)

\* Unless passes are slow, a lock does not stop being fresh in the middle of a claim.
LockAges(r) ==
    /\ ensure[r].age \in {"fresh", "aged"}
    /\ \/ ensure[r].age = "aged" \/ SlowPasses
       \/ \A p \in alive : pass[p].at \in {"idle", "ensureCreate", "ensureStat"}
    /\ ensure' = [ensure EXCEPT ![r].age = IF @ = "fresh" THEN "aged" ELSE "old"]
    /\ UNCHANGED <<alive, pass, throttled, entry, launcher, runner, served>>

EntryAges(p, r) ==
    /\ At(p, "idle")
    /\ entry[p][r].child # None /\ ~entry[p][r].old
    /\ entry' = [entry EXCEPT ![p][r].old = TRUE]
    /\ UNCHANGED <<alive, pass, throttled, ensure, launcher, runner, served>>

IntervalEnds(p, r) ==
    /\ At(p, "idle")
    /\ r \in throttled[p]
    /\ throttled' = [throttled EXCEPT ![p] = @ \ {r}]
    /\ UNCHANGED <<alive, pass, entry, ensure, launcher, runner, served>>

RunnerServes(n) ==
    /\ Up(n)
    /\ ~served[runner[n].root]
    /\ served' = [served EXCEPT ![runner[n].root] = TRUE]
    /\ UNCHANGED <<alive, pass, throttled, entry, ensure, launcher, runner>>

RunnerExits(n) ==
    /\ runner[n].state \in {"up", "killed"}
    /\ runner' = [runner EXCEPT ![n] = NoRunner]
    /\ UNCHANGED <<alive, pass, throttled, entry, ensure, launcher, served>>

DaemonExits(r) ==
    /\ served[r]
    /\ served' = [served EXCEPT ![r] = FALSE]
    /\ UNCHANGED <<alive, pass, throttled, entry, ensure, launcher, runner>>

ProcExits(p) ==
    /\ p \in alive \cap Mortal
    /\ alive' = alive \ {p}
    /\ Finish(p)
    /\ entry' = [entry EXCEPT ![p] = [r \in Root |-> NoEntry]]
    /\ throttled' = [throttled EXCEPT ![p] = {}]
    /\ UNCHANGED <<ensure, launcher, runner, served>>

-----------------------------------------------------------------------------
PassStep(p) ==
    \/ EnsureCreate(p) \/ EnsureWrite(p) \/ EnsureStat(p) \/ EnsureRead(p) \/ EnsureRename(p)
    \/ LaunchLink(p) \/ LaunchRead(p) \/ LaunchUnlink(p)
    \/ \E n \in Runner : Spawn(p, n)
    \/ LaunchTruncate(p) \/ LaunchWrite(p) \/ EnsureTruncate(p) \/ EnsureChild(p)

Next ==
    \/ \E p \in Proc : PassStep(p) \/ SpawnFails(p) \/ ProcExits(p)
    \/ \E p \in Proc, r \in Root : Begin(p, r) \/ EntryAges(p, r) \/ IntervalEnds(p, r)
    \/ \E r \in Root : LockAges(r) \/ DaemonExits(r)
    \/ \E n \in Runner : RunnerServes(n) \/ RunnerExits(n)

Spec == Init /\ [][Next]_vars

(* A pass is synchronous and runs to its end; the watchdog timer of each    *)
(* project keeps firing while a process lives; time passes; a killed child  *)
(* exits; a process that tries to spawn again and again succeeds at last.   *)
Fairness ==
    /\ \A p \in Proc : WF_vars(PassStep(p)) /\ SF_vars(\E n \in Runner : Spawn(p, n))
    /\ \A p \in Proc, r \in Root :
          WF_vars(Begin(p, r)) /\ WF_vars(EntryAges(p, r)) /\ WF_vars(IntervalEnds(p, r))
    /\ \A r \in Root : WF_vars(LockAges(r))
    /\ \A n \in Runner : WF_vars(runner[n].state = "killed" /\ RunnerExits(n))
FairSpec == Spec /\ Fairness

-----------------------------------------------------------------------------
(* Properties.                                                              *)

Stages == {"idle", "ensureCreate", "ensureWrite", "ensureStat", "ensureRead", "ensureRename",
           "launchLink", "launchRead", "launchUnlink", "spawn", "launchTruncate", "launchWrite",
           "ensureTruncate", "ensureChild"}
Files  == [by : Proc \cup {None}, text : Holder \cup {None}, age : {"none", "fresh", "aged", "old"}]

TypeOK ==
    /\ alive \in SUBSET Proc /\ alive # {}
    /\ pass \in [Proc -> [at : Stages, root : Root \cup {None}, tries : 0..2,
                         age : {"none", "aged", "old"}, handle : Proc \cup {None},
                         child : Runner \cup {None}]]
    /\ throttled \in [Proc -> SUBSET Root]
    /\ entry \in [Proc -> [Root -> [child : Runner \cup {None}, old : BOOLEAN]]]
    /\ ensure \in [Root -> Files]
    /\ launcher \in Files
    /\ runner \in [Runner -> [state : {"unused", "up", "killed"}, root : Root \cup {None},
                              by : Proc \cup {None}]]
    /\ served \in [Root -> BOOLEAN]

RunsFor(n, r) == Up(n) /\ runner[n].root = r

(* One process never stacks runners for a project: "runnerEnsureInFlight    *)
(* now suppresses a spawn while the previous one for that root is still     *)
(* running", and what it no longer counts it has killed.                    *)
OneRunnerPerProcess ==
    \A p \in Proc, r \in Root :
        Cardinality({n \in Runner : RunsFor(n, r) /\ runner[n].by = p}) <= 1

(* "one cold start no longer stacks runners": across processes, the locks   *)
(* leave one spool runner per project.                                      *)
OneRunnerPerProject ==
    \A r \in Root : Cardinality({n \in Runner : RunsFor(n, r)}) <= 1

(* A project nobody sweeps is given a runner again, whatever process died   *)
(* with which lock in its hands.                                            *)
UnservedGetsRunner ==
    \A r \in Root : ~served[r] ~> served[r] \/ \E n \in Runner : RunsFor(n, r)

(* "a hung spool cannot block supervision forever": a runner that does not  *)
(* get its project swept is killed or superseded.                           *)
Replaced(n, r) == served[r] \/ ~RunsFor(n, r) \/ \E m \in Runner \ {n} : RunsFor(m, r)

HungSpoolReplaced ==
    \A n \in Runner, r \in Root : RunsFor(n, r) ~> Replaced(n, r)

(* What holds of it: the process that started the runner must go on living, *)
(* because only that process reaps it.                                      *)
HungSpoolReaped ==
    \A n \in Runner, r \in Root :
        RunsFor(n, r) /\ runner[n].by \notin Mortal ~> Replaced(n, r)

(* The state is typed, and no process stacks runners for a project.          *)
EnsureInv == TypeOK /\ OneRunnerPerProcess
================================================================================
