----------------------------- MODULE ReleaseBridge -----------------------------
(* How gm-mcp installs the runner and the guest plugin (release-bridge.js).   *)
(* Every server makes one run when it starts, under one lock file: it asks    *)
(* again for a signal that was put off, then for each of the two repositories *)
(* compares the latest release with what is installed, downloads it, swaps it *)
(* in by two renames and signals the shared daemon to make room for one that  *)
(* loads the new builds. A process may end at any step.                       *)
(* A build is the number of its release. Builds made locally, backups and the *)
(* records that only tell people what was installed are left out.             *)
EXTENDS Naturals

CONSTANTS
    Proc,        \* gm-mcp servers
    LastRelease, \* releases of either repository are 1..LastRelease
    MaxFault,    \* how often a process ends in the middle of a run, a step fails or has to wait
    None

Release == 1..LastRelease
Part    == {"runner", "guest"}

BoundAssumption ==
    /\ LastRelease \in Nat \ {0} /\ MaxFault \in Nat
    /\ None \notin Proc \cup Release
ASSUME BoundAssumption

VARIABLES
    latest,     \* latest[r]: the latest release
    file,       \* file[r]: the build installed, None when the file is missing
    recorded,   \* version of the guest in gm.version
    lock,       \* the lock file: its creator, the pid in it, its age; NoLock when missing
    state,      \* gm-mcp-release-bridge.json
    daemon,     \* the builds the daemon has loaded, None when none runs
    status,     \* daemon-status.json: "none", of an "older" daemon than daemon-owner.lock names, its "own"
    throttled,  \* GitHub refuses requests until its reset time: "no", "told", "forgotten" by the run told so
    run,        \* the run each process is in
    faults,     \* faults so far: nothing fails or has to wait for ever
    overlapped  \* history: two processes were in the locked region at once

installVars == <<latest, file, recorded>>
daemonVars  == <<daemon, status>>
vars == <<installVars, lock, state, daemonVars, throttled, run, faults, overlapped>>

NoLock == [by |-> None, pid |-> None, old |-> FALSE]
NothingWanted == [r \in Part |-> None]
NoRun  == [at |-> "off", again |-> FALSE, seen |-> [recent |-> FALSE, backoff |-> FALSE, pending |-> None],
           part |-> "runner", release |-> None, old |-> None,
           want |-> NothingWanted, limited |-> "no", owed |-> None]

Init ==
    /\ latest = [r \in Part |-> 1]
    /\ file \in [Part -> {1, None}]
    /\ recorded = file["guest"]
    /\ lock = NoLock
    /\ state = [recent |-> FALSE, backoff |-> FALSE, pending |-> None]
    /\ daemon = None /\ status = "none"
    /\ throttled = "no"
    /\ run = [p \in Proc |-> NoRun]
    /\ faults = 0
    /\ overlapped = FALSE

Fault == faults < MaxFault /\ faults' = faults + 1

At(p, stage)  == run[p].at = stage
Goes(p, stage) == run' = [run EXCEPT ![p].at = stage]
Stops(p)      == run' = [run EXCEPT ![p] = NoRun]

Locked(p) == run[p].at \notin {"off", "acquire", "judge", "rename"}
Alive(pid) == pid # None /\ run[pid].at # "off"

-----------------------------------------------------------------------------
(* acquireLock and the removal of the lock in withBridgeLock.               *)

Launch(p) ==
    /\ At(p, "off")
    /\ Goes(p, "acquire")
    /\ UNCHANGED <<installVars, lock, state, daemonVars, throttled, faults, overlapped>>

LockCreate(p) ==
    /\ At(p, "acquire")
    /\ lock = NoLock
    /\ lock' = [by |-> p, pid |-> None, old |-> FALSE]
    /\ Goes(p, "write")
    /\ overlapped' = (overlapped \/ \E q \in Proc : Locked(q))
    /\ UNCHANGED <<installVars, state, daemonVars, throttled, faults>>

LockWrite(p) ==
    /\ At(p, "write")
    /\ lock' = IF lock.by = p THEN [lock EXCEPT !.pid = p] ELSE lock
    /\ Goes(p, "load")
    /\ UNCHANGED <<installVars, state, daemonVars, throttled, faults, overlapped>>

LockExists(p) ==
    /\ At(p, "acquire")
    /\ lock # NoLock
    /\ Goes(p, "judge")
    /\ UNCHANGED <<installVars, lock, state, daemonVars, throttled, faults, overlapped>>

\* One attempt more, or none: the run answers "busy".
Retries(p) ==
    run' = [run EXCEPT ![p] = IF run[p].again THEN NoRun ELSE [NoRun EXCEPT !.at = "acquire", !.again = TRUE]]

StaleLock(l) == ~Alive(l.pid) \/ l.old

LockJudge(p) ==
    /\ At(p, "judge")
    /\ IF lock = NoLock THEN Retries(p)
       ELSE IF StaleLock(lock) THEN Goes(p, "rename")
       ELSE Stops(p)
    /\ UNCHANGED <<installVars, lock, state, daemonVars, throttled, faults, overlapped>>

\* Whatever file has the name by now is renamed away.
LockRename(p) ==
    /\ At(p, "rename")
    /\ IF lock = NoLock THEN Stops(p) ELSE Retries(p)
    /\ lock' = NoLock
    /\ UNCHANGED <<installVars, state, daemonVars, throttled, faults, overlapped>>

LockRelease(p) ==
    /\ At(p, "release")
    /\ lock' = NoLock
    /\ Stops(p)
    /\ UNCHANGED <<installVars, state, daemonVars, throttled, faults, overlapped>>

-----------------------------------------------------------------------------
(* signalDaemonForSwap. The daemon that is signalled exits; if it exits by  *)
(* itself just before, the kill throws and with it the whole run fails. A   *)
(* dispatch in flight, or an update of the runner, puts the signal off.     *)

Serves(builds, want) == \A r \in Part : want[r] \in {None, builds[r]}

Verdicts(want) ==
    IF daemon = None \/ status = "none" THEN {"no-daemon"}
    ELSE IF status = "older" THEN {"refused"}
    ELSE IF Serves(daemon, want) THEN {"already-current"}
    ELSE {"deferred", "signalled", "thrown"}

SignalDaemon(verdict) ==
    /\ daemon' = IF verdict \in {"signalled", "thrown"} THEN None ELSE daemon
    /\ UNCHANGED status

-----------------------------------------------------------------------------
(* The run: its state file, the signal put off, the limits on requests.     *)

LoadState(p) ==
    /\ At(p, "load")
    /\ run' = [run EXCEPT ![p].seen = state, ![p].at = IF state.pending = None THEN "limits" ELSE "retry"]
    /\ UNCHANGED <<installVars, lock, state, daemonVars, throttled, faults, overlapped>>

RetryPendingSignal(p) ==
    /\ At(p, "retry")
    /\ \E verdict \in Verdicts(run[p].seen.pending) :
          /\ SignalDaemon(verdict)
          /\ IF verdict \in {"deferred", "thrown"} THEN Fault ELSE UNCHANGED faults
          /\ run' = [run EXCEPT
                       ![p].at = IF verdict = "thrown" THEN "release" ELSE "limits",
                       ![p].seen.pending = IF verdict = "deferred" THEN @ ELSE None]
    /\ UNCHANGED <<installVars, lock, state, throttled, overlapped>>

\* Mutant of MayAsk: the reset time GitHub gave is not looked at.
MayAskAnyway(p) == ~run[p].seen.recent

MayAsk(p) == ~run[p].seen.backoff /\ ~run[p].seen.recent

Asks(p) ==
    /\ At(p, "limits")
    /\ MayAsk(p)
    /\ Goes(p, "ask")
    /\ UNCHANGED <<installVars, lock, state, daemonVars, throttled, faults, overlapped>>

\* Only the pending signal can have changed.
AsksNot(p) ==
    /\ At(p, "limits")
    /\ ~MayAsk(p)
    /\ state' = run[p].seen
    /\ Goes(p, "release")
    /\ UNCHANGED <<installVars, lock, daemonVars, throttled, faults, overlapped>>

\* Mutant of Settled: a signal put off earlier is only kept by a swap.
SettledForgets(r) ==
    [recent |-> r.limited = "no", backoff |-> r.limited = "until", pending |-> r.owed]

Settled(r) ==
    [recent  |-> r.limited = "no",
     backoff |-> r.limited = "until",
     pending |-> IF r.want = NothingWanted THEN r.seen.pending ELSE r.owed]

Settle(p) ==
    /\ At(p, "settle")
    /\ state' = Settled(run[p])
    /\ Goes(p, "release")
    /\ UNCHANGED <<installVars, lock, daemonVars, throttled, faults, overlapped>>

-----------------------------------------------------------------------------
(* reconcileRepo, first for the runner and then for the guest.              *)

Reconciled(r) ==
    IF r.part = "runner" THEN [r EXCEPT !.at = "ask", !.part = "guest", !.release = None, !.old = None]
    ELSE [r EXCEPT !.part = "runner",
                   !.at = IF r.want = NothingWanted THEN "settle" ELSE "signal",
                   !.release = None, !.old = None]

Leaves(p) == run' = [run EXCEPT ![p] = Reconciled(@)]

Answered(p) ==
    /\ At(p, "ask")
    /\ throttled = "no"
    /\ run' = [run EXCEPT ![p].release = latest[run[p].part], ![p].at = "compare"]
    /\ UNCHANGED <<installVars, lock, state, daemonVars, throttled, faults, overlapped>>

AskFails(p) ==
    /\ At(p, "ask")
    /\ Leaves(p)
    /\ Fault
    /\ UNCHANGED <<installVars, lock, state, daemonVars, throttled, overlapped>>

RateLimited(p) ==
    /\ At(p, "ask")
    /\ throttled' = "told"
    /\ run' = [run EXCEPT ![p] = Reconciled([@ EXCEPT !.limited = "until"])]
    /\ Fault
    /\ UNCHANGED <<installVars, lock, state, daemonVars, overlapped>>

\* Mutant of Upgrades: a guest that is not there is not installed.
UpgradesPresent(part, release) ==
    CASE part = "runner" -> file[part] = None \/ release > file[part]
      [] part = "guest"  -> recorded # None /\ release > recorded

\* The runner is asked for its version; the guest's is the one recorded beside it.
Upgrades(part, release) ==
    CASE part = "runner" -> file[part] = None \/ release > file[part]
      [] part = "guest"  -> IF recorded = None THEN file[part] = None ELSE release > recorded

Compare(p) ==
    /\ At(p, "compare")
    /\ IF Upgrades(run[p].part, run[p].release) THEN Goes(p, "download") ELSE Leaves(p)
    /\ UNCHANGED <<installVars, lock, state, daemonVars, throttled, faults, overlapped>>

Downloaded(p) ==
    /\ At(p, "download")
    /\ run' = [run EXCEPT ![p].old = file[run[p].part],
                          ![p].at  = IF file[run[p].part] = None THEN "install" ELSE "backup"]
    /\ UNCHANGED <<installVars, lock, state, daemonVars, throttled, faults, overlapped>>

\* A request, a checksum, the self-check of the staged file or a rename fails,
\* or the runner is pinned or being updated by the daemon.
ReconcileFails(p) ==
    /\ run[p].at \in {"compare", "download", "backup"}
    /\ Leaves(p)
    /\ Fault
    /\ UNCHANGED <<installVars, lock, state, daemonVars, throttled, overlapped>>

\* swapIn: the installed file is renamed to a backup, the new one to its name.
Backup(p) ==
    /\ At(p, "backup")
    /\ file[run[p].part] # None
    /\ file' = [file EXCEPT ![run[p].part] = None]
    /\ Goes(p, "install")
    /\ UNCHANGED <<latest, recorded, lock, state, daemonVars, throttled, faults, overlapped>>

Install(p) ==
    /\ At(p, "install")
    /\ file' = [file EXCEPT ![run[p].part] = run[p].release]
    /\ Goes(p, "record")
    /\ UNCHANGED <<latest, recorded, lock, state, daemonVars, throttled, faults, overlapped>>

InstallFails(p) ==
    /\ At(p, "install")
    /\ file' = IF run[p].old = None THEN file ELSE [file EXCEPT ![run[p].part] = run[p].old]
    /\ Leaves(p)
    /\ Fault
    /\ UNCHANGED <<latest, recorded, lock, state, daemonVars, throttled, overlapped>>

Record(p) ==
    /\ At(p, "record")
    /\ recorded' = IF run[p].part = "guest" THEN run[p].release ELSE recorded
    /\ run' = [run EXCEPT ![p] = Reconciled([@ EXCEPT !.want[run[p].part] = run[p].release])]
    /\ UNCHANGED <<latest, file, lock, state, daemonVars, throttled, faults, overlapped>>

\* gm.version or what is written after it cannot be: the build is in place, and
\* the daemon is not told of it.
RecordFails(p) ==
    /\ At(p, "record")
    /\ \/ UNCHANGED recorded
       \/ run[p].part = "guest" /\ recorded' = run[p].release
    /\ Leaves(p)
    /\ Fault
    /\ UNCHANGED <<latest, file, lock, state, daemonVars, throttled, overlapped>>

\* History: a run that was rate limited ends before it settles.
Forgotten(p) == IF throttled = "told" /\ run[p].limited = "until" THEN "forgotten" ELSE throttled

SignalSwap(p) ==
    /\ At(p, "signal")
    /\ \E verdict \in Verdicts(run[p].want) :
          /\ SignalDaemon(verdict)
          /\ IF verdict \in {"deferred", "thrown"} THEN Fault ELSE UNCHANGED faults
          /\ run' = [run EXCEPT ![p].at   = IF verdict = "thrown" THEN "release" ELSE "settle",
                                ![p].owed = IF verdict = "deferred" THEN run[p].want ELSE None]
    /\ throttled' = IF run'[p].at = "release" THEN Forgotten(p) ELSE throttled
    /\ UNCHANGED <<installVars, lock, state, overlapped>>

-----------------------------------------------------------------------------
(* The process, the daemon, time and upstream.                              *)

Crash(p) ==
    /\ ~At(p, "off")
    /\ Fault
    /\ throttled' = Forgotten(p)
    /\ Stops(p)
    /\ UNCHANGED <<installVars, lock, state, daemonVars, overlapped>>

\* A dispatch starts the daemon: it takes daemon-owner.lock and loads what is installed.
DaemonStarts ==
    /\ daemon = None
    /\ \A r \in Part : file[r] # None
    /\ daemon' = file
    /\ status' = IF status = "none" THEN "none" ELSE "older"
    /\ UNCHANGED <<installVars, lock, state, throttled, run, faults, overlapped>>

DaemonReports ==
    /\ daemon # None /\ status # "own"
    /\ status' = "own"
    /\ UNCHANGED <<installVars, lock, state, daemon, throttled, run, faults, overlapped>>

DaemonExits ==
    /\ daemon # None
    /\ daemon' = None
    /\ UNCHANGED <<installVars, lock, state, status, throttled, run, faults, overlapped>>

LockAges ==
    /\ lock # NoLock /\ ~lock.old
    /\ lock' = [lock EXCEPT !.old = TRUE]
    /\ UNCHANGED <<installVars, state, daemonVars, throttled, run, faults, overlapped>>

IntervalEnds ==
    /\ state.recent
    /\ state' = [state EXCEPT !.recent = FALSE]
    /\ run' = [p \in Proc |-> [run[p] EXCEPT !.seen.recent = FALSE]]
    /\ UNCHANGED <<installVars, lock, daemonVars, throttled, faults, overlapped>>

ThrottleEnds ==
    /\ throttled # "no"
    /\ throttled' = "no"
    /\ state' = [state EXCEPT !.backoff = FALSE]
    /\ run' = [p \in Proc |-> [run[p] EXCEPT !.seen.backoff = FALSE,
                                            !.limited = IF @ = "no" THEN "no" ELSE "past"]]
    /\ UNCHANGED <<installVars, lock, daemonVars, faults, overlapped>>

Publish(part) ==
    /\ latest[part] < LastRelease
    /\ latest' = [latest EXCEPT ![part] = @ + 1]
    /\ UNCHANGED <<file, recorded, lock, state, daemonVars, throttled, run, faults, overlapped>>

-----------------------------------------------------------------------------
TakesLock(p)  == LockCreate(p) \/ LockWrite(p) \/ LockExists(p) \/ LockJudge(p) \/ LockRename(p)
Decides(p)    == LoadState(p) \/ RetryPendingSignal(p) \/ Asks(p) \/ AsksNot(p)
Reconciles(p) ==
    \/ Answered(p) \/ AskFails(p) \/ RateLimited(p) \/ Compare(p) \/ Downloaded(p) \/ ReconcileFails(p)
    \/ Backup(p) \/ Install(p) \/ InstallFails(p) \/ Record(p) \/ RecordFails(p)
EndsRun(p)    == SignalSwap(p) \/ Settle(p) \/ LockRelease(p)
Continues(p)  == TakesLock(p) \/ Decides(p) \/ Reconciles(p) \/ EndsRun(p)

Next ==
    \/ \E p \in Proc : Launch(p) \/ Continues(p) \/ Crash(p)
    \/ DaemonStarts \/ DaemonReports \/ DaemonExits
    \/ LockAges \/ IntervalEnds \/ ThrottleEnds
    \/ \E part \in Part : Publish(part)

Spec == Init /\ [][Next]_vars

(* Servers are started again and again and come to the end of their runs;   *)
(* time passes; the daemon reports.                                         *)
Fairness ==
    /\ WF_vars(LockAges) /\ WF_vars(IntervalEnds) /\ WF_vars(ThrottleEnds) /\ WF_vars(DaemonReports)
    /\ \A p \in Proc : WF_vars(Launch(p)) /\ WF_vars(Continues(p))

FairSpec == Spec /\ Fairness

-----------------------------------------------------------------------------
(* Properties.                                                              *)

Version == Release \cup {None}
Builds  == [Part -> Version]
States  == [recent : BOOLEAN, backoff : BOOLEAN, pending : Builds \cup {None}]

TypeOK ==
    /\ latest \in [Part -> Release]
    /\ file \in Builds
    /\ recorded \in Version
    /\ lock \in [by : Proc \cup {None}, pid : Proc \cup {None}, old : BOOLEAN]
    /\ state \in States
    /\ daemon \in Builds \cup {None}
    /\ status \in {"none", "older", "own"}
    /\ throttled \in {"no", "told", "forgotten"}
    /\ run \in [Proc -> [at : {"off", "acquire", "write", "judge", "rename", "load", "retry", "limits", "ask",
                               "compare", "download", "backup", "install", "record", "signal", "settle", "release"},
                         again : BOOLEAN, seen : States, part : Part, release : Version, old : Version,
                         want : Builds, limited : {"no", "until", "past"}, owed : Builds \cup {None}]]
    /\ faults \in 0..MaxFault
    /\ overlapped \in BOOLEAN

(* "at most once per 10 minutes", and not before the reset time GitHub gave *)
(* to an earlier run: no run begins to ask while it knows better, unless a  *)
(* lock was taken over or the run told so never settled.                    *)
LimitsKept == [][\A p \in Proc : Asks(p) => overlapped \/ (throttled # "told" /\ ~state.recent)]_vars

(* The runner of the last release gets installed, whatever runs fail, end   *)
(* in the middle of a swap or take the lock from one another.               *)
RunnerInstalled ==
    latest["runner"] = LastRelease ~> file["runner"] = LastRelease

(* The guest too, but its version is only known from the record.            *)
GuestInstalled ==
    latest["guest"] = LastRelease ~>
        \/ file["guest"] = LastRelease
        \/ file["guest"] # None /\ recorded = None
        \/ overlapped

(* A signal that was put off is made in the end: a daemon that runs older   *)
(* builds than it was to make room for exits.                               *)
Outdated ==
    /\ state.pending # None /\ daemon # None
    /\ \E r \in Part : state.pending[r] # None /\ daemon[r] < state.pending[r]
PendingSignalMade == Outdated ~> daemon = None \/ overlapped

(* "a successful swap signals the daemon of this AGENTPLUG_HOME so the next *)
(* dispatch respawns the new build": between runs, a daemon of older builds *)
(* than the installed ones has a signal due to it.                          *)
SwapIsSignalled ==
    (\A p \in Proc : At(p, "off")) /\ daemon # None /\ (\E r \in Part : file[r] # None /\ daemon[r] < file[r]) =>
        state.pending # None

(* "serialised by the lock file": no two runs are in the locked region.     *)
OneBridge == ~overlapped

(* The state is typed, and no run asks GitHub while it knows better.         *)
BridgeSafe == []TypeOK /\ LimitsKept

(* Both parts of the last release get installed.                             *)
PartsInstalled == RunnerInstalled /\ GuestInstalled
===============================================================================
