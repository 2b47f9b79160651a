-------------------------------- MODULE Janitor --------------------------------
(* The hourly sweep of janitor.js and the records of running-images.js: what  *)
(* no live process is found to use is put on a plan, then removed item by     *)
(* item. The process table is read first, the working directories of its rows *)
(* when the plan is made; the host goes on at any step. A pid is given again. *)
EXTENDS FiniteSets, Functions

CONSTANTS
    JPid,           \* pids
    Entry,          \* scratch and legacy entries, and installs
    Install,        \* the installs among them
    Record, PidIn   \* records of the install that runs; the pid in a record's own name, if any

NoJPid == "none"

ASSUME JanitorShape ==
    /\ Install \subseteq Entry /\ Entry \cap Record = {}
    /\ PidIn \in [Record -> SUBSET JPid] /\ NoJPid \notin JPid

VARIABLES
    alive,    \* running pids
    cmd, cwd, \* entries in the command line and in the working directory of each
    entries,     \* entries there
    kept,     \* entries a KEEP manifest names
    holder,   \* the pid the lock of each install names
    recorded, \* the pid of each record
    jsweep,   \* the pass
    steady    \* history: uses the pass can see, that held since before the table was read

janVars == <<alive, cmd, cwd, entries, kept, holder, recorded, jsweep, steady>>

Resting == [at |-> "off", table |-> {}, commands |-> {}, plan |-> {}, kept |-> {}]

JanInit ==
    /\ alive = {} /\ cmd = [p \in JPid |-> {}] /\ cwd = cmd
    /\ entries = Entry /\ kept = {}
    /\ holder = [i \in Install |-> NoJPid]
    /\ recorded = [n \in Record |-> NoJPid]
    /\ jsweep = Resting /\ steady = {}

SweepIs(stage) == jsweep.at = stage
Held(p) == {i \in Install : holder[i] = p}
Uses(p) == cmd[p] \cup cwd[p] \cup Held(p)
UsesNow == {u \in alive \X Entry : u[2] \in Uses(u[1])}

-----------------------------------------------------------------------------
(* The host.                                                                 *)

JStarts(p) ==
    /\ p \notin alive
    /\ \E c \in SUBSET entries : Cardinality(c) <= 1 /\ cmd' = [cmd EXCEPT ![p] = c]
    /\ alive' = alive \cup {p}
    /\ UNCHANGED <<cwd, entries, kept, holder, recorded, jsweep, steady>>

JEnds(p) ==
    /\ p \in alive
    /\ alive' = alive \ {p}
    /\ cmd' = [cmd EXCEPT ![p] = {}] /\ cwd' = [cwd EXCEPT ![p] = {}]
    /\ steady' = {u \in steady : u[1] # p}
    \* recordRunningImage: the record of a pid's own name goes with an orderly exit
    /\ \E orderly \in BOOLEAN :
          recorded' = IF orderly THEN [n \in Record |-> IF PidIn[n] = {p} THEN NoJPid ELSE recorded[n]] ELSE recorded
    /\ UNCHANGED <<entries, kept, holder, jsweep>>

ChangesDir(p, e) ==
    /\ p \in alive /\ e \in entries
    /\ cwd' = [cwd EXCEPT ![p] = {e}]
    /\ steady' = {u \in steady : u[1] # p \/ u[2] \in cmd[p] \cup Held(p)}
    /\ UNCHANGED <<alive, cmd, entries, kept, holder, recorded, jsweep>>

Touches(p, e) ==
    /\ p \in alive
    /\ entries' = entries \cup {e}
    /\ holder' = IF e \in Install /\ holder[e] \notin alive THEN [holder EXCEPT ![e] = p] ELSE holder
    /\ UNCHANGED <<alive, cmd, cwd, kept, recorded, jsweep, steady>>

KeepsEntry(e) ==
    /\ e \notin Install
    /\ kept' = kept \cup {e}
    /\ UNCHANGED <<alive, cmd, cwd, entries, holder, recorded, jsweep, steady>>

\* A record of a pid's own name, or one that is free, or whose pid is dead.
WritesRecord(p, n) ==
    /\ p \in alive
    /\ IF PidIn[n] = {} THEN recorded[n] \notin alive ELSE PidIn[n] = {p}
    /\ recorded' = [recorded EXCEPT ![n] = p]
    /\ UNCHANGED <<alive, cmd, cwd, entries, kept, holder, jsweep, steady>>

-----------------------------------------------------------------------------
(* The pass.                                                                 *)

\* A ps that fails gives no rows at all, a powershell that fails those it had written;
\* the pass goes on. A lock is judged by its pid, without the table.
ReadsTable ==
    /\ SweepIs("off")
    /\ \E rows \in SUBSET alive :
          /\ jsweep' = [Resting EXCEPT !.at = "plan", !.table = rows, !.commands = UNION Range([p \in rows |-> cmd[p]])]
          /\ steady' = {u \in UsesNow : u[1] \in rows \/ u[2] \in Held(u[1])}
    /\ UNCHANGED <<alive, cmd, cwd, entries, kept, holder, recorded>>

\* Mutant of Referenced: command lines only.
ReferencedCommands(legible) == jsweep.commands

\* liveReferences, isReferenced; legible are those whose /proc/<pid>/cwd can be read.
Referenced(legible) == jsweep.commands \cup UNION Range([p \in legible |-> cwd[p]])

\* scratchItems, legacyTmpItems, oldInstallItems, but for what was touched of late.
Sweepable(legible) == {e \in entries \ (kept \cup Referenced(legible)) :
                          e \in Install => holder[e] \notin alive \cup {NoJPid}}

\* recordItems
DeadRecords == {n \in Record : recorded[n] \notin alive \cup {NoJPid}}

Plans ==
    /\ SweepIs("plan")
    /\ \E legible \in SUBSET (jsweep.table \cap alive) :
          /\ \E recent \in SUBSET Sweepable(legible) : \* newestMtime
                jsweep' = [jsweep EXCEPT !.at = "remove", !.kept = kept,
                                         !.plan = (Sweepable(legible) \ recent) \cup DeadRecords]
          /\ steady' = {u \in steady : u[1] \in legible \/ u[2] \in cmd[u[1]] \cup Held(u[1])}
    /\ UNCHANGED <<alive, cmd, cwd, entries, kept, holder, recorded>>

\* rmSync by name; the pass awaits nothing from the plan on, the host goes on.
RemovesEntry(e) ==
    /\ SweepIs("remove") /\ e \in jsweep.plan
    /\ entries' = entries \ {e}
    /\ jsweep' = [jsweep EXCEPT !.plan = @ \ {e}]
    /\ UNCHANGED <<alive, cmd, cwd, kept, holder, recorded, steady>>

RemovesRecord(n) ==
    /\ SweepIs("remove") /\ n \in jsweep.plan
    /\ recorded' = [recorded EXCEPT ![n] = NoJPid]
    /\ jsweep' = [jsweep EXCEPT !.plan = @ \ {n}]
    /\ UNCHANGED <<alive, cmd, cwd, entries, kept, holder, steady>>

SweepEnds ==
    /\ SweepIs("remove") /\ jsweep.plan = {}
    /\ jsweep' = Resting /\ steady' = {}
    /\ UNCHANGED <<alive, cmd, cwd, entries, kept, holder, recorded>>

JanNext ==
    \/ \E p \in JPid : \/ JStarts(p) \/ JEnds(p)
                       \/ \E e \in Entry : ChangesDir(p, e) \/ Touches(p, e)
                       \/ \E n \in Record : WritesRecord(p, n)
    \/ \E e \in Entry : KeepsEntry(e) \/ RemovesEntry(e)
    \/ \E n \in Record : RemovesRecord(n)
    \/ ReadsTable \/ Plans \/ SweepEnds

JanSpec == JanInit /\ [][JanNext]_janVars

-----------------------------------------------------------------------------
JanTypeOK ==
    /\ alive \subseteq JPid /\ {cmd, cwd} \subseteq [JPid -> SUBSET Entry]
    /\ entries \subseteq Entry /\ kept \subseteq Entry
    /\ holder \in [Install -> JPid \cup {NoJPid}] /\ recorded \in [Record -> JPid \cup {NoJPid}]
    /\ jsweep.plan \subseteq Entry \cup Record /\ steady \subseteq JPid \X Entry

(* "A path a live process uses, stays", when the use began before the sweep *)
(* and the sweep can see it - the process has a row, and its directory can  *)
(* be read - nor does it take what a KEEP manifest names that was there for *)
(* the plan, whatever starts, ends and moves meanwhile.                     *)
SweepSpares ==
    [][\A e \in Entry : e \in entries /\ e \notin entries' => e \notin jsweep.kept /\ \A u \in steady : u[2] # e]_janVars

(* "A file that names a live pid ... stays". Not kept: a record is judged   *)
(* by the pid it names, and removed by its name after a slow removal of     *)
(* directories; it may name another process by then.                        *)
LiveRecordStays ==
    [][\A n \in Record : recorded[n] \in alive /\ recorded'[n] = NoJPid => recorded[n] \notin alive']_janVars

(* The same of every use: not kept when the table is not read, or a         *)
(* directory is not, for the sweep takes what it cannot see to be unused.   *)
EveryUseSpared ==
    [][\A e \in Entry, p \in JPid : e \in entries /\ e \notin entries' => ~(p \in alive /\ e \in cmd[p])]_janVars

(* The state is typed, and a sweep spares what is in use or kept.            *)
JanitorSafe == []JanTypeOK /\ SweepSpares
================================================================================
