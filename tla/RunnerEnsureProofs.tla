--------------------------- MODULE RunnerEnsureProofs ---------------------------
(* For every set of processes, projects and runners: one process never has    *)
(* two runners of a project. A process knows the one it started: it is in its *)
(* entry of the project, or in the pass that has just spawned it; and a pass  *)
(* spawns only after its entry was emptied, with the child of it gone or      *)
(* killed.                                                                    *)
EXTENDS RunnerEnsure, TLAPS, FiniteSetTheorems

InPass  == Stages \ {"idle"}
Claims  == {"ensureCreate", "ensureWrite", "ensureStat", "ensureRead", "ensureRename",
            "launchLink", "launchRead", "launchUnlink", "spawn", "launchTruncate", "launchWrite"}
Spawned == {"launchTruncate", "launchWrite"}

Passes == [at : Stages, root : Root \cup {None}, tries : 0..2, age : {"none", "aged", "old"},
           handle : Proc \cup {None}, child : Runner \cup {None}]

PassTyped ==
    /\ pass \in [Proc -> Passes]
    /\ \A p \in Proc : /\ pass[p].at \in InPass => pass[p].root \in Root
                       /\ pass[p].at \in {"ensureStat", "ensureRead", "ensureRename"} => pass[p].tries \in 0..1
                       /\ pass[p].at \in Spawned \cup {"ensureTruncate", "ensureChild"} => pass[p].child \in Runner

RestTyped ==
    /\ alive \subseteq Proc /\ Proc \ Mortal \subseteq alive
    /\ throttled \in [Proc -> SUBSET Root]
    /\ entry \in [Proc -> [Root -> [child : Runner \cup {None}, old : BOOLEAN]]]
    /\ ensure \in [Root -> Files] /\ launcher \in Files
    /\ runner \in [Runner -> [state : {"unused", "up", "killed"}, root : Root \cup {None}, by : Proc \cup {None}]]
    /\ served \in [Root -> BOOLEAN]

\* What a living process knows of the runner it started.
Knows(p, r, n) ==
    \/ entry[p][r].child = n
    \/ pass[p].at \in Spawned /\ pass[p].root = r /\ pass[p].child = n

Ours(n, r, p) == RunsFor(n, r) /\ runner[n].by = p

Known == \A p \in alive, r \in Root, n \in Runner : Ours(n, r, p) => Knows(p, r, n)

\* A pass that may still spawn, or has just spawned, left its entry empty.
EntryEmptied == \A p \in alive : pass[p].at \in Claims => entry[p][pass[p].root] = NoEntry

Single == \A p \in Proc, r \in Root, n, m \in Runner : Ours(n, r, p) /\ Ours(m, r, p) => n = m

RInv == PassTyped /\ RestTyped /\ Known /\ EntryEmptied /\ Single

-----------------------------------------------------------------------------
LEMMA StartsKnown == Init => RInv
<1> SUFFICES ASSUME Init PROVE RInv
    OBVIOUS
<1> USE DisjointAssumption DEF Init
<1>1. PassTyped
    BY DEF PassTyped, Passes, Idle, Stages, InPass, Spawned
<1>2. RestTyped
    BY DEF RestTyped, NoEntry, NoRunner, Absent, Files, Holder
<1>3. Known /\ Single
    BY DEF Known, Single, Ours, RunsFor, Up, NoRunner
<1>4. EntryEmptied
    BY DEF EntryEmptied, Idle, Claims
<1> QED BY <1>1, <1>2, <1>3, <1>4 DEF RInv

\* What the steps of a lock file write.
LEMMA FilesTyped ==
    ASSUME NEW p \in Proc
    PROVE  /\ Absent \in Files
           /\ \A t \in Holder \cup {None} : File(p, t) \in Files
           /\ \A f \in Files : /\ Opened(f, p) \in Proc \cup {None}
                               /\ Truncated(f, p) \in Files
                               /\ [f EXCEPT !.age = "aged"] \in Files /\ [f EXCEPT !.age = "old"] \in Files
                               /\ PassTyped /\ pass[p].child \in Runner => Written(f, p) \in Files
BY DEF Files, File, Absent, Opened, Truncated, Written, Holder, PassTyped, Passes

\* The steps that change the stage and the count of tries.
Moved(v, s, t) == [v EXCEPT !.at = s, !.tries = t]

LEMMA StageAndTries ==
    ASSUME NEW v \in Passes, NEW s \in Stages, NEW t \in 0..2
    PROVE  Moved(v, s, t) \in Passes /\ Moved(v, s, t).at = s /\ Moved(v, s, t).root = v.root
<1> DEFINE u == [v EXCEPT !.at = s]
           w == [u EXCEPT !.tries = t]
<1>1. u \in Passes /\ u.at = s /\ u.root = v.root
    BY DEF Passes
<1>2. w = Moved(v, s, t)
    BY DEF Moved
<1> HIDE DEF u
<1>3. w \in Passes /\ w.at = s /\ w.root = v.root
    BY <1>1 DEF Passes
<1> HIDE DEF w
<1> QED BY <1>2, <1>3, Zenon

\* A pass moves on without a runner: the entry, the runners and its claim are as before.
LEMMA PassMoves ==
    ASSUME RInv, NEW p \in Proc, NEW w \in Passes,
           pass' = [pass EXCEPT ![p] = w],
           UNCHANGED <<alive, throttled, entry, runner, served>>,
           ensure' \in [Root -> Files], launcher' \in Files,
           w.at \in InPass => w.root = pass[p].root /\ pass[p].at \in InPass,
           w.at \in {"ensureStat", "ensureRead", "ensureRename"} => w.tries \in 0..1,
           w.at \in Spawned \cup {"ensureTruncate", "ensureChild"} =>
               w.child = pass[p].child /\ pass[p].at \in Spawned \cup {"ensureTruncate", "ensureChild"},
           w.at \in Claims => pass[p].at \in Claims,
           pass[p].at \in Spawned => w.at \in Spawned
    PROVE  RInv'
<1>1. PassTyped'
    BY DEF RInv, PassTyped
<1>2. RestTyped'
    BY DEF RInv, RestTyped
<1>3. Known'
    BY DEF RInv, Known, Knows, Ours, RunsFor, Up, PassTyped, Spawned, InPass, Stages
<1>4. EntryEmptied'
    BY DEF RInv, EntryEmptied, PassTyped, Claims, InPass, Stages
<1>5. Single'
    BY DEF RInv, Single, Ours, RunsFor, Up
<1> QED BY <1>1, <1>2, <1>3, <1>4, <1>5 DEF RInv

\* The steps on the two locks, before and after the spawn.
LEMMA LocksKeep ==
    ASSUME RInv, NEW p \in Proc,
           \/ EnsureCreate(p) \/ EnsureWrite(p) \/ EnsureStat(p) \/ EnsureRead(p) \/ EnsureRename(p)
           \/ LaunchLink(p) \/ LaunchRead(p) \/ LaunchUnlink(p) \/ SpawnFails(p)
           \/ LaunchTruncate(p) \/ EnsureTruncate(p) \/ EnsureChild(p)
    PROVE  RInv'
<1> DEFINE v == pass[p]
<1>0. /\ v \in Passes /\ pass \in [Proc -> Passes] /\ ensure \in [Root -> Files] /\ launcher \in Files
      /\ Idle \in Passes /\ Idle.at = "idle"
      /\ v.at \in InPass => v.root \in Root /\ EnsureOf(p) \in Files
      /\ v.at \in {"ensureStat", "ensureRead", "ensureRename"} => v.tries \in 0..1
      /\ v.at \in Spawned \cup {"ensureTruncate", "ensureChild"} => v.child \in Runner
    BY DEF RInv, PassTyped, RestTyped, Passes, Idle, Stages, EnsureOf
<1>a. /\ p \in Holder /\ Absent \in Files /\ File(p, None) \in Files /\ File(p, p) \in Files
      /\ \A f \in Files : /\ Opened(f, p) \in Proc \cup {None} /\ Truncated(f, p) \in Files
                          /\ v.child \in Runner => Written(f, p) \in Files
    BY FilesTyped DEF RInv, Holder
<1>b. \A f \in Files : v.at \in InPass => [ensure EXCEPT ![v.root] = f] \in [Root -> Files]
    BY <1>0
<1>c. ASSUME NEW s \in Stages, NEW t \in 0..2
      PROVE  Moved(v, s, t) \in Passes /\ Moved(v, s, t).at = s /\ Moved(v, s, t).root = v.root
    BY <1>0, StageAndTries
<1> USE <1>0, <1>a, <1>b, PassMoves DEF At, InPass, Claims, Spawned, Stages
<1>1. CASE EnsureCreate(p)
    <2>1. CASE EnsureOf(p) = Absent
        <3> DEFINE w == [v EXCEPT !.at = "ensureWrite"]
        <3>1. w \in Passes /\ w.at = "ensureWrite" /\ w.root = v.root
            BY DEF Passes
        <3>2. pass' = [pass EXCEPT ![p] = w] /\ ensure' = [ensure EXCEPT ![v.root] = File(p, None)]
            BY <1>1, <2>1 DEF EnsureCreate, Goto, SetEnsure
        <3> HIDE DEF w
        <3> QED BY <1>1, <3>1, <3>2 DEF EnsureCreate
    <2>2. CASE EnsureOf(p) # Absent /\ v.tries = 2
        BY <1>1, <2>2 DEF EnsureCreate, Finish
    <2>3. CASE EnsureOf(p) # Absent /\ v.tries # 2
        <3> DEFINE w == [v EXCEPT !.at = "ensureStat"]
        <3>1. w \in Passes /\ w.at = "ensureStat" /\ w.root = v.root /\ w.tries \in 0..1
            BY <2>3 DEF Passes
        <3>2. pass' = [pass EXCEPT ![p] = w]
            BY <1>1, <2>3 DEF EnsureCreate, Goto
        <3> HIDE DEF w
        <3> QED BY <1>1, <2>3, <3>1, <3>2 DEF EnsureCreate
    <2> QED BY <2>1, <2>2, <2>3
<1>2. CASE EnsureWrite(p)
    <2> DEFINE w == Moved(v, "launchLink", 1)
               f == IF EnsureOf(p).by = p THEN File(p, p) ELSE EnsureOf(p)
    <2>0. "launchLink" \in Stages /\ 1 \in 0..2
        OBVIOUS
    <2>1. w \in Passes /\ w.at = "launchLink" /\ w.root = v.root
        BY <1>2, <1>c DEF EnsureWrite
    <2>2. pass' = [pass EXCEPT ![p] = w] /\ ensure' = [ensure EXCEPT ![v.root] = f] /\ f \in Files
        BY <1>2 DEF EnsureWrite, Enter, SetEnsure, Moved
    <2> HIDE DEF w, f
    <2> QED BY <1>2, <2>1, <2>2 DEF EnsureWrite
<1>3. CASE EnsureStat(p)
    <2>1. CASE EnsureOf(p).age \in {"none", "fresh"}
        BY <1>3, <2>1 DEF EnsureStat, Finish
    <2>2. CASE EnsureOf(p).age \notin {"none", "fresh"}
        <3> DEFINE w == [v EXCEPT !.at = "ensureRead", !.age = EnsureOf(p).age]
        <3>0. EnsureOf(p).age \in {"aged", "old"}
            BY <1>3, <2>2 DEF EnsureStat, Files
        <3>1. w \in Passes /\ w.at = "ensureRead" /\ w.root = v.root /\ w.tries = v.tries
            BY <3>0 DEF Passes
        <3>2. pass' = [pass EXCEPT ![p] = w]
            BY <1>3, <2>2 DEF EnsureStat
        <3> HIDE DEF w
        <3> QED BY <1>3, <3>1, <3>2 DEF EnsureStat
    <2> QED BY <2>1, <2>2
<1>4. CASE EnsureRead(p)
    <2>1. CASE EnsureOf(p) = Absent \/ EnsureHeld(p)
        BY <1>4, <2>1 DEF EnsureRead, Finish
    <2>2. CASE ~(EnsureOf(p) = Absent \/ EnsureHeld(p))
        <3> DEFINE w == [v EXCEPT !.at = "ensureRename"]
        <3>1. w \in Passes /\ w.at = "ensureRename" /\ w.root = v.root /\ w.tries = v.tries
            BY DEF Passes
        <3>2. pass' = [pass EXCEPT ![p] = w]
            BY <1>4, <2>2 DEF EnsureRead, Goto
        <3> HIDE DEF w
        <3> QED BY <1>4, <3>1, <3>2 DEF EnsureRead
    <2> QED BY <2>1, <2>2
<1>5. CASE EnsureRename(p)
    <2>1. ensure' \in [Root -> Files]
        BY <1>5 DEF EnsureRename, SetEnsure
    <2>2. CASE EnsureOf(p) = Absent
        BY <1>5, <2>1, <2>2 DEF EnsureRename, Finish
    <2>3. CASE EnsureOf(p) # Absent
        <3> DEFINE t == v.tries + 1
                   w == Moved(v, "ensureCreate", t)
        <3>0. t \in 0..2 /\ "ensureCreate" \in Stages
            BY <1>5 DEF EnsureRename
        <3>1. pass' = [pass EXCEPT ![p] = w]
            BY <1>5, <2>3 DEF EnsureRename, Retry, Moved
        <3> HIDE DEF t
        <3>2. w \in Passes /\ w.at = "ensureCreate" /\ w.root = v.root
            BY <3>0, <1>c
        <3> HIDE DEF w
        <3> QED BY <1>5, <2>1, <3>1, <3>2 DEF EnsureRename
    <2> QED BY <2>2, <2>3
<1>6. CASE LaunchLink(p)
    <2> DEFINE stage == IF launcher = Absent THEN "spawn" ELSE "launchRead"
               w == [v EXCEPT !.at = stage]
    <2>1. w \in Passes /\ w.at = stage /\ w.root = v.root
        BY DEF Passes
    <2>2. pass' = [pass EXCEPT ![p] = w] /\ launcher' \in Files
        BY <1>6 DEF LaunchLink, Goto
    <2> HIDE DEF w
    <2> QED BY <1>6, <2>1, <2>2 DEF LaunchLink
<1>7. CASE LaunchRead(p)
    <2>1. CASE ~LauncherLockMayBeReclaimed
        BY <1>7, <2>1 DEF LaunchRead, Finish
    <2>2. CASE LauncherLockMayBeReclaimed
        <3> DEFINE w == [v EXCEPT !.at = "launchUnlink"]
        <3>1. w \in Passes /\ w.at = "launchUnlink" /\ w.root = v.root
            BY DEF Passes
        <3>2. pass' = [pass EXCEPT ![p] = w]
            BY <1>7, <2>2 DEF LaunchRead, Goto
        <3> HIDE DEF w
        <3> QED BY <1>7, <3>1, <3>2 DEF LaunchRead
    <2> QED BY <2>1, <2>2
<1>8. CASE LaunchUnlink(p)
    <2>1. CASE launcher = Absent \/ LastTry(p)
        BY <1>8, <2>1 DEF LaunchUnlink, Finish
    <2>2. CASE ~(launcher = Absent \/ LastTry(p))
        <3> DEFINE t == v.tries + 1
                   w == Moved(v, "launchLink", t)
        <3>0. t \in 0..2 /\ "launchLink" \in Stages
            BY <2>2 DEF Passes, LastTry
        <3>1. pass' = [pass EXCEPT ![p] = w]
            BY <1>8, <2>2 DEF LaunchUnlink, Retry, Moved
        <3> HIDE DEF t
        <3>2. w \in Passes /\ w.at = "launchLink" /\ w.root = v.root
            BY <3>0, <1>c
        <3> HIDE DEF w
        <3> QED BY <1>8, <3>1, <3>2 DEF LaunchUnlink
    <2> QED BY <2>1, <2>2
<1>9. CASE SpawnFails(p)
    BY <1>9 DEF SpawnFails, Finish
<1>10. CASE LaunchTruncate(p)
    <2> DEFINE w == [v EXCEPT !.at = "launchWrite", !.handle = Opened(launcher, p)]
    <2>1. w \in Passes /\ w.at = "launchWrite" /\ w.root = v.root /\ w.child = v.child
        BY DEF Passes
    <2>2. pass' = [pass EXCEPT ![p] = w] /\ launcher' \in Files
        BY <1>10 DEF LaunchTruncate
    <2> HIDE DEF w
    <2> QED BY <1>10, <2>1, <2>2 DEF LaunchTruncate
<1>11. CASE EnsureTruncate(p)
    <2> DEFINE w == [v EXCEPT !.at = "ensureChild", !.handle = Opened(EnsureOf(p), p)]
    <2>1. w \in Passes /\ w.at = "ensureChild" /\ w.root = v.root /\ w.child = v.child
        BY <1>11 DEF Passes, EnsureTruncate
    <2>2. pass' = [pass EXCEPT ![p] = w] /\ ensure' \in [Root -> Files]
        BY <1>11 DEF EnsureTruncate, SetEnsure
    <2> HIDE DEF w
    <2> QED BY <1>11, <2>1, <2>2 DEF EnsureTruncate
<1>12. CASE EnsureChild(p)
    <2>1. ensure' \in [Root -> Files]
        BY <1>12 DEF EnsureChild, SetEnsure
    <2> QED BY <1>12, <2>1 DEF EnsureChild, Finish
<1> QED BY <1>1, <1>2, <1>3, <1>4, <1>5, <1>6, <1>7, <1>8, <1>9, <1>10, <1>11, <1>12

-----------------------------------------------------------------------------
\* The reaper of ensureSpoolDecision leaves no runner of the project behind it.
LEMMA BeginKeeps ==
    ASSUME RInv, NEW p \in Proc, NEW r \in Root, Begin(p, r)
    PROVE  RInv'
<1> DEFINE v == pass[p]
           w == [v EXCEPT !.at = "ensureCreate", !.root = r, !.tries = 1]
           Reaped(n) == entry[p][r].old /\ n = entry[p][r].child /\ Up(n)
<1>0. v \in Passes /\ pass \in [Proc -> Passes] /\ p \in alive /\ v.at = "idle"
    BY DEF Begin, At, RInv, PassTyped
<1>1. w \in Passes /\ w.at = "ensureCreate" /\ w.root = r
    <2> DEFINE x == [v EXCEPT !.root = r]
    <2>1. x \in Passes /\ x.root = r
        BY <1>0 DEF Passes
    <2>2. w = Moved(x, "ensureCreate", 1)
        BY <1>0 DEF Passes, Moved
    <2>3. "ensureCreate" \in Stages /\ 1 \in 0..2
        BY DEF Stages
    <2> HIDE DEF x, w
    <2> QED BY <2>1, <2>2, <2>3, StageAndTries, Zenon
<1>2. pass' = [pass EXCEPT ![p] = w]
    BY <1>0 DEF Begin
<1> HIDE DEF w
<1>3. \A n \in Runner : /\ Reaped(n) => runner'[n].state = "killed"
                        /\ ~Reaped(n) => runner'[n] = runner[n]
                        /\ runner'[n] \in [state : {"unused", "up", "killed"}, root : Root \cup {None}, by : Proc \cup {None}]
    BY DEF Begin, Reap, RInv, RestTyped
<1>3a. runner' \in [Runner -> [state : {"unused", "up", "killed"}, root : Root \cup {None}, by : Proc \cup {None}]]
    BY <1>3 DEF Begin, Reap
<1>4. \A n \in Runner, q \in Proc, s \in Root : Ours(n, s, q)' => Ours(n, s, q) /\ ~Reaped(n)
    BY <1>3 DEF Ours, RunsFor, Up
<1>5. /\ entry \in [Proc -> [Root -> [child : Runner \cup {None}, old : BOOLEAN]]]
      /\ entry' = [entry EXCEPT ![p][r] = NoEntry]
    BY DEF Begin, RInv, RestTyped
<1>6. \A n \in Runner : ~Ours(n, r, p)'
    <2> SUFFICES ASSUME NEW n \in Runner, Ours(n, r, p)' PROVE FALSE
        OBVIOUS
    <2>1. Ours(n, r, p) /\ ~Reaped(n)
        BY <1>4
    <2>2. entry[p][r].child = n
        BY <1>0, <2>1 DEF RInv, Known, Knows, Spawned
    <2>3. PidAlive(n) /\ n # None
        BY <2>1, DisjointAssumption DEF Ours, RunsFor, Up, PidAlive
    <2>4. ~entry[p][r].old
        BY <2>1, <2>2 DEF Ours, RunsFor
    <2> QED BY <2>2, <2>3, <2>4 DEF Begin, RunnerEnsureInFlight
<1>7. PassTyped'
    BY <1>0, <1>1, <1>2 DEF RInv, PassTyped, Spawned
<1>8. RestTyped'
    <2>1. entry' \in [Proc -> [Root -> [child : Runner \cup {None}, old : BOOLEAN]]]
        BY <1>5 DEF NoEntry
    <2> QED BY <1>3a, <2>1 DEF Begin, RInv, RestTyped
<1>9. Known'
    <2> SUFFICES ASSUME NEW q \in alive, NEW s \in Root, NEW n \in Runner, Ours(n, s, q)' PROVE Knows(q, s, n)'
        BY DEF Begin, Known
    <2>0. q \in Proc
        BY DEF RInv, RestTyped
    <2>1. Ours(n, s, q) /\ ~(q = p /\ s = r)
        BY <1>4, <1>6, <2>0
    <2>2. Knows(q, s, n)
        BY <2>1 DEF RInv, Known
    <2>3. entry'[q][s] = entry[q][s]
        BY <1>5, <2>0, <2>1
    <2>4. q # p => pass'[q] = pass[q]
        BY <1>0, <1>2, <2>0
    <2> QED BY <1>0, <2>2, <2>3, <2>4 DEF Knows, Spawned
<1>10. EntryEmptied'
    <2> SUFFICES ASSUME NEW q \in alive, pass'[q].at \in Claims PROVE entry'[q][pass'[q].root] = NoEntry
        BY DEF Begin, EntryEmptied
    <2>0. q \in Proc
        BY DEF RInv, RestTyped
    <2>1. CASE q = p
        BY <1>0, <1>1, <1>2, <1>5, <2>1
    <2>2. CASE q # p
        BY <1>0, <1>2, <1>5, <2>0, <2>2 DEF RInv, EntryEmptied
    <2> QED BY <2>1, <2>2
<1>11. Single'
    BY <1>4 DEF RInv, Single
<1> QED BY <1>7, <1>8, <1>9, <1>10, <1>11 DEF RInv

\* A new runner is the only one its process has of that project, and is known to it.
LEMMA SpawnKeeps ==
    ASSUME RInv, NEW p \in Proc, NEW n \in Runner, Spawn(p, n)
    PROVE  RInv'
<1> DEFINE v == pass[p]
           w == [v EXCEPT !.at = "launchTruncate", !.child = n]
<1>0. v \in Passes /\ pass \in [Proc -> Passes] /\ p \in alive /\ v.at = "spawn" /\ v.root \in Root
    BY DEF Spawn, At, RInv, PassTyped, InPass, Stages
<1>1. w \in Passes /\ w.at = "launchTruncate" /\ w.root = v.root /\ w.child = n
    BY <1>0 DEF Passes, Stages
<1>2. pass' = [pass EXCEPT ![p] = w]
    BY <1>0 DEF Spawn
<1> HIDE DEF w
<1>3. /\ runner' = [runner EXCEPT ![n] = [state |-> "up", root |-> v.root, by |-> p]]
      /\ runner \in [Runner -> [state : {"unused", "up", "killed"}, root : Root \cup {None}, by : Proc \cup {None}]]
      /\ UNCHANGED <<alive, throttled, entry, ensure, launcher, served>>
    BY DEF Spawn, RInv, RestTyped
<1>4. entry[p][v.root].child = None
    BY <1>0 DEF RInv, EntryEmptied, Claims, NoEntry
<1>5. \A m \in Runner : ~Ours(m, v.root, p)
    BY <1>0, <1>4, DisjointAssumption DEF RInv, Known, Knows, Spawned
<1>6. \A m \in Runner, q \in Proc, s \in Root :
          Ours(m, s, q)' => (m = n /\ s = v.root /\ q = p) \/ (m # n /\ Ours(m, s, q))
    BY <1>3 DEF Ours, RunsFor, Up
<1>7. PassTyped'
    BY <1>0, <1>1, <1>2 DEF RInv, PassTyped, InPass, Stages, Spawned
<1>8. RestTyped'
    BY <1>0, <1>3 DEF RInv, RestTyped
<1>9. Known'
    <2> SUFFICES ASSUME NEW q \in alive, NEW s \in Root, NEW m \in Runner, Ours(m, s, q)' PROVE Knows(q, s, m)'
        BY <1>3 DEF Known
    <2>0. q \in Proc
        BY DEF RInv, RestTyped
    <2>1. CASE m = n /\ s = v.root /\ q = p
        BY <1>0, <1>1, <1>2, <2>1 DEF Knows, Spawned
    <2>2. CASE m # n /\ Ours(m, s, q)
        <3>1. Knows(q, s, m)
            BY <2>2 DEF RInv, Known
        <3>2. q # p => pass'[q] = pass[q]
            BY <1>0, <1>2, <2>0
        <3> QED BY <1>0, <1>3, <3>1, <3>2 DEF Knows, Spawned
    <2> QED BY <1>6, <2>0, <2>1, <2>2
<1>10. EntryEmptied'
    <2> SUFFICES ASSUME NEW q \in alive, pass'[q].at \in Claims PROVE entry[q][pass'[q].root] = NoEntry
        BY <1>3 DEF EntryEmptied
    <2>0. q \in Proc
        BY DEF RInv, RestTyped
    <2>1. pass'[q].root = pass[q].root /\ pass[q].at \in Claims
        BY <1>0, <1>1, <1>2, <2>0 DEF Claims
    <2> QED BY <2>1 DEF RInv, EntryEmptied
<1>11. Single'
    BY <1>5, <1>6 DEF RInv, Single
<1> QED BY <1>7, <1>8, <1>9, <1>10, <1>11 DEF RInv

\* The entry takes over from the pass what the process knows.
LEMMA LaunchWriteKeeps ==
    ASSUME RInv, NEW p \in Proc, LaunchWrite(p)
    PROVE  RInv'
<1> DEFINE v == pass[p]
           w == [v EXCEPT !.at = "ensureTruncate"]
           e == [child |-> v.child, old |-> FALSE]
<1>0. v \in Passes /\ pass \in [Proc -> Passes] /\ p \in alive /\ v.at = "launchWrite" /\ v.root \in Root /\ v.child \in Runner
    BY DEF LaunchWrite, At, RInv, PassTyped, InPass, Stages, Spawned
<1>1. w \in Passes /\ w.at = "ensureTruncate" /\ w.root = v.root /\ w.child = v.child
    BY <1>0 DEF Passes, Stages
<1>2. pass' = [pass EXCEPT ![p] = w]
    BY <1>0 DEF LaunchWrite, Goto
<1> HIDE DEF w
<1>3. /\ entry' = [entry EXCEPT ![p][v.root] = e]
      /\ entry \in [Proc -> [Root -> [child : Runner \cup {None}, old : BOOLEAN]]]
      /\ UNCHANGED <<alive, throttled, ensure, runner, served>>
    BY DEF LaunchWrite, RInv, RestTyped
<1>4. launcher' \in Files
    BY <1>0, FilesTyped DEF LaunchWrite, RInv, RestTyped
<1>5. PassTyped'
    BY <1>0, <1>1, <1>2 DEF RInv, PassTyped, InPass, Stages, Spawned
<1>6. RestTyped'
    <2>1. entry' \in [Proc -> [Root -> [child : Runner \cup {None}, old : BOOLEAN]]]
        BY <1>0, <1>3
    <2> QED BY <1>3, <1>4, <2>1 DEF RInv, RestTyped
<1>7. Known'
    <2> SUFFICES ASSUME NEW q \in alive, NEW s \in Root, NEW m \in Runner, Ours(m, s, q) PROVE Knows(q, s, m)'
        BY <1>3 DEF Known, Ours, RunsFor, Up
    <2>0. q \in Proc /\ Knows(q, s, m)
        BY DEF RInv, RestTyped, Known
    <2>1. CASE q = p /\ s = v.root
        <3>1. entry[p][v.root].child = None
            BY <1>0 DEF RInv, EntryEmptied, Claims, NoEntry
        <3>2. m = v.child
            BY <2>0, <2>1, <3>1, DisjointAssumption DEF Knows
        <3> QED BY <1>0, <1>3, <2>1, <3>2 DEF Knows
    <2>2. CASE q # p
        BY <1>0, <1>2, <1>3, <2>0, <2>2 DEF Knows
    <2>3. CASE q = p /\ s # v.root
        BY <1>0, <1>3, <2>0, <2>3 DEF Knows
    <2> QED BY <2>1, <2>2, <2>3
<1>8. EntryEmptied'
    <2> SUFFICES ASSUME NEW q \in alive, pass'[q].at \in Claims PROVE entry'[q][pass'[q].root] = NoEntry
        BY <1>3 DEF EntryEmptied
    <2>0. q \in Proc
        BY DEF RInv, RestTyped
    <2>1. q # p
        BY <1>0, <1>1, <1>2 DEF Claims
    <2> QED BY <1>0, <1>2, <1>3, <2>0, <2>1 DEF RInv, EntryEmptied
<1>9. Single'
    BY <1>3 DEF RInv, Single, Ours, RunsFor, Up
<1> QED BY <1>5, <1>6, <1>7, <1>8, <1>9 DEF RInv

-----------------------------------------------------------------------------
\* Time, the runners and the ends of processes.
LEMMA WorldKeeps ==
    ASSUME RInv,
           \/ \E p \in Proc : ProcExits(p)
           \/ \E p \in Proc, r \in Root : EntryAges(p, r) \/ IntervalEnds(p, r)
           \/ \E r \in Root : LockAges(r) \/ DaemonExits(r)
           \/ \E n \in Runner : RunnerServes(n) \/ RunnerExits(n)
    PROVE  RInv'
<1>1. ASSUME NEW p \in Proc, ProcExits(p) PROVE RInv'
    <2>0. Idle \in Passes /\ Idle.at = "idle"
        BY DEF Passes, Idle, Stages
    <2>1. PassTyped'
        BY <1>1, <2>0 DEF ProcExits, Finish, RInv, PassTyped, InPass, Stages, Spawned
    <2>2. RestTyped'
        BY <1>1 DEF ProcExits, RInv, RestTyped, NoEntry
    <2>3. Known'
        BY <1>1 DEF ProcExits, Finish, RInv, RestTyped, PassTyped, Known, Knows, Ours, RunsFor, Up
    <2>4. EntryEmptied'
        BY <1>1 DEF ProcExits, Finish, RInv, RestTyped, PassTyped, EntryEmptied
    <2>5. Single'
        BY <1>1 DEF ProcExits, RInv, Single, Ours, RunsFor, Up
    <2> QED BY <2>1, <2>2, <2>3, <2>4, <2>5 DEF RInv
<1>2. ASSUME NEW p \in Proc, NEW r \in Root, EntryAges(p, r) PROVE RInv'
    <2>0. /\ p \in alive /\ pass[p].at = "idle" /\ UNCHANGED <<alive, pass, throttled, ensure, launcher, runner, served>>
          /\ entry \in [Proc -> [Root -> [child : Runner \cup {None}, old : BOOLEAN]]]
          /\ entry' = [entry EXCEPT ![p][r] = [entry[p][r] EXCEPT !.old = TRUE]]
        BY <1>2 DEF EntryAges, At, RInv, RestTyped
    <2> DEFINE e == [entry[p][r] EXCEPT !.old = TRUE]
    <2>c. entry[p][r] \in [child : Runner \cup {None}, old : BOOLEAN]
        BY <2>0
    <2>a. e \in [child : Runner \cup {None}, old : BOOLEAN] /\ e.child = entry[p][r].child
        BY <2>c
    <2> HIDE DEF e
    <2> DEFINE es == [entry[p] EXCEPT ![r] = e]
    <2>b. entry' = [entry EXCEPT ![p] = es]
        BY <2>0 DEF e
    <2>d. es \in [Root -> [child : Runner \cup {None}, old : BOOLEAN]] /\ \A s \in Root : es[s].child = entry[p][s].child
        BY <2>0, <2>a
    <2> HIDE DEF es
    <2>1. /\ entry' \in [Proc -> [Root -> [child : Runner \cup {None}, old : BOOLEAN]]]
          /\ \A q \in Proc, s \in Root : entry'[q][s].child = entry[q][s].child
        BY <2>0, <2>d, <2>b
    <2>6. \A q \in Proc : q # p => entry'[q] = entry[q]
        BY <2>0, <2>b
    <2>2. PassTyped' /\ Single'
        BY <2>0 DEF RInv, PassTyped, Single, Ours, RunsFor, Up
    <2>3. RestTyped'
        BY <2>0, <2>1 DEF RInv, RestTyped
    <2>4. Known'
        BY <2>0, <2>1 DEF RInv, RestTyped, Known, Knows, Ours, RunsFor, Up
    <2>5. EntryEmptied'
        BY <2>0, <2>6 DEF RInv, RestTyped, EntryEmptied, Claims
    <2> QED BY <2>2, <2>3, <2>4, <2>5 DEF RInv
<1>3. ASSUME NEW p \in Proc, NEW r \in Root, IntervalEnds(p, r) PROVE RInv'
    BY <1>3 DEF IntervalEnds, RInv, PassTyped, RestTyped, Known, Knows, EntryEmptied, Single, Ours, RunsFor, Up
<1>4. ASSUME NEW r \in Root, LockAges(r) PROVE RInv'
    <2>1. ensure' \in [Root -> Files]
        BY <1>4 DEF LockAges, RInv, RestTyped, Files
    <2> QED BY <1>4, <2>1 DEF LockAges, RInv, PassTyped, RestTyped, Known, Knows, EntryEmptied, Single, Ours, RunsFor, Up
<1>5. ASSUME NEW r \in Root, DaemonExits(r) PROVE RInv'
    BY <1>5 DEF DaemonExits, RInv, PassTyped, RestTyped, Known, Knows, EntryEmptied, Single, Ours, RunsFor, Up
<1>6. ASSUME NEW n \in Runner, RunnerServes(n) PROVE RInv'
    <2>1. served' \in [Root -> BOOLEAN]
        BY <1>6 DEF RunnerServes, RInv, RestTyped
    <2>2. UNCHANGED <<alive, pass, throttled, entry, ensure, launcher, runner>>
        BY <1>6 DEF RunnerServes
    <2> QED BY <2>1, <2>2 DEF RInv, PassTyped, RestTyped, Known, Knows, EntryEmptied, Single, Ours, RunsFor, Up
<1>7. ASSUME NEW n \in Runner, RunnerExits(n) PROVE RInv'
    <2>0. /\ runner' = [runner EXCEPT ![n] = NoRunner] /\ UNCHANGED <<alive, pass, throttled, entry, ensure, launcher, served>>
          /\ runner \in [Runner -> [state : {"unused", "up", "killed"}, root : Root \cup {None}, by : Proc \cup {None}]]
        BY <1>7 DEF RunnerExits, RInv, RestTyped
    <2>1. \A m \in Runner, q \in Proc, s \in Root : Ours(m, s, q)' => Ours(m, s, q)
        BY <2>0 DEF Ours, RunsFor, Up, NoRunner
    <2>2. PassTyped' /\ EntryEmptied'
        BY <2>0 DEF RInv, PassTyped, EntryEmptied
    <2>3. RestTyped'
        BY <2>0 DEF RInv, RestTyped, NoRunner
    <2>4. Known'
        BY <2>0, <2>1 DEF RInv, RestTyped, Known, Knows
    <2>5. Single'
        BY <2>1 DEF RInv, Single
    <2> QED BY <2>2, <2>3, <2>4, <2>5 DEF RInv
<1> QED BY <1>1, <1>2, <1>3, <1>4, <1>5, <1>6, <1>7

LEMMA StepsKeep == RInv /\ [Next]_vars => RInv'
<1>1. RInv /\ Next => RInv'
    BY LocksKeep, BeginKeeps, SpawnKeeps, LaunchWriteKeeps, WorldKeeps DEF Next, PassStep
<1>2. RInv /\ UNCHANGED vars => RInv'
    BY DEF vars, RInv, PassTyped, RestTyped, Known, Knows, EntryEmptied, Single, Ours, RunsFor, Up
<1> QED BY <1>1, <1>2

\* At most one, counted.
LEMMA SingleCounted == RInv => OneRunnerPerProcess
<1> SUFFICES ASSUME RInv, NEW p \in Proc, NEW r \in Root
             PROVE  Cardinality({n \in Runner : RunsFor(n, r) /\ runner[n].by = p}) <= 1
    BY DEF OneRunnerPerProcess
<1> DEFINE S == {n \in Runner : RunsFor(n, r) /\ runner[n].by = p}
<1>0. \A n, m \in S : n = m
    BY DEF RInv, Single, Ours
<1> HIDE DEF S
<1>1. S = {} \/ \E n \in S : S = {n}
    BY <1>0
<1>2. Cardinality(S) = 0 \/ Cardinality(S) = 1
    BY <1>1, FS_EmptySet, FS_Singleton
<1>3. Cardinality(S) <= 1
    BY <1>2
<1> QED BY <1>3 DEF S

(* However the passes of processes interleave over the two locks, are slow,  *)
(* fail or are ended, the state is typed and no process stacks runners for a *)
(* project.                                                                  *)
THEOREM NoneStacks == Spec => []EnsureInv
<1>1. RInv => EnsureInv
    <2>1. RInv => TypeOK
        BY MortalAssumption DEF RInv, PassTyped, RestTyped, Passes, TypeOK
    <2> QED BY <2>1, SingleCounted DEF EnsureInv
<1> QED BY <1>1, StartsKnown, StepsKeep, PTL DEF Spec
================================================================================
