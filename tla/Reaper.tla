-------------------------------- MODULE Reaper --------------------------------
(* The leak watch (leak-watch.js) and the reaper behind it (leak-reaper.js):  *)
(* one server reads the process table once, judges what it finds by evidence  *)
(* it reads later, one candidate after the other, and then signals, removes a *)
(* stale record of the HTTP port, or leaves alone. The host goes on meanwhile: *)
(* processes start, end, are re-parented and age between any two steps.       *)
(* The table has POSIX columns; a command line is its class (gm-cmdline.js).  *)
(* A pid is not given to another process while a pass is running.             *)
EXTENDS Integers, FiniteSets

CONSTANTS
    Pid,          \* pids other than init's
    Self,         \* the server that runs the passes
    MAX_PARENT_HOPS, \* how far a chain of parents is followed
    MaxPerPass,   \* servers one automatic pass may signal
    MaxStart      \* processes started after the first

Init1 == 1 \* pid of init
NoPid == 0

ReaperAssumption ==
    /\ Self \in Pid /\ Pid # {Self} /\ Pid \subseteq Nat \ {NoPid, Init1}
    /\ MAX_PARENT_HOPS \in Nat /\ MaxPerPass \in Nat /\ MaxStart \in Nat
ASSUME ReaperAssumption

VARIABLES
    host,     \* the process of each pid: class of its command, parent, age
    ledger,   \* pids the child ledger has a row for
    registry, \* the pid the record of the HTTP port names
    owner,    \* the pid daemon-owner.lock names
    struck,   \* running pids that were signalled
    seen,     \* firstSeenParent of the server
    sweep,    \* the pass
    starts

reapVars == <<host, ledger, registry, owner, struck, seen, sweep, starts>>

Class == {"client", "session", "shell", "supervisor", "stdio", "http", "exec", "runner"}
Free  == [class |-> "free", parent |-> NoPid, old |-> FALSE]
First == CHOOSE p \in Pid \ {Self} : TRUE \* the client of Self
NoSweep == [at |-> "off", auto |-> TRUE, table |-> [p \in Pid |-> Free], todo |-> {}, doomed |-> {}, shared |-> {}, count |-> 0]

ReapInit ==
    /\ host = [p \in Pid |-> CASE p = Self  -> [class |-> "stdio", parent |-> First, old |-> FALSE]
                               [] p = First -> [class |-> "client", parent |-> Init1, old |-> FALSE]
                               [] OTHER     -> Free]
    /\ ledger = {} /\ registry = NoPid /\ owner = NoPid
    /\ struck = {} /\ seen = [p \in Pid |-> NoPid] /\ sweep = NoSweep /\ starts = 0

Runs(p) == p = Init1 \/ (p \in Pid /\ host[p].class # "free")
Of(class) == {p \in Pid : host[p].class = class}
SweepAt(stage) == sweep.at = stage

-----------------------------------------------------------------------------
(* The host.                                                                 *)

\* Who starts a process of each class.
Starters(class) ==
    CASE class = "stdio" -> Of("client") \cup Of("shell") \cup Of("supervisor")
      [] class = "shell" -> Of("client") \cup Of("session")
      [] class = "http"  -> Of("shell") \cup {Init1}
      [] class = "exec"  -> Of("runner")
      [] OTHER           -> {Init1}

(* An HTTP server takes the port and its record, a runner the lock of a     *)
(* holder that is gone; a runner records its exec children.                 *)
Starts(p, class, parent) ==
    /\ host[p].class = "free" /\ sweep.table[p].class = "free" /\ p \notin sweep.doomed
    /\ starts < MaxStart
    /\ class = "http" => Of("http") = {}
    /\ parent \in Starters(class)
    /\ starts' = starts + 1
    /\ host' = [host EXCEPT ![p] = [class |-> class, parent |-> parent, old |-> FALSE]]
    /\ registry' = IF class = "http" THEN p ELSE registry
    /\ owner' = IF class = "runner" /\ ~Runs(owner) THEN p ELSE owner
    /\ ledger' = IF class = "exec" THEN ledger \cup {p} ELSE ledger
    /\ UNCHANGED <<struck, seen, sweep>>

\* Children go to init, or to the nearest session manager above.
Ends(p) ==
    /\ Runs(p) /\ p # Self
    /\ LET heir == IF host[p].parent \in Of("session") THEN host[p].parent ELSE Init1
       IN  host' = [q \in Pid |-> IF q = p THEN Free
                                  ELSE IF host[q].parent = p THEN [host[q] EXCEPT !.parent = heir] ELSE host[q]]
    /\ struck' = struck \ {p}
    /\ UNCHANGED <<ledger, registry, owner, seen, sweep, starts>>

\* Half an hour, and the ten minutes of a runner.
Ages(p) ==
    /\ Runs(p) /\ ~host[p].old /\ host[p].class \in {"stdio", "runner"}
    /\ host' = [host EXCEPT ![p].old = TRUE]
    /\ UNCHANGED <<ledger, registry, owner, struck, seen, sweep, starts>>

-----------------------------------------------------------------------------
(* Evidence: verdictOf over the predicates, as the host is when it is read.  *)

\* The ancestors the table gives, nearest first, as far as they are followed.
Chain(table, p) ==
    LET up[hop \in 0..MAX_PARENT_HOPS] ==
          IF hop = 0 THEN table[p].parent
          ELSE IF up[hop - 1] \in Pid THEN table[up[hop - 1]].parent ELSE NoPid
    IN  up

\* liveMcpClientInParentChain: no client up to the first ancestor that is dead.
ClientInChain(p) ==
    LET up == Chain(sweep.table, p)
    IN  \E hop \in 0..MAX_PARENT_HOPS - 1 :
           /\ \A h \in 0..hop : up[h] \in Pid /\ Runs(up[h])
           /\ sweep.table[up[hop]].class = "client"

\* Mutant of ClientAbove: the chain of parents is not walked.
ClientAboveNever(p) == FALSE
ClientAbove(p) == ClientInChain(p)

\* attributePid: the ledger has a row of the pid.
Attributed(p) == p \in ledger

\* Who answers on the port, and whom its record names.
Listeners == Of("http")
Recorded == {registry} \ {NoPid}

\* parentAbandoned, reparentedSinceFirstSeen.
Abandoned(parent) == parent # NoPid /\ (parent = Init1 \/ ~Runs(parent))
Reparented(p) == seen[p] \notin {NoPid, sweep.table[p].parent}

\* assessUnattributedServers; a stdio server has no port that answers.
LeakedServer(p) ==
    LET parent == sweep.table[p].parent
    IN  /\ sweep.table[p].class = "stdio"
        /\ p # Self /\ Runs(p)
        /\ Abandoned(parent) \/ Reparented(p) \/ ~Attributed(p)
        /\ ~ClientAbove(p)
        /\ parent \in Pid => sweep.table[parent].class # "supervisor"

(* assessHttpInstances: the process owns the port, or answers on it, under   *)
(* the pid recorded; nothing is attached to the port of an idle server.      *)
IdleHttp(p) ==
    /\ p \in Recorded \cap Listeners
    /\ Abandoned(host[p].parent)

\* staleRecordFinding: nobody listens, no supervisor lives.
StaleRecord == Recorded # {} /\ (\A p \in Recorded : ~Runs(p)) /\ Listeners = {}

NotHolder(p) == owner # p /\ Runs(owner)

\* assessRunnerProcesses, with no swap and no intentional exit of late.
StaleRunner(p) ==
    /\ sweep.table[p].class = "runner" /\ Runs(p)
    /\ NotHolder(p) /\ host[p].old

-----------------------------------------------------------------------------
(* A pass of the scheduler, or reap --apply by hand.                         *)

BeginSweep ==
    /\ SweepAt("off")
    /\ \E auto \in BOOLEAN :
          sweep' = [NoSweep EXCEPT !.at = "assess", !.auto = auto, !.table = host,
                       !.todo = Of("stdio") \cup Of("runner") \cup {q \in {Init1} : registry # NoPid}]
    \* pruneFirstSeenParents
    /\ seen' = [p \in Pid |-> IF host[p].class = "stdio" THEN seen[p] ELSE NoPid]
    /\ UNCHANGED <<host, ledger, registry, owner, struck, starts>>

\* The record of the port (Init1), the servers of the table, then the runners.
Rank(p) == CASE p = Init1 -> <<0, p>> [] sweep.table[p].class = "stdio" -> <<1, p>> [] OTHER -> <<2, p>>
Comes(p, q) == Rank(p)[1] < Rank(q)[1] \/ (Rank(p)[1] = Rank(q)[1] /\ p <= q)

Assess(p) ==
    /\ SweepAt("assess") /\ p \in sweep.todo /\ \A q \in sweep.todo : Comes(p, q)
    /\ \E quiet \in BOOLEAN :
          LET found == IF p = Init1
                       THEN {q \in {Init1} : StaleRecord} \cup {q \in Pid \ {Self} : IdleHttp(q)}
                       ELSE {q \in {p} : LeakedServer(q) \/ (quiet /\ StaleRunner(q))}
          IN  sweep' = [sweep EXCEPT !.todo = @ \ {p}, !.doomed = @ \cup found]
    /\ seen' = IF p # Init1 /\ sweep.table[p].class = "stdio" /\ seen[p] = NoPid
               THEN [seen EXCEPT ![p] = sweep.table[p].parent] ELSE seen
    /\ UNCHANGED <<host, ledger, registry, owner, struck, starts>>

\* sharedHttpPids, read after the verdicts.
Assessed ==
    /\ SweepAt("assess") /\ sweep.todo = {}
    /\ sweep' = [sweep EXCEPT !.at = "apply", !.shared = Listeners]
    /\ UNCHANGED <<host, ledger, registry, owner, struck, seen, starts>>

\* dropHttpRecord reads the record again: no pid it names may run.
RecordDead == \A p \in Recorded : ~Runs(p)

DropRecord ==
    /\ SweepAt("apply") /\ Init1 \in sweep.doomed
    /\ registry' = IF RecordDead THEN NoPid ELSE registry
    /\ sweep' = [sweep EXCEPT !.doomed = @ \ {Init1}]
    /\ UNCHANGED <<host, ledger, owner, struck, seen, starts>>

\* Mutant of AncestorsClear: init, which the table need not have, counts as an ancestor.
AncestorsClearAll(p) ==
    \A hop \in 0..MAX_PARENT_HOPS - 1 :
        /\ Chain(sweep.table, p)[hop] # Init1
        /\ Chain(sweep.table, p)[hop] \in Pid =>
              sweep.table[Chain(sweep.table, p)[hop]].class \notin {"client", "session", "free"}

\* ancestorVerdict over the table: no client, no session, nobody unread.
AncestorsClear(p) ==
    LET up == Chain(sweep.table, p)
    IN  \A hop \in 0..MAX_PARENT_HOPS - 1 :
           up[hop] \in Pid => sweep.table[up[hop]].class \notin {"client", "session", "free"}

\* autoApplyDecision.
Eligible(p) ==
    /\ p \notin sweep.shared
    /\ AncestorsClear(p)
    /\ sweep.table[p].old
    /\ sweep.count < MaxPerPass

\* The automatic pass leaves HTTP servers to the one by hand.
MaySignal(p) ==
    CASE sweep.table[p].class = "runner" -> TRUE
      [] sweep.table[p].class = "stdio"  -> sweep.auto => Eligible(p)
      [] OTHER                           -> ~sweep.auto

Signal(p) ==
    /\ SweepAt("apply") /\ p \in sweep.doomed \ {Init1}
    /\ sweep' = [sweep EXCEPT !.doomed = @ \ {p}, !.count = IF MaySignal(p) THEN @ + 1 ELSE @]
    /\ struck' = IF MaySignal(p) /\ Runs(p) THEN struck \cup {p} ELSE struck
    /\ UNCHANGED <<host, ledger, registry, owner, seen, starts>>

EndSweep ==
    /\ SweepAt("apply") /\ sweep.doomed = {}
    /\ sweep' = NoSweep
    /\ UNCHANGED <<host, ledger, registry, owner, struck, seen, starts>>

SweepStep == BeginSweep \/ (\E p \in Pid \cup {Init1} : Assess(p)) \/ Assessed \/ DropRecord
                \/ (\E p \in Pid : Signal(p)) \/ EndSweep

ReapNext ==
    \/ \E p \in Pid : Ends(p) \/ Ages(p)
    \/ \E p \in Pid, class \in Class, parent \in Pid \cup {Init1} : Starts(p, class, parent)
    \/ SweepStep

ReapFairness == /\ WF_reapVars(SweepStep)
                /\ \A p \in Pid : WF_reapVars(Ages(p)) /\ WF_reapVars(p \in struck /\ Ends(p))
ReapSpec == ReapInit /\ [][ReapNext]_reapVars /\ ReapFairness

-----------------------------------------------------------------------------
(* Properties.                                                               *)

Procs == [class : Class \cup {"free"}, parent : Pid \cup {NoPid, Init1}, old : BOOLEAN]

ReapTypeOK ==
    /\ host \in [Pid -> Procs]
    /\ ledger \subseteq Pid /\ seen \in [Pid -> Pid \cup {NoPid, Init1}]
    /\ {registry, owner} \subseteq Pid \cup {NoPid}
    /\ struck \subseteq Pid
    /\ sweep \in [at : {"off", "assess", "apply"}, auto : BOOLEAN, table : [Pid -> Procs],
                  todo : SUBSET (Pid \cup {Init1}), doomed : SUBSET (Pid \cup {Init1}),
                  shared : SUBSET Pid, count : Nat]

\* Some client above the process runs.
Driven(p) ==
    LET up == Chain(host, p)
    IN  \E hop \in 0..MAX_PARENT_HOPS - 1 : up[hop] \in Of("client")

(* "a server a session is driving is never touched", nor the runner that     *)
(* holds the lock, nor the record of a server that runs, whatever happens on *)
(* the host between the table, the evidence and the signal.                  *)
SparesTheLiving ==
    /\ \A p \in struck : /\ p # Self
                         /\ host[p].class = "stdio" => ~Driven(p)
                         /\ host[p].class = "runner" => p # owner
    /\ \A p \in Of("http") : registry = p

(* A server whose client is gone, with init for a parent, does not stay: it  *)
(* ends by itself or is signalled by a pass.                                 *)
LeakRetired ==
    \A p \in Pid \ {Self} :
        (host[p].class = "stdio" /\ host[p].parent = Init1 /\ p \notin ledger)
            ~> (p \in struck \/ host[p].class # "stdio")

(* The state is typed, and nothing with a living client is ended.            *)
ReaperInv == ReapTypeOK /\ SparesTheLiving
================================================================================
