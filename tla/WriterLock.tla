------------------------------- MODULE WriterLock -------------------------------
(* writer_lock and consolidate (triage-verbs.js): sessions take the lock of a *)
(* checkout by a hard link, a lock whose holder has no process is put aside,  *)
(* and consolidate resets checkouts whose locks are free. Servers interleave  *)
(* between two file operations, and across every git command and await.       *)
EXTENDS Naturals, FiniteSets

CONSTANTS
    Agent,    \* sessions
    Stale,    \* calls of quarantine_stale
    MaxTake,
    Checkout, ParentCheckout, \* the gm checkout and its submodules
    Work      \* pieces of work

ASSUME WriterShape == ParentCheckout \in Checkout /\ MaxTake \in Nat

Nobody == [who |-> "nobody", take |-> 0]

VARIABLES
    wlock,   \* the lock file: who took it, and which take it was
    aside,   \* locks in quarantine directories
    holds,   \* the take each session believes it holds, or 0
    inTable, \* sessions named in a command line
    leaving, \* the lock each session read to release it
    quar,    \* calls of quarantine_stale
    takes,
    upset,   \* history: a call moved or removed another lock than the one it read
    firm     \* history: sessions in the table ever since they took the lock

writerVars == <<wlock, aside, holds, inTable, leaving, quar, takes, upset, firm>>

Waiting == [at |-> "rest", read |-> Nobody, moved |-> Nobody]

LockInit ==
    /\ wlock = Nobody /\ aside = {} /\ takes = 0
    /\ holds = [s \in Agent |-> 0] /\ inTable = Agent
    /\ leaving = [s \in Agent |-> Nobody]
    /\ quar = [q \in Stale |-> Waiting]
    /\ upset = FALSE /\ firm = {}

\* linkSync of a whole marker: one of two takers gets it.
Take(s) ==
    /\ takes < MaxTake /\ s \in inTable /\ holds[s] = 0
    /\ wlock = Nobody
    /\ takes' = takes + 1
    /\ wlock' = [who |-> s, take |-> takes'] /\ holds' = [holds EXCEPT ![s] = takes']
    /\ firm' = firm \cup {s}
    /\ UNCHANGED <<aside, inTable, leaving, quar, upset>>

IsHolder(s) == wlock.who = s

\* readHolder, then the removal by name; not_holder otherwise.
ReleaseReads(s) ==
    /\ leaving[s] = Nobody /\ IsHolder(s)
    /\ leaving' = [leaving EXCEPT ![s] = wlock]
    /\ UNCHANGED <<wlock, aside, holds, inTable, quar, takes, upset, firm>>

Release(s) ==
    /\ leaving[s] # Nobody
    /\ wlock' = Nobody /\ leaving' = [leaving EXCEPT ![s] = Nobody]
    /\ holds' = [holds EXCEPT ![s] = 0] /\ firm' = firm \ {s}
    /\ upset' = (upset \/ wlock \notin {Nobody, leaving[s]})
    /\ UNCHANGED <<aside, inTable, quar, takes>>

\* A session's processes end, or it is resumed.
Leaves(s) == /\ s \in inTable /\ inTable' = inTable \ {s} /\ firm' = firm \ {s}
             /\ UNCHANGED <<wlock, aside, holds, leaving, quar, takes, upset>>
Resumes(s) == /\ s \notin inTable /\ inTable' = inTable \cup {s}
              /\ UNCHANGED <<wlock, aside, holds, leaving, quar, takes, upset, firm>>

Advance(q, record) == quar' = [quar EXCEPT ![q] = record]

QuarantineReads(q) ==
    /\ quar[q].at = "rest" /\ wlock # Nobody
    /\ Advance(q, [Waiting EXCEPT !.at = "table", !.read = wlock])
    /\ UNCHANGED <<wlock, aside, holds, inTable, leaving, takes, upset, firm>>

\* Mutant of Gone: the holder is not looked up.
GoneAny(q) == TRUE
\* No git write is live, and no command line names the holder.
Gone(q) == quar[q].read.who \notin inTable

QuarantineLooks(q) ==
    /\ quar[q].at = "table"
    /\ \E gitWrites \in BOOLEAN :
          Advance(q, IF ~gitWrites /\ Gone(q) THEN [quar[q] EXCEPT !.at = "move"] ELSE Waiting)
    /\ UNCHANGED <<wlock, aside, holds, inTable, leaving, takes, upset, firm>>

\* renameSync of whatever has the name by now; with none there it throws.
QuarantineMoves(q) ==
    /\ quar[q].at = "move"
    /\ wlock' = Nobody
    /\ aside' = aside \cup ({wlock} \ {Nobody})
    /\ Advance(q, IF wlock.who \in {"nobody", quar[q].read.who} THEN Waiting
                  ELSE [quar[q] EXCEPT !.at = "restore", !.moved = wlock])
    /\ upset' = (upset \/ wlock \notin {Nobody, quar[q].read})
    /\ UNCHANGED <<holds, inTable, leaving, takes, firm>>

\* linkSync back, when no lock has taken its place.
QuarantineRestores(q) ==
    /\ quar[q].at = "restore"
    /\ IF wlock = Nobody THEN wlock' = quar[q].moved /\ aside' = aside \ {quar[q].moved}
       ELSE UNCHANGED <<wlock, aside>>
    /\ Advance(q, Waiting)
    /\ UNCHANGED <<holds, inTable, leaving, takes, upset, firm>>

LockStep ==
    \/ \E s \in Agent : Take(s) \/ ReleaseReads(s) \/ Release(s) \/ Leaves(s) \/ Resumes(s)
    \/ \E q \in Stale : QuarantineReads(q) \/ QuarantineLooks(q) \/ QuarantineMoves(q) \/ QuarantineRestores(q)

-----------------------------------------------------------------------------
(* consolidate, applied.                                                     *)

VARIABLES
    tree,   \* work of each checkout: edits, and commits not on origin
    shelved,  \* work in backup refs and patches
    landing,  \* the call
    looked, \* history: work it has looked at, in the form it had then
    broken  \* history: git commands of the call that failed

workVars == <<tree, shelved, landing, looked, broken>>

NoLanding == [at |-> "off", todo |-> {}, on |-> ParentCheckout, head |-> {}, ahead |-> FALSE, dirty |-> FALSE]

WorkInit ==
    /\ tree = [k \in Checkout |-> [edits |-> {}, commits |-> {}]]
    /\ shelved = {} /\ landing = NoLanding /\ looked = {} /\ broken = {}

Forms(k) == {<<w, "edit">> : w \in tree[k].edits} \cup {<<w, "commit">> : w \in tree[k].commits}
Everywhere == UNION {Forms(k) : k \in Checkout}

\* Somebody edits a checkout, and commits: the locks are not asked again.
Edit(k, w) ==
    /\ \A f \in {"edit", "commit"} : <<w, f>> \notin Everywhere \cup looked
    /\ w \notin shelved
    /\ tree' = [tree EXCEPT ![k].edits = @ \cup {w}]
    /\ UNCHANGED <<shelved, landing, looked, broken>>

CommitWork(k) ==
    /\ tree[k].edits # {}
    /\ tree' = [tree EXCEPT ![k].commits = @ \cup tree[k].edits, ![k].edits = {}]
    /\ looked' = {p \in looked : p[1] \notin tree[k].edits}
    /\ UNCHANGED <<shelved, landing, broken>>

\* No writer lock is there when it begins.
Consolidate ==
    /\ wlock = Nobody /\ landing.at = "off" /\ shelved = {}
    /\ landing' = [NoLanding EXCEPT !.at = "head", !.todo = Checkout \ {ParentCheckout}]
    /\ UNCHANGED <<tree, shelved, looked, broken>>

NextCheckout ==
    IF landing.todo = {} THEN NoLanding
    ELSE LET k == CHOOSE c \in landing.todo : TRUE
         IN [landing EXCEPT !.at = "head", !.on = k, !.todo = @ \ {k}]

Mine == tree[landing.on]

\* A fetch that fails leaves the checkout as it is; a rev-parse that fails has
\* no output, and the call goes on with it.
ReadsHead ==
    /\ landing.at = "head"
    /\ \/ landing' = NextCheckout /\ UNCHANGED <<looked, broken>>
       \/ /\ \/ landing' = [landing EXCEPT !.at = "count", !.head = Mine.commits] /\ UNCHANGED broken
             \/ landing' = [landing EXCEPT !.at = "count", !.head = {}] /\ broken' = broken \cup {"head"}
          /\ looked' = looked \cup Forms(landing.on)
    /\ UNCHANGED <<tree, shelved>>

\* A status that fails reads as a clean checkout, a count that fails ("?") as one ahead.
CountsWork ==
    /\ landing.at = "count"
    /\ \E clean, ahead \in BOOLEAN :
          /\ ahead \/ Mine.commits = {}
          /\ landing' = [landing EXCEPT !.at = "backup", !.dirty = ~clean, !.ahead = ahead]
          /\ \/ clean = (Mine.edits = {}) /\ UNCHANGED broken
             \/ clean /\ broken' = broken \cup {"status"}
    /\ UNCHANGED <<tree, shelved, looked>>

BackedUp == IF landing.ahead THEN landing.head ELSE {}
Diffed == IF landing.dirty THEN Mine.edits ELSE {}

\* update-ref and diff: what they answer is not looked at.
Shelves(at, next, what) ==
    /\ landing.at = at
    /\ landing' = [landing EXCEPT !.at = next]
    /\ \/ shelved' = shelved \cup what /\ UNCHANGED broken
       \/ broken' = broken \cup {at} /\ UNCHANGED shelved
    /\ UNCHANGED <<tree, looked>>

ResetsHard ==
    /\ landing.at = "reset"
    /\ \/ tree' = [tree EXCEPT ![landing.on] = [edits |-> {}, commits |-> {}]]
       \/ UNCHANGED tree
    /\ landing' = NextCheckout
    /\ UNCHANGED <<shelved, looked, broken>>

WorkStep ==
    \/ \E k \in Checkout : CommitWork(k) \/ \E w \in Work : Edit(k, w)
    \/ Consolidate \/ ReadsHead \/ CountsWork
    \/ Shelves("backup", "diff", BackedUp) \/ Shelves("diff", "reset", Diffed) \/ ResetsHard

-----------------------------------------------------------------------------
LockTypeOK ==
    /\ wlock \in {Nobody} \cup [who : Agent, take : 1..MaxTake]
    /\ holds \in [Agent -> 0..MaxTake] /\ firm \subseteq inTable /\ inTable \subseteq Agent
    /\ \A k \in Checkout : tree[k].edits \cap tree[k].commits = {} /\ tree[k].edits \subseteq Work
    /\ landing.at \in {"off", "head", "count", "backup", "diff", "reset"}

(* Two sessions with live processes do not both hold a checkout, whoever     *)
(* takes, releases, ends, comes back and quarantines meanwhile, as long as   *)
(* no call met another lock under the name than the one it had read.         *)
OneWriter == ~upset => Cardinality({s \in firm : holds[s] # 0}) <= 1

(* What consolidate saw in a checkout, edited or committed, and nobody has   *)
(* changed since, is there or is shelved, as long as git fails at nothing.   *)
WorkKept ==
    broken = {} => \A p \in looked : p \in Everywhere \/ p[1] \in shelved

(* "backs up each local main HEAD ... when it is ahead; saves the dirty diff *)
(* ...; resets": not kept, a backup or a diff that failed is followed by the *)
(* reset all the same.                                                       *)
WorkBackedUp == \A p \in looked : p \in Everywhere \/ p[1] \in shelved

(* The state is typed, a checkout has one writer, and no work is reset away. *)
WriterLockInv == LockTypeOK /\ OneWriter /\ WorkKept
================================================================================
