------------------------------- MODULE PartsProofs -------------------------------
(* For every value of the constants: theorems about parts of gm-mcp that      *)
(* MCParts puts side by side. Each part has an invariant that its own steps   *)
(* keep; the steps of the others leave its variables alone.                   *)
EXTENDS MCParts, SequenceTheorems, FiniteSetTheorems, WellFoundedInduction, TLAPS

-----------------------------------------------------------------------------
(* SuperviseLock: the lock of the supervisors of a project.                  *)

Stops == {"off", "open", "write", "read", "unlink", "serves", "release", "gone"}
Holder == {"none", "earlier"} \cup Boss

SupTyped ==
    /\ superLock \in [by : Holder, written : BOOLEAN]
    /\ boss \in [Boss -> [at : Stops, tried : 0..2, judged : Holder]]
    /\ snatched \in BOOLEAN
    /\ superLock.by = "none" => superLock = NoLock
    /\ \A d \in Boss : boss[d].at \in {"read", "unlink"} => boss[d].tried < 2

\* Who made the lock there is has started, and who is judged has ended: a
\* supervisor does not start again.
HolderHasRun ==
    /\ superLock.by \in Boss => boss[superLock.by].at # "off"
    /\ \A d \in Boss : boss[d].at = "unlink" /\ boss[d].judged \in Boss => boss[boss[d].judged].at = "gone"

\* From its making to its removal a lock keeps the name of its supervisor.
MakerHasLock == ~snatched => \A d \in Boss : boss[d].at \in {"write", "serves", "release"} => superLock.by = d

SupInv == SupTyped /\ HolderHasRun /\ MakerHasLock

\* A lock left by an earlier supervisor is nobody's.
LEMMA SupStarts == SuperInit => SupInv
<1> SUFFICES ASSUME SuperInit PROVE SupInv
    OBVIOUS
<1>1. superLock.by \in {"none", "earlier"} /\ superLock.by \notin Boss /\ \A d \in Boss : boss[d].at = "off"
    BY BossNames DEF SuperInit, NoLock, Left
<1>2. SupTyped
    <2>1. superLock \in [by : Holder, written : BOOLEAN] /\ (superLock.by = "none" => superLock = NoLock)
        <3>1. CASE superLock = NoLock
            BY <3>1 DEF NoLock, Holder
        <3>2. CASE superLock \in Left
            <4>1. superLock \in [by : Holder, written : BOOLEAN] 
                BY <3>2 DEF Left, Holder
            <4>2. superLock.by = "earlier" 
                BY <3>2 DEF Left
            <4> QED BY <4>1, <4>2
        <3> QED BY <3>1, <3>2 DEF SuperInit
    <2>2. boss \in [Boss -> [at : Stops, tried : 0..2, judged : Holder]]
        BY DEF SuperInit, Stops, Holder
    <2> QED BY <1>1, <2>1, <2>2 DEF SupTyped, SuperInit
<1> QED BY <1>1, <1>2 DEF SupInv, HolderHasRun, MakerHasLock

\* While nobody removes a lock that is not its own, no step takes it from its maker.
LEMMA SupStep == SupInv /\ SuperNext => SupInv'
<1> SUFFICES ASSUME SupInv, NEW d \in Boss,
                    \/ Starts(d) \/ CreatesLock(d) \/ WritesPid(d) \/ ReadsHolder(d) \/ Unlinks(d) \/ Contended(d)
                    \/ ReadsOwn(d) \/ Releases(d) \/ Killed(d)
             PROVE  SupInv'
    BY DEF SuperNext
<1> USE BossNames DEF SupInv, SupTyped, HolderHasRun, MakerHasLock, Stops, Holder, NoLock, BossAt, BossGoes
<1>1. CASE Starts(d)
    BY <1>1 DEF Starts
<1>2. CASE CreatesLock(d)
    <2>1. CASE superLock = NoLock
        <3>1. superLock' = [by |-> d, written |-> FALSE] /\ boss' = [boss EXCEPT ![d].at = "write"] /\ snatched' = snatched
            BY <1>2, <2>1 DEF CreatesLock
        <3>2. ~snatched => \A e \in Boss : boss[e].at \notin {"write", "serves", "release"}
            BY <2>1
        <3>3. superLock' \in [by : Holder, written : BOOLEAN] /\ superLock'.by = d
            BY <3>1
        <3>4. boss'  \in [Boss -> [at : Stops, tried : 0..2, judged : Holder]]
            BY <3>1
        <3>5. boss'[d].at = "write" /\ \A e \in Boss \ {d} : boss'[e] = boss[e]
            BY <3>1
        <3>6. \A e \in Boss : boss[e].at = "unlink" => e # d /\ boss[e].judged # d
            BY <1>2 DEF CreatesLock
        <3>7. d \notin {"none", "earlier"}
            OBVIOUS
        <3> QED BY <3>1, <3>2, <3>3, <3>4, <3>5, <3>6, <3>7
    <2>2. CASE superLock # NoLock
        BY <1>2, <2>2 DEF CreatesLock
    <2> QED BY <2>1, <2>2
<1>3. CASE WritesPid(d)
    BY <1>3 DEF WritesPid
<1>4. CASE ReadsHolder(d)
    <2>1. CASE superLock = NoLock
        BY <1>4, <2>1 DEF ReadsHolder
    <2>2. CASE superLock # NoLock /\ ~HolderGone(superLock)
        BY <1>4, <2>2 DEF ReadsHolder
    <2>3. CASE superLock # NoLock /\ HolderGone(superLock)
        <3>1. /\ boss' = [boss EXCEPT ![d].at = "unlink", ![d].judged = superLock.by]
              /\ UNCHANGED <<superLock, snatched>>
            BY <1>4, <2>3 DEF ReadsHolder
        <3>2. superLock.by \in Boss => boss[superLock.by].at = "gone" /\ superLock.by # d
            BY <1>4, <2>3 DEF ReadsHolder, HolderGone, BossRuns
        <3>3. boss'  \in [Boss -> [at : Stops, tried : 0..2, judged : Holder]]
            BY <3>1
        <3>4. boss'[d].at = "unlink" /\ boss'[d].judged = superLock.by /\ boss'[d].tried = boss[d].tried /\ \A e \in Boss \ {d} : boss'[e] = boss[e]
            BY <3>1
        <3>5. boss[d].at = "read"
            BY <1>4 DEF ReadsHolder
        <3>6. SupTyped' /\ MakerHasLock'
            BY <3>1, <3>3, <3>4, <3>5
        <3>7. HolderHasRun'
            BY <3>1, <3>2, <3>3, <3>4, <3>5
        <3> QED BY <3>6, <3>7
    <2> QED BY <2>1, <2>2, <2>3
<1>5. CASE Unlinks(d)
    BY <1>5 DEF Unlinks
<1>6. CASE Contended(d)
    BY <1>6 DEF Contended
<1>7. CASE ReadsOwn(d)
    BY <1>7 DEF ReadsOwn
<1>8. CASE Releases(d)
    BY <1>8 DEF Releases
<1>9. CASE Killed(d)
    BY <1>9 DEF Killed, BossRuns
<1> QED BY <1>1, <1>2, <1>3, <1>4, <1>5, <1>6, <1>7, <1>8, <1>9

\* The safety properties of the supervisors follow.
LEMMA SupSafe == SupInv => SuperInv
BY DEF SupInv, SupTyped, Holder, MakerHasLock, SuperInv, SuperTypeOK, OneBoss, BossHasLock, BossAt

\* Nothing changes while the part rests.
LEMMA SupRests == SupInv /\ UNCHANGED superVars => SupInv'
BY DEF superVars, SupInv, SupTyped, HolderHasRun, MakerHasLock

-----------------------------------------------------------------------------
(* WriterLock: the lock of a checkout, and the work a landing takes over.    *)

Lock == [who : Agent, take : 1..MaxTake]
QuarStops == {"rest", "table", "move", "restore"}
Quars == [at : QuarStops, read : {Nobody} \cup Lock, moved : {Nobody} \cup Lock]

LockTyped ==
    /\ wlock \in {Nobody} \cup Lock /\ takes \in 0..MaxTake
    /\ holds \in [Agent -> 0..MaxTake] /\ firm \subseteq inTable /\ inTable \subseteq Agent
    /\ leaving \in [Agent -> {Nobody} \cup Lock]
    /\ quar \in [Stale -> Quars]
    /\ upset \in BOOLEAN

\* What a call means to remove or to put back is a lock, and nobody's by now.
CallsMeanLocks ==
    /\ \A s \in Agent : leaving[s] # Nobody => leaving[s].who = s
    /\ \A q \in Stale : quar[q].at \in {"table", "move"} => quar[q].read \in Lock /\ quar[q].read.take <= takes
    /\ \A q \in Stale : quar[q].at = "restore" => upset /\ quar[q].moved \in Lock /\ quar[q].moved.take <= takes

\* A holder that never left the table has its lock, and quarantine judged
\* another one.
FirmHasLock ==
    /\ \A s \in firm : holds[s] # 0
    /\ ~upset => \A s \in firm : wlock = [who |-> s, take |-> holds[s]]
    /\ \A q \in Stale : quar[q].at = "move" =>
           \A s \in firm : ~(quar[q].read.who = s /\ quar[q].read.take = holds[s])

TakesCounted == wlock # Nobody => wlock.take <= takes

WLockInv == LockTyped /\ CallsMeanLocks /\ FirmHasLock /\ TakesCounted

\* No lock at first, and nobody judges one.
LEMMA LockStarts == LockInit => WLockInv
<1> SUFFICES ASSUME LockInit PROVE WLockInv
    OBVIOUS
<1>1. LockTyped
    <2>1. Waiting \in Quars
        BY DEF Waiting, QuarStops, Quars
    <2>2. 0 \in 0..MaxTake
        BY WriterShape
    <2>3. quar \in [Stale -> Quars]
        BY <2>1 DEF LockInit
    <2>4. holds \in [Agent -> 0..MaxTake] /\ leaving \in [Agent -> {Nobody} \cup Lock]
        BY <2>2 DEF LockInit
    <2> QED BY <2>2, <2>3, <2>4 DEF LockInit, LockTyped
<1>2. CallsMeanLocks /\ FirmHasLock /\ TakesCounted
    BY DEF LockInit, CallsMeanLocks, FirmHasLock, TakesCounted, Waiting
<1> QED BY <1>1, <1>2 DEF WLockInv

\* A lock is told from none by its taker and its take.
LEMMA NobodyIsNoLock == Nobody \notin Lock /\ Nobody.who = "nobody" /\ Nobody.take = 0
BY DEF Nobody, Lock

\* Each step of takers, leavers and quarantine keeps the lock with its firm holder.
LEMMA LockSteps == WLockInv /\ LockStep => WLockInv'
<1> SUFFICES ASSUME WLockInv, LockStep PROVE WLockInv'
    OBVIOUS
<1> USE NobodyIsNoLock, WriterShape DEF WLockInv, LockTyped, CallsMeanLocks, FirmHasLock, TakesCounted
<1>1. ASSUME NEW s \in Agent, Take(s) PROVE WLockInv'
    <2>1. takes' \in 1..MaxTake /\ takes' = takes + 1
        BY <1>1 DEF Take
    <2>2. wlock' \in Lock /\ wlock' = [who |-> s, take |-> takes']
        BY <1>1, <2>1 DEF Take, Lock
    <2>3. holds' = [holds EXCEPT ![s] = takes'] /\ firm' = firm \cup {s} /\ UNCHANGED <<aside, inTable, leaving, quar, upset>>
        BY <1>1 DEF Take
    <2>4. LockTyped'
        BY <1>1, <2>1, <2>2, <2>3 DEF Take
    <2>5. CallsMeanLocks' /\ TakesCounted'
        <3>1. \A q \in Stale : /\ quar[q].at \in {"table", "move"} => quar[q].read.take <= takes'
                               /\ quar[q].at = "restore" => quar[q].moved.take <= takes'
            BY <2>1, <2>3 DEF Lock
        <3>2. \A u \in Agent : leaving'[u] # Nobody => leaving'[u].who = u
            BY <2>3
        <3>3. \A q \in Stale : /\ quar'[q].at \in {"table", "move"} => quar'[q].read \in Lock /\ quar'[q].read.take <= takes'
                               /\ quar'[q].at = "restore" => upset' /\ quar'[q].moved \in Lock /\ quar'[q].moved.take <= takes'
            BY <2>3, <3>1
        <3>4. wlock'.take <= takes'
            BY <2>1, <2>2
        <3>5. CallsMeanLocks'
            BY <3>2, <3>3
        <3>6. TakesCounted'
            BY <3>4
        <3> QED BY <3>5, <3>6
    <2>6. FirmHasLock'
        <3>1. ~upset => firm = {}
            <4>1. \A u \in firm : ~upset => wlock.take = holds[u] /\ holds[u] # 0
                OBVIOUS
            <4>2. wlock.take = 0
                BY <1>1 DEF Take
            <4> QED BY <4>1, <4>2
        <3>2. \A q \in Stale : quar[q].at = "move" => quar[q].read.take # takes'
            BY <2>1 DEF Lock
        <3>3. holds'[s] = takes' /\ takes' # 0 /\ \A u \in Agent \ {s} : holds'[u] = holds[u]
            BY <2>1, <2>3
        <3>4. \A q \in Stale : quar[q].at = "move" =>
                 \A u \in firm' : ~(quar[q].read.who = u /\ quar[q].read.take = holds'[u])
            BY <2>3, <3>2, <3>3
        <3>5. \A u \in firm' : holds'[u] # 0
            BY <2>3, <3>3
        <3>6. ~upset => \A u \in firm' : wlock' = [who |-> u, take |-> holds'[u]]
            BY <2>2, <2>3, <3>1, <3>3
        <3> QED BY <2>3, <3>4, <3>5, <3>6
    <2> QED BY <2>4, <2>5, <2>6
<1>2. ASSUME NEW s \in Agent, ReleaseReads(s) PROVE WLockInv'
    BY <1>2 DEF ReleaseReads, IsHolder
<1>3. ASSUME NEW s \in Agent, Release(s) PROVE WLockInv'
    <2>1. LockTyped' /\ CallsMeanLocks' /\ TakesCounted'
        BY <1>3 DEF Release
    <2>2. ~upset' => firm' = {}
        <3>1. ASSUME NEW u \in firm, ~upset' PROVE u = s
            <4>1. ~upset /\ wlock \in {Nobody, leaving[s]} /\ leaving[s].who = s
                BY <1>3, <3>1 DEF Release
            <4>2. wlock.who = u /\ wlock.take = holds[u] /\ holds[u] # 0
                BY <4>1
            <4> QED BY <4>1, <4>2
        <3> QED BY <1>3, <3>1 DEF Release
    <2>3. \A u \in firm' : holds'[u] # 0 /\ holds'[u] = holds[u] /\ u \in firm
        BY <1>3 DEF Release
    <2>4. quar' = quar
        BY <1>3 DEF Release
    <2>5. FirmHasLock'
        BY <2>2, <2>3, <2>4
    <2> QED BY <2>1, <2>5
<1>4. ASSUME NEW s \in Agent, Leaves(s) \/ Resumes(s) PROVE WLockInv'
    BY <1>4 DEF Leaves, Resumes
<1>5. ASSUME NEW q \in Stale, QuarantineReads(q) PROVE WLockInv'
    <2> DEFINE next == [Waiting EXCEPT !.at = "table", !.read = wlock]
    <2>1. wlock \in Lock /\ wlock.take <= takes
        BY <1>5 DEF QuarantineReads
    <2>2. next \in Quars /\ next.at = "table" /\ next.read = wlock
        BY <2>1 DEF Waiting, QuarStops, Quars
    <2> HIDE DEF next
    <2>3. quar' = [quar EXCEPT ![q] = next] /\ UNCHANGED <<wlock, aside, holds, inTable, leaving, takes, upset, firm>>
        BY <1>5 DEF QuarantineReads, Advance, next
    <2> QED BY <2>1, <2>2, <2>3
<1>6. ASSUME NEW q \in Stale, QuarantineLooks(q) PROVE WLockInv'
    <2>1. UNCHANGED <<wlock, aside, holds, inTable, leaving, takes, upset, firm>> /\ quar[q].at = "table"
        BY <1>6 DEF QuarantineLooks
    <2>2. CASE quar' = [quar EXCEPT ![q] = Waiting]
        BY <2>1, <2>2 DEF Waiting, QuarStops, Quars
    <2>3. CASE Gone(q) /\ quar' = [quar EXCEPT ![q] = [quar[q] EXCEPT !.at = "move"]]
        <3>1. quar' \in [Stale -> Quars]
            BY <2>3 DEF QuarStops, Quars
        <3>2. quar'[q].at = "move" /\ quar'[q].read = quar[q].read /\ \A u \in Stale \ {q} : quar'[u] = quar[u]
            BY <2>3
        <3>3. quar[q].read.who \notin firm
            BY <2>3 DEF Gone
        <3> QED BY <2>1, <3>1, <3>2, <3>3
    <2> QED BY <1>6, <2>2, <2>3 DEF QuarantineLooks, Advance
<1>7. ASSUME NEW q \in Stale, QuarantineMoves(q) PROVE WLockInv'
    <2>1. /\ quar[q].at = "move" /\ wlock' = Nobody
          /\ upset' = (upset \/ wlock \notin {Nobody, quar[q].read})
          /\ UNCHANGED <<holds, inTable, leaving, takes, firm>>
        BY <1>7 DEF QuarantineMoves
    <2>2. ~upset' => firm' = {}
        <3>1. ASSUME NEW u \in firm, ~upset' PROVE FALSE
            <4>1. ~upset /\ wlock \in {Nobody, quar[q].read}
                BY <2>1, <3>1
            <4>2. wlock.who = u /\ wlock.take = holds[u] /\ holds[u] # 0
                BY <4>1
            <4> QED BY <2>1, <4>1, <4>2
        <3> QED BY <2>1, <3>1
    <2>3. CASE quar' = [quar EXCEPT ![q] = Waiting]
        BY <2>1, <2>2, <2>3 DEF Waiting, QuarStops, Quars
    <2>4. CASE wlock.who \notin {"nobody", quar[q].read.who} /\ quar' = [quar EXCEPT ![q] = [quar[q] EXCEPT !.at = "restore", !.moved = wlock]]
        <3>1. wlock \in Lock /\ upset'
            BY <2>1, <2>4
        <3>2. quar' \in [Stale -> Quars]
            BY <2>4, <3>1 DEF QuarStops, Quars
        <3>3. quar'[q].at = "restore" /\ quar'[q].moved = wlock /\ \A u \in Stale \ {q} : quar'[u] = quar[u]
            BY <2>4
        <3> QED BY <2>1, <2>2, <3>1, <3>2, <3>3
    <2> QED BY <1>7, <2>3, <2>4 DEF QuarantineMoves, Advance
<1>8. ASSUME NEW q \in Stale, QuarantineRestores(q) PROVE WLockInv'
    <2>1. /\ quar[q].at = "restore" /\ wlock' \in {wlock, quar[q].moved}
          /\ quar' = [quar EXCEPT ![q] = Waiting]
          /\ UNCHANGED <<holds, inTable, leaving, takes, upset, firm>>
        BY <1>8 DEF QuarantineRestores, Advance
    <2>2. quar' \in [Stale -> Quars]
        BY <2>1 DEF QuarStops, Quars, Waiting
    <2>3. quar'[q].at = "rest" /\ \A u \in Stale \ {q} : quar'[u] = quar[u]
        BY <2>1 DEF Waiting
    <2>4. upset' /\ wlock' \in {Nobody} \cup Lock /\ (wlock' # Nobody => wlock'.take <= takes)
        BY <2>1
    <2> QED BY <2>1, <2>2, <2>3, <2>4
<1> QED BY <1>1, <1>2, <1>3, <1>4, <1>5, <1>6, <1>7, <1>8 DEF LockStep

WorkStops == {"off", "head", "count", "backup", "diff", "reset"}
Landings == [at : WorkStops, todo : SUBSET Checkout, on : Checkout, head : SUBSET Work,
             ahead : BOOLEAN, dirty : BOOLEAN]
Form == Work \X {"edit", "commit"}

WorkTyped ==
    /\ tree \in [Checkout -> [edits : SUBSET Work, commits : SUBSET Work]]
    /\ shelved \subseteq Work /\ looked \subseteq Form
    /\ landing \in Landings
    /\ \A k \in Checkout : tree[k].edits \cap tree[k].commits = {}

\* What it looked at and is still so, in the checkout it is to reset, is on
\* its way to the shelf.
OnItsWay ==
    /\ \A w \in Mine.commits : <<w, "commit">> \in looked =>
           /\ landing.at \in {"count", "backup"} => w \in landing.head
           /\ landing.at = "backup" => landing.ahead
           /\ landing.at \in {"diff", "reset"} => w \in shelved
    /\ \A w \in Mine.edits : <<w, "edit">> \in looked =>
           /\ landing.at \in {"backup", "diff"} => landing.dirty
           /\ landing.at = "reset" => w \in shelved

LandInv == WorkTyped /\ (broken = {} => OnItsWay) /\ WorkKept

\* A piece of work is in a form somewhere iff some checkout has it so.
LEMMA InAForm ==
    ASSUME NEW w, NEW f
    PROVE  <<w, f>> \in Everywhere <=> \E k \in Checkout : \/ f = "edit" /\ w \in tree[k].edits
                                                           \/ f = "commit" /\ w \in tree[k].commits
<1>1. \A k : <<w, f>> \in Forms(k) <=> \/ f = "edit" /\ w \in tree[k].edits
                                       \/ f = "commit" /\ w \in tree[k].commits
    <2> SUFFICES ASSUME NEW k
                 PROVE  <<w, f>> \in Forms(k) <=> \/ f = "edit" /\ w \in tree[k].edits
                                                  \/ f = "commit" /\ w \in tree[k].commits
        OBVIOUS
    <2>1. <<w, f>> \in {<<v, "edit">> : v \in tree[k].edits} <=> f = "edit" /\ w \in tree[k].edits
        OBVIOUS
    <2>2. <<w, f>> \in {<<v, "commit">> : v \in tree[k].commits} <=> f = "commit" /\ w \in tree[k].commits
        OBVIOUS
    <2> QED BY <2>1, <2>2 DEF Forms
<1>2. <<w, f>> \in Everywhere <=> \E k \in Checkout : <<w, f>> \in Forms(k)
    BY DEF Everywhere
<1> QED BY <1>1, <1>2

\* The next checkout of a landing, or its end.
LEMMA NextIsTyped ==
    ASSUME WorkTyped
    PROVE  /\ NextCheckout \in Landings
           /\ NextCheckout.at \in {"off", "head"}
<1>1. CASE landing.todo = {}
    BY <1>1, WriterShape DEF NextCheckout, NoLanding, WorkStops, Landings
<1>2. CASE landing.todo # {}
    <2> DEFINE k == CHOOSE next \in landing.todo : TRUE
    <2>1. k \in landing.todo /\ landing.todo \subseteq Checkout
        BY <1>2 DEF WorkTyped, Landings
    <2>2. NextCheckout = [landing EXCEPT !.at = "head", !.on = k, !.todo = @ \ {k}]
        BY <1>2 DEF NextCheckout
    <2> HIDE DEF k
    <2> QED BY <2>1, <2>2 DEF WorkTyped, WorkStops, Landings
<1> QED BY <1>1, <1>2

\* Nothing is looked at, and nothing shelved.
LEMMA WorkStarts == WorkInit => LandInv
<1> SUFFICES ASSUME WorkInit PROVE LandInv
    OBVIOUS
<1>1. landing \in Landings
    BY WriterShape DEF WorkInit, NoLanding, WorkStops, Landings
<1>2. tree \in [Checkout -> [edits : SUBSET Work, commits : SUBSET Work]]
    BY DEF WorkInit
<1> QED BY <1>1, <1>2 DEF WorkInit, LandInv, WorkTyped, OnItsWay, WorkKept, Form

\* A step of the call in one checkout, that looks at nothing and resets nothing.
LEMMA CallGoesOn ==
    ASSUME LandInv, landing' \in Landings,
           shelved' \subseteq Work, shelved \subseteq shelved', UNCHANGED <<tree, looked>>,
           broken' = {} => broken = {} /\ OnItsWay'
    PROVE  LandInv'
BY DEF LandInv, WorkTyped, WorkKept, Everywhere, Forms

\* What was looked at is shelved before its checkout is reset.
LEMMA WorkSteps == LandInv /\ WorkStep => LandInv'
<1> SUFFICES ASSUME LandInv, WorkStep PROVE LandInv'
    OBVIOUS
<1>0. /\ tree \in [Checkout -> [edits : SUBSET Work, commits : SUBSET Work]]
      /\ shelved \subseteq Work /\ looked \subseteq Form
      /\ landing \in Landings
      /\ \A k \in Checkout : tree[k].edits \cap tree[k].commits = {}
      /\ landing.on \in Checkout
    BY DEF LandInv, WorkTyped, Landings
<1>1. ASSUME NEW k \in Checkout, NEW w \in Work, Edit(k, w) PROVE LandInv'
    <2>1. tree' = [tree EXCEPT ![k].edits = @ \cup {w}] /\ UNCHANGED <<shelved, landing, looked, broken>>
        BY <1>1 DEF Edit
    <2>2. \A h \in Checkout : w \notin tree[h].edits /\ w \notin tree[h].commits
        BY <1>1, InAForm DEF Edit
    <2>3. <<w, "edit">> \notin looked /\ <<w, "commit">> \notin looked
        BY <1>1 DEF Edit
    <2>4. \A h \in Checkout : tree'[h].commits = tree[h].commits /\ tree'[h].edits = IF h = k THEN tree[h].edits \cup {w} ELSE tree[h].edits
        BY <1>0, <2>1
    <2>5. tree' \in [Checkout -> [edits : SUBSET Work, commits : SUBSET Work]]
        BY <1>0, <2>1
    <2>6. WorkTyped'
        BY <1>0, <2>1, <2>2, <2>4, <2>5 DEF WorkTyped
    <2>7. (broken = {} => OnItsWay)'
        BY <1>0, <2>1, <2>3, <2>4 DEF LandInv, OnItsWay, Mine
    <2>8. Everywhere \subseteq Everywhere'
        <3>1. \A h \in Checkout : tree[h].edits \subseteq tree'[h].edits /\ tree[h].commits \subseteq tree'[h].commits
            BY <2>4
        <3> QED BY <3>1 DEF Everywhere, Forms
    <2> QED BY <2>1, <2>6, <2>7, <2>8 DEF LandInv, WorkKept
<1>2. ASSUME NEW k \in Checkout, CommitWork(k) PROVE LandInv'
    <2>1. /\ tree' = [tree EXCEPT ![k].commits = @ \cup tree[k].edits, ![k].edits = {}]
          /\ looked' = {f \in looked : f[1] \notin tree[k].edits}
          /\ UNCHANGED <<shelved, landing, broken>>
        BY <1>2 DEF CommitWork
    <2>2. \A h \in Checkout : /\ tree'[h].commits = IF h = k THEN tree[h].commits \cup tree[k].edits ELSE tree[h].commits
                              /\ tree'[h].edits = IF h = k THEN {} ELSE tree[h].edits
        BY <1>0, <2>1
    <2>3. tree' \in [Checkout -> [edits : SUBSET Work, commits : SUBSET Work]]
        BY <1>0, <2>1
    <2>4. WorkTyped'
        BY <1>0, <2>1, <2>2, <2>3 DEF WorkTyped
    <2>5. \A w, f : <<w, f>> \in looked' => <<w, f>> \in looked /\ w \notin tree[k].edits
        BY <2>1
    <2>6. (broken = {} => OnItsWay)'
        BY <1>0, <2>1, <2>2, <2>5 DEF LandInv, OnItsWay, Mine
    <2>7. ASSUME NEW f \in looked', f \in Everywhere PROVE f \in Everywhere'
        <3>1. PICK w \in Work, g \in {"edit", "commit"} : f = <<w, g>>
            BY <1>0, <2>1, <2>7 DEF Form
        <3>2. PICK h \in Checkout : (g = "edit" /\ w \in tree[h].edits) \/ (g = "commit" /\ w \in tree[h].commits)
            BY <2>7, <3>1, InAForm
        <3>3. (g = "edit" /\ w \in tree'[h].edits) \/ (g = "commit" /\ w \in tree'[h].commits)
            BY <2>2, <2>5, <2>7, <3>1, <3>2
        <3> QED BY <3>1, <3>2, <3>3 DEF Everywhere, Forms
    <2>8. WorkKept'
        BY <2>1, <2>7 DEF LandInv, WorkKept
    <2> QED BY <2>4, <2>6, <2>8 DEF LandInv
<1>3. ASSUME Consolidate PROVE LandInv'
    <2>1. landing' \in Landings
          /\ landing'.at = "head"
        BY <1>3, WriterShape DEF Consolidate, NoLanding, WorkStops, Landings
    <2>2. UNCHANGED <<tree, shelved, looked, broken>>
        BY <1>3 DEF Consolidate
    <2>3. OnItsWay'
        BY <2>1 DEF OnItsWay
    <2> QED BY <1>0, <2>1, <2>2, <2>3, CallGoesOn
<1>4. ASSUME ReadsHead PROVE LandInv'
    <2>1. UNCHANGED <<tree, shelved>>
        BY <1>4 DEF ReadsHead
    <2>2. CASE landing' = NextCheckout /\ UNCHANGED <<looked, broken>>
        <3>1. OnItsWay'
            BY <2>2, NextIsTyped DEF LandInv, OnItsWay
        <3> QED BY <1>0, <2>1, <2>2, <3>1, NextIsTyped, CallGoesOn DEF LandInv
    <2>3. ASSUME NEW head \in {{}, Mine.commits}, landing' = [landing EXCEPT !.at = "count", !.head = head],
                 looked' = looked \cup Forms(landing.on),
                 broken' = {} => broken = {} /\ head = Mine.commits
          PROVE  LandInv'
        <3>1. WorkTyped'
            <4>1. Mine.edits \subseteq Work /\ Mine.commits \subseteq Work /\ head \subseteq Work
                BY <1>0, <2>3 DEF Mine
            <4>2. landing' \in Landings
                BY <1>0, <2>3, <4>1 DEF WorkStops, Landings
            <4>3. looked' \subseteq Form
                BY <1>0, <2>3, <4>1 DEF Forms, Form, Mine
            <4> QED BY <1>0, <2>1, <4>2, <4>3 DEF WorkTyped
        <3>2. landing'.at = "count" /\ landing'.on = landing.on /\ landing'.head = head
            BY <1>0, <2>3
        <3>3. (broken = {} => OnItsWay)'
            BY <2>1, <2>3, <3>2 DEF OnItsWay, Mine
        <3>4. WorkKept'
            BY <1>0, <2>1, <2>3 DEF LandInv, WorkKept, Everywhere, Forms
        <3> QED BY <3>1, <3>3, <3>4 DEF LandInv
    <2>4. CASE landing' = [landing EXCEPT !.at = "count", !.head = Mine.commits] /\ UNCHANGED broken
                /\ looked' = looked \cup Forms(landing.on)
        BY <2>3, <2>4
    <2>5. CASE landing' = [landing EXCEPT !.at = "count", !.head = {}] /\ broken' = broken \cup {"head"}
                /\ looked' = looked \cup Forms(landing.on)
        BY <2>3, <2>5
    <2> QED BY <1>4, <2>2, <2>4, <2>5 DEF ReadsHead
<1>5. ASSUME CountsWork PROVE LandInv'
    <2>1. PICK clean \in BOOLEAN, ahead \in BOOLEAN :
              /\ ahead \/ Mine.commits = {}
              /\ landing' = [landing EXCEPT !.at = "backup", !.dirty = ~clean, !.ahead = ahead]
              /\ \/ clean = (Mine.edits = {}) /\ UNCHANGED broken
                 \/ clean /\ broken' = broken \cup {"status"}
        BY <1>5 DEF CountsWork
    <2>a. landing.at = "count" /\ UNCHANGED <<tree, shelved, looked>>
        BY <1>5 DEF CountsWork
    <2>2. landing' \in Landings
        BY <1>0, <2>1 DEF WorkStops, Landings
    <2>3. landing'.at = "backup" /\ landing'.on = landing.on /\ landing'.head = landing.head
          /\ landing'.dirty = ~clean /\ landing'.ahead = ahead /\ Mine' = Mine
        BY <1>0, <2>1, <2>a DEF Mine
    <2>4. ASSUME broken' = {} PROVE broken = {} /\ OnItsWay'
        <3>1. broken = {} /\ clean = (Mine.edits = {})
            BY <2>1, <2>4
        <3> QED BY <2>1, <2>a, <2>3, <3>1 DEF LandInv, OnItsWay
    <2> QED BY <1>0, <2>a, <2>2, <2>4, CallGoesOn
<1>6. ASSUME NEW at \in {"backup", "diff"}, NEW next, NEW what, what \subseteq Work, Shelves(at, next, what),
             next = IF at = "backup" THEN "diff" ELSE "reset",
             what = IF at = "backup" THEN BackedUp ELSE Diffed
      PROVE  LandInv'
    <2>1. landing.at = at /\ landing' = [landing EXCEPT !.at = next] /\ UNCHANGED <<tree, looked>>
        BY <1>6 DEF Shelves
    <2>2. landing' \in Landings
          /\ landing'.at = next /\ landing'.on = landing.on /\ landing'.dirty = landing.dirty /\ Mine' = Mine
        BY <1>0, <1>6, <2>1 DEF WorkStops, Landings, Mine
    <2>3. CASE shelved' = shelved \cup what /\ UNCHANGED broken
        <3>1. broken = {} => OnItsWay'
            BY <1>6, <2>1, <2>2, <2>3 DEF LandInv, OnItsWay, BackedUp, Diffed
        <3> QED BY <1>0, <1>6, <2>1, <2>2, <2>3, <3>1, CallGoesOn
    <2>4. CASE broken' = broken \cup {at} /\ UNCHANGED shelved
        BY <1>0, <2>1, <2>2, <2>4, CallGoesOn
    <2> QED BY <1>6, <2>3, <2>4 DEF Shelves
<1>7. ASSUME ResetsHard PROVE LandInv'
    <2>1. landing.at = "reset" /\ landing' = NextCheckout /\ UNCHANGED <<shelved, looked, broken>>
        BY <1>7 DEF ResetsHard
    <2>2. OnItsWay'
        BY <2>1, NextIsTyped DEF LandInv, OnItsWay
    <2>3. CASE UNCHANGED tree
        BY <1>0, <2>1, <2>2, <2>3, NextIsTyped, CallGoesOn DEF LandInv
    <2>4. CASE tree' = [tree EXCEPT ![landing.on] = [edits |-> {}, commits |-> {}]]
        <3>1. /\ tree' \in [Checkout -> [edits : SUBSET Work, commits : SUBSET Work]]
              /\ tree'[landing.on] = [edits |-> {}, commits |-> {}]
              /\ \A h \in Checkout \ {landing.on} : tree'[h] = tree[h]
            BY <1>0, <2>4
        <3>2. WorkTyped'
            BY <1>0, <2>1, <3>1, NextIsTyped DEF LandInv, WorkTyped
        <3>3. ASSUME broken = {}, NEW f \in looked, f[1] \notin shelved PROVE f \in Everywhere'
            <4>1. PICK w \in Work, g \in {"edit", "commit"} : f = <<w, g>>
                BY <1>0, <3>3 DEF Form
            <4>2. f \in Everywhere
                BY <3>3 DEF LandInv, WorkKept
            <4>3. PICK h \in Checkout : (g = "edit" /\ w \in tree[h].edits) \/ (g = "commit" /\ w \in tree[h].commits)
                BY <4>1, <4>2, InAForm
            <4>4. h # landing.on
                BY <2>1, <3>3, <4>1, <4>3 DEF LandInv, OnItsWay, Mine
            <4> QED BY <3>1, <4>1, <4>3, <4>4 DEF Everywhere, Forms
        <3>4. WorkKept'
            BY <2>1, <3>3 DEF WorkKept
        <3> QED BY <2>1, <2>2, <3>2, <3>4 DEF LandInv
    <2> QED BY <1>7, <2>3, <2>4 DEF ResetsHard
<1>8. BackedUp \subseteq Work /\ Diffed \subseteq Work
    BY <1>0 DEF BackedUp, Diffed, Mine, Landings
<1> QED BY <1>1, <1>2, <1>3, <1>4, <1>5, <1>6, <1>7, <1>8 DEF WorkStep

\* Two firm holders would be two names in one lock.
LEMMA WritersSafe == WLockInv /\ LandInv => WriterLockInv
<1> SUFFICES ASSUME WLockInv, LandInv PROVE WriterLockInv
    OBVIOUS
<1>1. LockTypeOK
    BY DEF WLockInv, LockTyped, Lock, LandInv, WorkTyped, WorkStops, Landings, LockTypeOK
<1>2. ASSUME ~upset PROVE Cardinality({s \in firm : holds[s] # 0}) <= 1
    <2> DEFINE H == {s \in firm : holds[s] # 0}
    <2>1. \A s, t \in H : s = t
        <3>1. \A s \in H : wlock.who = s
            BY <1>2 DEF WLockInv, FirmHasLock
        <3> QED BY <3>1
    <2>2. CASE H = {}
        BY <2>2, FS_EmptySet
    <2>3. CASE H # {}
        <3>1. PICK s : s \in H
            BY <2>3
        <3>2. H = {s}
            BY <2>1, <3>1
        <3>3. Cardinality({s}) = 1
            BY FS_Singleton
        <3> QED BY <3>2, <3>3
    <2> QED BY <2>2, <2>3
<1> QED BY <1>1, <1>2 DEF WriterLockInv, OneWriter, LandInv

\* Nothing changes while the part rests.
LEMMA LockRests == WLockInv /\ UNCHANGED writerVars => WLockInv'
BY DEF writerVars, WLockInv, LockTyped, CallsMeanLocks, FirmHasLock, TakesCounted

\* Nothing changes while the part rests.
LEMMA WorkRests == LandInv /\ UNCHANGED workVars => LandInv'
BY DEF workVars, LandInv, WorkTyped, OnItsWay, Mine, WorkKept, Everywhere, Forms

(* A lock file names one holder at a time: no two writers of a checkout hold *)
(* its lock while quarantine moved none but what it judged, no two           *)
(* supervisors serve one project while none removed a lock it had not made,  *)
(* and work a landing took over is on the shelf before its checkout is reset *)
(* (worktree lock and consolidate of triage-verbs.js, the lock of            *)
(* gm-supervise.js).                                                         *)
THEOREM HoldersKept == PartsSpec => []HoldersInv
<1> DEFINE Inv == SupInv /\ WLockInv /\ LandInv
<1>1. PartsInit => Inv
    BY SupStarts, LockStarts, WorkStarts DEF PartsInit
<1>2. Inv /\ [PartsNext]_partsVars => Inv'
    <2> SUFFICES ASSUME Inv, [PartsNext]_partsVars PROVE Inv'
        OBVIOUS
    <2>1. SupInv'
        <3>1. SuperNext \/ UNCHANGED superVars
            BY DEF PartsNext, partsVars, Rest, OthersRest, besides
        <3> QED BY <3>1, SupStep, SupRests
    <2>2. LockStep \/ UNCHANGED writerVars
        BY DEF PartsNext, partsVars, Rest, OthersRest, triage, Usual
    <2>3. WorkStep \/ UNCHANGED workVars
        BY DEF PartsNext, partsVars, Rest, OthersRest, triage, Usual
    <2> QED BY <2>1, <2>2, <2>3, LockSteps, LockRests, WorkSteps, WorkRests
<1>3. Inv => HoldersInv
    BY SupSafe, WritersSafe DEF HoldersInv
<1> QED BY <1>1, <1>2, <1>3, PTL DEF PartsSpec

-----------------------------------------------------------------------------
(* Waits: how long a call of the server waits.                               *)

Gets == [at : {"none", "planned"}, refused : BOOLEAN, poll : Nat, limit : Nat]

\* What a call is given is worked out in one step.
LEMMA PlanIsRight ==
    ASSUME NEW ask \in Asks
    PROVE  LET get == PlanOf(ask)
           IN  /\ get \in Gets
               /\ ~get.refused =>
                    /\ Usable(ask.seconds) => get.poll >= ask.seconds.n
                    /\ HasPrefix(ask) => get.limit = ask.prefix.n
                    /\ ask.runs /\ ~ask.resume /\ HasPrefix(ask) /\ ~Usable(ask.seconds)
                          /\ ask.prefix.n + Margin <= ask.ceiling => get.poll >= get.limit + Margin
                    /\ ask.runs /\ ~ask.resume /\ ~HasPrefix(ask) /\ Usable(ask.seconds)
                          /\ ask.seconds.n >= ExecDefault + Margin => get.poll >= get.limit + Margin
<1> DEFINE secs == ask.seconds.n
           pre == ask.prefix.n
           forLane == LaneBudget(ask)
           poll == Poll(ask)
           ceil == ask.ceiling
           get == PlanOf(ask)
<1>1. /\ {DefaultPoll, ExecDefault, ExecCeiling, LaneWait, MaxTimer} \subseteq Nat \ {0}
      /\ Amounts \subseteq Nat /\ Ceilings \subseteq Nat /\ 0 \notin Ceilings
    BY TimesAreOrdered
<1>2. secs \in Nat /\ pre \in Nat /\ ask.lane.n \in Nat
    <2>1. \A t \in Times : t.n \in Nat
        <3>1. \A t \in [kind : {"given"}, n : Amounts] : t.n \in Nat
            BY <1>1
        <3>2. None.n \in Nat
            BY DEF None
        <3> QED BY <3>1, <3>2 DEF Times
    <2>2. \A t \in {[kind |-> "text", n |-> 0], [kind |-> "malformed", n |-> 0]} : t.n \in Nat
        OBVIOUS
    <2> QED BY <2>1, <2>2 DEF Asks
<1>3. ceil \in Nat \ {0}
    BY <1>1 DEF Asks
<1>4. forLane \in Nat
    BY <1>1, <1>2 DEF LaneBudget
<1>5. poll \in Nat
    BY <1>1, <1>2 DEF Poll, Least, Most, Margin
<1>6. ExecLimit(ask) \in Nat
    <2>1. Least(poll, ceil) \in Nat
        BY <1>3, <1>5 DEF Least
    <2>2. Most(ExecDefault, Least(poll, ceil) - Margin) \in Nat
        BY <1>1, <2>1 DEF Most, Margin
    <2> QED BY <1>1, <1>2, <2>2 DEF ExecLimit, Least
<1>7. Least(Most(poll, forLane), ceil) \in Nat
    BY <1>3, <1>4, <1>5 DEF Least, Most
<1>8. get \in Gets
    BY <1>6, <1>7 DEF PlanOf, Refusal, Gets
<1>9. ASSUME ~get.refused
      PROVE  /\ ~RefusesSeconds(ask) /\ ~RefusesPrefix(ask)
             /\ get.limit = ExecLimit(ask) /\ get.poll = Least(Most(poll, forLane), ceil)
    BY <1>9 DEF PlanOf, Refusal
<1>10. ASSUME ~get.refused, Usable(ask.seconds) PROVE poll = secs /\ secs <= ceil
    BY <1>1, <1>2, <1>3, <1>9, <1>10 DEF RefusesSeconds, Poll, Least, Usable
<1>11. ASSUME ~get.refused, Usable(ask.seconds) PROVE get.poll >= secs
    BY <1>2, <1>3, <1>4, <1>9, <1>10, <1>11 DEF Least, Most
<1>12. ASSUME ~get.refused, HasPrefix(ask) PROVE get.limit = pre
    BY <1>1, <1>2, <1>9, <1>12 DEF RefusesPrefix, HasPrefix, ExecLimit, Least
<1>13. ASSUME ~get.refused, HasPrefix(ask), ~ask.resume, ~Usable(ask.seconds), pre + Margin <= ceil
       PROVE  get.poll >= get.limit + Margin
    <2>1. poll >= pre + Margin
        BY <1>1, <1>2, <1>13 DEF Poll, Most, Margin
    <2> QED BY <1>2, <1>3, <1>4, <1>5, <1>9, <1>12, <1>13, <2>1 DEF Least, Most, Margin
<1>14. ASSUME ~get.refused, ~HasPrefix(ask), Usable(ask.seconds), secs >= ExecDefault + Margin
       PROVE  get.poll >= get.limit + Margin
    <2>1. get.limit <= secs - Margin
        BY <1>1, <1>2, <1>3, <1>9, <1>10, <1>14 DEF ExecLimit, Least, Most, Margin
    <2>2. get.limit \in Nat /\ get.poll \in Nat /\ get.poll >= secs
        BY <1>8, <1>11, <1>14 DEF Gets
    <2> QED BY <1>2, <2>1, <2>2 DEF Margin
<1> HIDE DEF get
<1> QED BY <1>8, <1>11, <1>12, <1>13, <1>14 DEF get

Planned == times.gets \in Gets /\ PollOutlasts

Wakeful ==
    /\ wait \in [at : {"enter", "look", "sleeps", "woken"}, watch : {"on", "none"}, landed : BOOLEAN, told : BOOLEAN]
    /\ LandingIsSeen

\* It naps to the end of its time, and asks no later.
CiInTime ==
    /\ ci \in [at : {"asks", "judges", "naps", "told"}, now : Nat, budget : Nat, nap : Nat, began : Nat,
               run : {"running", "settled"}, read : {"running", "settled", "unreadable"}, aborted : BOOLEAN]
    /\ ci.at = "asks" => ci.now <= ci.budget
    /\ ci.at = "naps" => ci.now < ci.budget
    /\ CiAsksToTheEnd

WaitIInv == Planned /\ Wakeful /\ CiInTime

\* At first nothing is planned, waited for or asked.
LEMMA WaitsStart == PlanInit /\ WaitInit /\ CiInit => WaitIInv
<1> SUFFICES ASSUME PlanInit, WaitInit, CiInit PROVE WaitIInv
    OBVIOUS
<1>1. Planned
    BY DEF PlanInit, Refusal, Gets, Planned, PollOutlasts
<1>2. Wakeful
    BY DEF WaitInit, Wakeful, LandingIsSeen
<1>3. CiInTime
    BY TimesAreOrdered DEF CiInit, CiInTime, CiAsksToTheEnd
<1> QED BY <1>1, <1>2, <1>3 DEF WaitIInv

\* A plan is right whatever the call asked for.
LEMMA PlanSteps == Planned /\ PlanStep => Planned'
BY PlanIsRight DEF PlanStep, Planned, PollOutlasts

\* Of each step of a wait: it looks after it watches.
LEMMA WaitSteps == Wakeful /\ WaitStep => Wakeful'
BY DEF Wakeful, LandingIsSeen, WaitStep, Enters, AnswerLands, WatchBreaks, Wakes, WaitsAgain

\* A nap ends in time, and only the last call may be late.
LEMMA CiSteps == CiInTime /\ CiStep => CiInTime'
<1> SUFFICES ASSUME CiInTime, CiStep PROVE CiInTime'
    OBVIOUS
<1> USE DEF CiInTime, CiAsksToTheEnd
<1>0. LongNap \in Nat /\ CiCallMax \in Nat
    BY TimesAreOrdered
<1>1. CASE CiCalls
    <2>1. PICK took \in 0..CiCallMax, seen \in {"running", "settled", "unreadable"} :
              ci' = [ci EXCEPT !.at = "judges", !.read = seen, !.now = @ + took, !.began = ci.now]
        BY <1>1 DEF CiCalls
    <2>2. took \in Nat /\ ci.now \in Nat /\ ci.now <= ci.budget
        BY <1>0, <1>1 DEF CiCalls
    <2>3. ci.now + took \in Nat
        BY <2>2
    <2> QED BY <2>1, <2>2, <2>3
<1>2. CASE RunSettles \/ CiAborts
    BY <1>2 DEF RunSettles, CiAborts
<1>3. CASE CiJudges
    BY <1>3 DEF CiJudges
<1>4. CASE CiNaps
    <2>1. ci.now \in Nat /\ ci.budget \in Nat /\ ci.now < ci.budget /\ ci.nap \in Nat
        BY <1>4 DEF CiNaps
    <2>2. Nap \in Nat /\ Nap <= ci.budget - ci.now
        BY <2>1 DEF Nap, Least
    <2>3. PICK slept \in 0..Nap : ci' = [ci EXCEPT !.at = "asks", !.now = @ + slept, !.nap = Least(2 * @, LongNap)]
        <3>1. PICK slept \in (IF ci.aborted THEN 0..Nap ELSE {Nap}) :
                  ci' = [ci EXCEPT !.at = "asks", !.now = @ + slept, !.nap = Least(2 * @, LongNap)]
            BY <1>4 DEF CiNaps
        <3>2. slept \in 0..Nap
            BY <2>2, <3>1
        <3> QED BY <3>1, <3>2
    <2>4. Least(2 * ci.nap, LongNap) \in Nat
        BY <1>0, <2>1 DEF Least
    <2>5. ci.now + slept \in Nat /\ ci.now + slept <= ci.budget
        BY <2>1, <2>2, <2>3
    <2> QED BY <2>3, <2>4, <2>5
<1> QED BY <1>1, <1>2, <1>3, <1>4 DEF CiStep

\* The safety properties of the waits follow.
LEMMA WaitsSafe == WaitIInv => WaitsInv
BY DEF WaitIInv, Planned, Gets, Wakeful, CiInTime, WaitsInv, WaitsTypeOK

\* Nothing changes while the part rests.
LEMMA TimesRest == Planned /\ UNCHANGED times => Planned'
BY DEF Planned, PollOutlasts

\* Nothing changes while the part rests.
LEMMA WaitRests == Wakeful /\ UNCHANGED wait => Wakeful'
BY DEF Wakeful, LandingIsSeen

\* Nothing changes while the part rests.
LEMMA CiRests == CiInTime /\ UNCHANGED ci => CiInTime'
BY DEF CiInTime, CiAsksToTheEnd

-----------------------------------------------------------------------------
(* SpoolClient: a call of the spool transport.                               *)

Clients == [at : Lines, tried : 0..Retries, temp : BOOLEAN]
Waiters == [result : Results, on : BOOLEAN, watch : {"none", "hears", "deaf"}, heard : Nat, tick : 0..Budget]
Sides == [runner : {"lives", "ended"}, asked : {"no", "in", "taken"}, reply : {"none", "part", "whole"}, landed : Nat]
ClientTyped == client \in Clients /\ waiter \in Waiters /\ spoolSide \in Sides

\* A wait is over once, and only a call that is gone was told of a failure to
\* ask, or of no runner.
WaitIsOver ==
    /\ waiter.result # "none" => ~waiter.on
    /\ client.at = "check" => ~waiter.on /\ waiter.result = "none"
    /\ waiter.result \in {"dead", "failed"} => client.at = "gone" /\ spoolSide.asked = "no"
    /\ client.at = "gone" => waiter.result # "none" /\ (waiter.result \in {"dead", "failed"} \/ spoolSide.asked # "no")

\* The request is there from its rename on, the temporary file until then.
AskedWhenRenamed ==
    /\ spoolSide.asked # "no" => client.at \in {"joins", "gone"}
    /\ client.at = "joins" => spoolSide.asked # "no"
    /\ spoolSide.reply # "none" => spoolSide.asked = "taken"
    /\ client.temp => client.at = "rename"
    /\ waiter.result = "reply" => spoolSide.reply = "whole"

\* A wait that is open has looked not long ago.
LooksInTime ==
    /\ waiter.heard <= waiter.tick /\ spoolSide.landed <= waiter.tick
    /\ waiter.result = "none" => waiter.tick < Budget
    /\ Open /\ spoolSide.reply = "whole" =>
          waiter.heard <= spoolSide.landed /\ waiter.tick <= spoolSide.landed + Silence
    /\ ReplyIsSeen

CInv == ClientTyped /\ WaitIsOver /\ AskedWhenRenamed /\ LooksInTime

\* Nothing asked, and nobody waits.
LEMMA ClientStarts == ClientInit => CInv
BY ClientTimes DEF ClientInit, CInv, ClientTyped, WaitIsOver, AskedWhenRenamed, LooksInTime, Open, ReplyIsSeen, Lines, Results,
    Clients, Waiters, Sides

\* What the waiter may do by itself: hear or tick, and end with an outcome.
LEMMA WaiterMoves ==
    ASSUME CInv, waiter.on, waiter.result = "none", UNCHANGED <<client, spoolSide>>,
           NEW heard \in Nat, NEW tick \in 0..Budget, NEW result \in {"none", "reply", "timeout", "unreadable"},
           waiter' = IF result = "none" THEN [waiter EXCEPT !.heard = heard, !.tick = tick]
                     ELSE [waiter EXCEPT !.heard = heard, !.tick = tick, !.on = FALSE, !.result = result, !.watch = "none"],
           heard <= tick, spoolSide.landed <= tick,
           result = "none" => tick < Budget,
           client.at # "check",
           result = "none" /\ spoolSide.reply = "whole" => heard <= spoolSide.landed /\ tick <= spoolSide.landed + Silence,
           result = "reply" => spoolSide.reply = "whole",
           result = "timeout" /\ spoolSide.reply = "whole" => tick <= spoolSide.landed + Silence + 2
    PROVE  CInv'
<1>1. waiter' \in Waiters
    BY DEF CInv, ClientTyped, Waiters, Results
<1>2. /\ waiter'.result = result /\ waiter'.heard = heard /\ waiter'.tick = tick
      /\ waiter'.on <=> result = "none"
    BY DEF CInv, ClientTyped, Waiters
<1>3. ClientTyped'
    BY <1>1 DEF CInv, ClientTyped
<1>4. WaitIsOver'
    BY <1>2 DEF CInv, WaitIsOver
<1>5. AskedWhenRenamed'
    BY <1>2 DEF CInv, AskedWhenRenamed
<1>6. LooksInTime'
    BY <1>2 DEF CInv, LooksInTime, Open, ReplyIsSeen
<1> QED BY <1>3, <1>4, <1>5, <1>6 DEF CInv

\* Each step of the client, of its waiter and of the runner keeps what the outcome relies on.
LEMMA ClientSteps == CInv /\ ClientNext => CInv'
<1> SUFFICES ASSUME CInv, ClientNext PROVE CInv'
    OBVIOUS
<1>0. client \in Clients /\ waiter \in Waiters /\ spoolSide \in Sides /\ {Budget, Silence, Retries} \subseteq Nat \ {0}
    BY ClientTimes DEF CInv, ClientTyped
<1>1. CASE CheckHealth
    BY <1>0, <1>1 DEF CheckHealth, CInv, ClientTyped, WaitIsOver, AskedWhenRenamed, LooksInTime, Open, ReplyIsSeen,
        Lines, Results, Clients, Waiters, Sides
<1>2. CASE WriteTemp \/ RenameHeld \/ RenameIntoPlace \/ Joins
    <2>1. waiter' = waiter /\ spoolSide'.reply = spoolSide.reply /\ spoolSide'.landed = spoolSide.landed
        BY <1>0, <1>2 DEF WriteTemp, RenameHeld, RenameIntoPlace, Joins, Sides
    <2>2. client' \in Clients
        <3>1. CASE RenameHeld
            <4>1. client.tried + 1 \in 0..Retries
                BY <1>0, <3>1 DEF RenameHeld, Clients
            <4> QED BY <1>0, <3>1, <4>1 DEF RenameHeld, Clients
        <3>2. CASE WriteTemp \/ RenameIntoPlace \/ Joins
            BY <1>0, <3>2 DEF WriteTemp, RenameIntoPlace, Joins, Clients, Lines
        <3> QED BY <1>2, <3>1, <3>2
    <2>3. spoolSide' \in Sides
        BY <1>0, <1>2 DEF WriteTemp, RenameHeld, RenameIntoPlace, Joins, Sides
    <2>4. LooksInTime'
        BY <2>1 DEF CInv, LooksInTime, Open, ReplyIsSeen
    <2>5. WaitIsOver' /\ AskedWhenRenamed'
        BY <1>0, <1>2, <2>1 DEF CInv, WaitIsOver, AskedWhenRenamed, WriteTemp, RenameHeld, RenameIntoPlace, Joins,
            Clients, Lines, Sides
    <2> QED BY <1>0, <2>1, <2>2, <2>3, <2>4, <2>5 DEF CInv, ClientTyped
<1>3. CASE SubmitFails
    BY <1>0, <1>3 DEF SubmitFails, GiveUp, CInv, ClientTyped, WaitIsOver, AskedWhenRenamed, LooksInTime, Open,
        ReplyIsSeen, Lines, Results, Clients, Waiters
<1>4. CASE RunnerClaims \/ RunnerEnds \/ WatcherBreaks
    BY <1>0, <1>4 DEF RunnerClaims, RunnerEnds, WatcherBreaks, CInv, ClientTyped, WaitIsOver, AskedWhenRenamed,
        LooksInTime, Open, ReplyIsSeen, Waiters, Sides
<1>5. CASE Writes
    <2>1. /\ spoolSide.asked = "taken" /\ spoolSide.reply # "whole" /\ UNCHANGED <<client, waiter>>
          /\ spoolSide'.asked = "taken" /\ spoolSide'.landed = waiter.tick /\ spoolSide'.reply \in {"part", "whole"}
        BY <1>0, <1>5 DEF Writes, Sides
    <2>2. waiter.tick \in Nat /\ waiter.heard \in Nat
        BY <1>0 DEF Waiters
    <2>3. spoolSide' \in Sides
        BY <1>0, <1>5, <2>2 DEF Writes, Sides
    <2>4. WaitIsOver' /\ AskedWhenRenamed'
        BY <2>1 DEF CInv, WaitIsOver, AskedWhenRenamed
    <2>5. LooksInTime'
        BY <1>0, <2>1, <2>2 DEF CInv, LooksInTime, Open, ReplyIsSeen
    <2> QED BY <1>0, <2>1, <2>3, <2>4, <2>5 DEF CInv, ClientTyped
<1>6. /\ waiter.tick \in 0..Budget /\ waiter.heard \in Nat /\ spoolSide.landed \in Nat /\ waiter.tick \in Nat
      /\ waiter.heard <= waiter.tick /\ spoolSide.landed <= waiter.tick
      /\ Open => waiter.on /\ waiter.result = "none" /\ waiter.tick < Budget /\ client.at # "check"
      /\ Open /\ spoolSide.reply = "whole" =>
            waiter.heard <= spoolSide.landed /\ waiter.tick <= spoolSide.landed + Silence
    BY <1>0 DEF CInv, LooksInTime, WaitIsOver, Open, Waiters, Sides
<1>7. CASE WatchTells
    <2> DEFINE result == IF spoolSide.reply = "whole" THEN "reply" ELSE "none"
    <2>1. Open /\ UNCHANGED <<client, spoolSide>>
        BY <1>7 DEF WatchTells
    <2>2. waiter' = IF result = "none" THEN [waiter EXCEPT !.heard = waiter.tick, !.tick = waiter.tick]
                    ELSE [waiter EXCEPT !.heard = waiter.tick, !.tick = waiter.tick, !.on = FALSE, !.result = result, !.watch = "none"]
        BY <1>0, <1>6, <1>7, <2>1 DEF WatchTells, Looked, Finish, Waiters
    <2>3. result \in {"none", "reply", "timeout", "unreadable"} /\ (result = "none" <=> spoolSide.reply # "whole") /\ result # "timeout"
          /\ (result = "reply" => spoolSide.reply = "whole")
        OBVIOUS
    <2> HIDE DEF result
    <2>4. /\ waiter.tick <= waiter.tick
          /\ result = "none" /\ spoolSide.reply = "whole" => waiter.tick <= spoolSide.landed
          /\ result = "timeout" /\ spoolSide.reply = "whole" => waiter.tick <= spoolSide.landed + Silence + 2
        BY <1>6, <2>3
    <2> QED BY <1>6, <2>1, <2>2, <2>3, <2>4, WaiterMoves
<1>8. CASE ReadFails
    <2>1. Open /\ UNCHANGED <<client, spoolSide>>
        BY <1>8 DEF ReadFails
    <2>2. waiter' = [waiter EXCEPT !.heard = waiter.heard, !.tick = waiter.tick, !.on = FALSE, !.result = "unreadable", !.watch = "none"]
        BY <1>0, <1>6, <1>8, <2>1 DEF ReadFails, Finish, Waiters
    <2> QED BY <1>6, <2>1, <2>2, WaiterMoves
<1>9. CASE Ticks
    <2> DEFINE tick == waiter.tick + 1
               result == IF tick >= Budget THEN "timeout"
                         ELSE IF Silent /\ spoolSide.reply = "whole" THEN "reply" ELSE "none"
    <2>1. Open /\ UNCHANGED <<client, spoolSide>>
        BY <1>9 DEF Ticks
    <2>2. waiter' = IF result = "none" THEN [waiter EXCEPT !.heard = waiter.heard, !.tick = tick]
                    ELSE [waiter EXCEPT !.heard = waiter.heard, !.tick = tick, !.on = FALSE, !.result = result, !.watch = "none"]
        BY <1>0, <1>6, <1>9, <2>1 DEF Ticks, Looked, Finish, Waiters
    <2>3. tick \in 0..Budget /\ waiter.heard <= tick /\ spoolSide.landed <= tick
        BY <1>0, <1>6, <2>1
    <2>4. result = "none" /\ spoolSide.reply = "whole" => tick <= spoolSide.landed + Silence
        BY <1>0, <1>6, <2>1 DEF Silent
    <2>5. result = "timeout" /\ spoolSide.reply = "whole" => tick <= spoolSide.landed + Silence + 2
        BY <1>0, <1>6, <2>1
    <2>6. /\ result \in {"none", "reply", "timeout", "unreadable"}
          /\ result = "none" => tick < Budget
          /\ result = "reply" => spoolSide.reply = "whole"
        BY <1>0, <2>3
    <2> HIDE DEF tick, result
    <2> QED BY <1>6, <2>1, <2>2, <2>3, <2>4, <2>5, <2>6, WaiterMoves
<1> QED BY <1>1, <1>2, <1>3, <1>4, <1>5, <1>7, <1>8, <1>9 DEF ClientNext

\* The safety properties of the transport follow.
LEMMA ClientSafe == CInv => ClientInv
BY DEF CInv, ClientTyped, WaitIsOver, AskedWhenRenamed, LooksInTime, ClientInv, ClientTypeOK, OutcomeIsTrue,
    Clients, Waiters, Sides

\* Nothing changes while the part rests.
LEMMA ClientRests == CInv /\ UNCHANGED clientVars => CInv'
BY DEF clientVars, CInv, ClientTyped, WaitIsOver, AskedWhenRenamed, LooksInTime, Open, ReplyIsSeen

(* Whoever waits for an answer waits as long as it must, and is told what    *)
(* became of its request: a call of the server polls longer than the work it *)
(* waits for may take, misses no answer that lands while it goes to sleep,   *)
(* and asks for a CI run until its time is over; an outcome of the spool     *)
(* transport is true, and an answer that is there is seen in time.           *)
THEOREM CallersKept == PartsSpec => []CallersInv
<1> DEFINE Inv == WaitIInv /\ CInv
<1>1. PartsInit => Inv
    BY WaitsStart, ClientStarts DEF PartsInit
<1>2. Inv /\ [PartsNext]_partsVars => Inv'
    <2> SUFFICES ASSUME Inv, [PartsNext]_partsVars PROVE Inv'
        OBVIOUS
    <2>1. PlanStep \/ UNCHANGED times
        BY DEF PartsNext, partsVars, Rest, OthersRest, dispatching, Usual
    <2>2. WaitStep \/ UNCHANGED wait
        BY DEF PartsNext, partsVars, Rest, OthersRest, dispatching, Usual
    <2>3. CiStep \/ UNCHANGED ci
        BY DEF PartsNext, partsVars, Rest, OthersRest, dispatching, Usual
    <2>4. ClientNext \/ UNCHANGED clientVars
        BY DEF PartsNext, partsVars, Rest, OthersRest, besides
    <2> QED BY <2>1, <2>2, <2>3, <2>4, PlanSteps, TimesRest, WaitSteps, WaitRests, CiSteps, CiRests,
            ClientSteps, ClientRests DEF WaitIInv
<1>3. Inv => CallersInv
    BY WaitsSafe, ClientSafe DEF CallersInv
<1> QED BY <1>1, <1>2, <1>3, PTL DEF PartsSpec

-----------------------------------------------------------------------------
(* Liveness: the verdict on a request that was not answered.                 *)

Pids == Daemon \cup {NoPid}
Statuses == [pid : Pids, fresh : BOOLEAN]
LookStops == {"off", "shared", "pid", "same", "verdict", "said"}
LookTyped ==
    /\ process \in [Daemon -> {"new", "up", "hung", "ended"}]
    /\ project \in Statuses /\ global \in Statuses /\ owner \in Pids
    /\ look \in [at : LookStops, status : Statuses, shared : Statuses, up : BOOLEAN, same : BOOLEAN, alive : BOOLEAN]
    /\ sureUp \subseteq Daemon /\ present \subseteq Daemon

\* One daemon is up at a time.
OneIsUp == \A d, e \in Daemon : process[d] = "up" /\ process[e] = "up" => d = e

\* A daemon sure to be up keeps its beat in the shared status, where it was read.
BeatIsRead ==
    \A d \in sureUp :
        /\ d \in present /\ process[d] = "up" /\ global = [pid |-> d, fresh |-> TRUE]
        /\ look.at \in {"pid", "same", "verdict"} => look.shared.fresh
        /\ look.at = "said" => look.alive

\* Who is there while a reading goes on is present, and so was the one found.
PresentIsSeen ==
    look.at # "off" =>
        /\ \A d \in Daemon : Exists(d) => d \in present
        /\ look.up \/ look.alive => present # {}

LookInv == LookTyped /\ OneIsUp /\ BeatIsRead /\ PresentIsSeen

\* At first no daemon is up, and nothing is read.
LEMMA LookStarts == LooksInit => LookInv
BY DEF LooksInit, LookInv, LookTyped, OneIsUp, BeatIsRead, PresentIsSeen, Unread, NoStatus, Pids, Statuses, LookStops

\* A daemon ends, comes up or beats while it is read; each reading step keeps what is known.
LEMMA LookSteps == LookInv /\ LookStep => LookInv'
<1> SUFFICES ASSUME LookInv, LookStep PROVE LookInv'
    OBVIOUS
<1> USE NoPidIsNone DEF LookInv, LookTyped, OneIsUp, BeatIsRead, PresentIsSeen, Exists, LookStops
<1>1. ASSUME NEW d \in Daemon, Boots(d) PROVE LookInv'
    <2>1. /\ process' = [process EXCEPT ![d] = "up"] /\ owner' = d /\ present' = present \cup {d}
          /\ UNCHANGED <<project, global, look, sureUp>>
          /\ \A e \in Daemon : process[e] # "up"
        BY <1>1 DEF Boots
    <2>2. LookTyped'
        BY <2>1 DEF Pids
    <2>3. sureUp = {}
        BY <2>1
    <2>4. process'[d] = "up" /\ \A e \in Daemon \ {d} : process'[e] = process[e]
        BY <2>1
    <2>5. PresentIsSeen'
        BY <2>1, <2>4
    <2> QED BY <2>1, <2>2, <2>3, <2>4, <2>5
<1>2. ASSUME NEW d \in Daemon, Beats(d) PROVE LookInv'
    <2>1. process[d] = "up" /\ global' = [pid |-> d, fresh |-> TRUE] /\ UNCHANGED <<process, project, owner, look, sureUp, present>>
        BY <1>2 DEF Beats
    <2>2. LookTyped'
        BY <2>1 DEF Pids, Statuses
    <2>3. \A e \in sureUp : e = d
        BY <2>1
    <2> QED BY <2>1, <2>2, <2>3
<1>3. ASSUME NEW d \in Daemon, Sweeps(d) PROVE LookInv'
    BY <1>3 DEF Sweeps, Pids, Statuses
<1>4. ASSUME NEW d \in Daemon, GoesDown(d) PROVE LookInv'
    BY <1>4 DEF GoesDown
<1>5. CASE ProjectAges
    BY <1>5 DEF ProjectAges, Statuses
<1>6. CASE SharedAges
    <2>1. global'.pid = global.pid /\ global' \in Statuses /\ process[global.pid] # "up"
        BY <1>6 DEF SharedAges, Statuses
    <2>2. sureUp = {}
        BY <2>1
    <2> QED BY <1>6, <2>1, <2>2 DEF SharedAges
<1>7. CASE ReadsStatus
    <2>1. look' = [Unread EXCEPT !.at = "shared", !.status = project] /\ UNCHANGED <<process, project, global, owner>>
          /\ sureUp' = {d \in Daemon : process[d] = "up" /\ global = [pid |-> d, fresh |-> TRUE]}
          /\ present' = {d \in Daemon : Exists(d)}
        BY <1>7 DEF ReadsStatus, Reads
    <2>2. LookTyped'
        BY <2>1 DEF Unread, NoStatus, Pids, Statuses
    <2>3. look'.at = "shared" /\ ~look'.up /\ ~look'.alive
        BY <2>1 DEF Unread
    <2>4. BeatIsRead'
        BY <2>1, <2>3
    <2>5. PresentIsSeen'
        BY <2>1, <2>3
    <2> QED BY <2>1, <2>2, <2>4, <2>5
<1>8. CASE ReadsShared
    <2>1. look.at = "shared" /\ look' = [look EXCEPT !.at = "pid", !.shared = global]
          /\ UNCHANGED <<process, project, global, owner, sureUp, present>>
        BY <1>8 DEF ReadsShared, Reads
    <2>2. LookTyped'
        BY <2>1
    <2>3. look'.at = "pid" /\ look'.shared = global /\ look'.up = look.up /\ look'.alive = look.alive
        BY <2>1
    <2>4. BeatIsRead'
        BY <2>1, <2>3
    <2> QED BY <2>1, <2>2, <2>3, <2>4
<1>9. CASE ChecksPid
    <2>1. Exists(look.status.pid) \in BOOLEAN
        BY DEF Exists
    <2> QED BY <1>9, <2>1 DEF ChecksPid, Reads
<1>10. CASE ChecksSame
    BY <1>10 DEF ChecksSame, Reads
<1>11. CASE Concludes
    <2>1. Alive \in BOOLEAN
        BY DEF Alive
    <2>2. Alive => present # {}
        BY <1>11 DEF Alive, SharedPid, Concludes
    <2>3. sureUp # {} => Alive
        <3>1. ASSUME NEW d \in sureUp PROVE Alive
            BY <1>11, <3>1 DEF Alive, SharedPid, Concludes
        <3> QED BY <3>1
    <2> QED BY <1>11, <2>1, <2>2, <2>3 DEF Concludes, Reads
<1> QED BY <1>1, <1>2, <1>3, <1>4, <1>5, <1>6, <1>7, <1>8, <1>9, <1>10, <1>11 DEF LookStep

\* Nothing changes while nobody looks.
LEMMA LookRests == LookInv /\ UNCHANGED lookVars => LookInv'
BY DEF lookVars, LookInv, LookTyped, OneIsUp, BeatIsRead, PresentIsSeen, Exists

-----------------------------------------------------------------------------
\* Of the directories still to be listed.
ToList(r) == VerbOf[r] \in scan.dirs
\* Sent before the request that is asked about, and waiting when the scan began.
Older == {r \in before : r < OwnRequest}
\* Of them: still to be looked at, and waiting although they were.
ToCount == {r \in Older : r \in scan.files \/ ToList(r)}
Passed == {r \in Older : spool[r] = "in" /\ r \notin scan.files /\ ~ToList(r)}

ScanTyped ==
    /\ spool \in [Request -> {"unsent", "in", "inflight", "done"}]
    /\ scan \in [at : {"off", "list", "said"}, dirs : SUBSET {VerbOf[r] : r \in Request}, files : SUBSET Request,
                 claimed : Nat, waiting : Nat, ahead : Nat, aged : SUBSET Request,
                 old : BOOLEAN, queued : BOOLEAN, stalled : BOOLEAN]
    /\ before \subseteq Request /\ full \subseteq Claimed
    /\ \A r \in scan.files : ~ToList(r)

\* Nothing is counted twice.
CountedOnce ==
    /\ scan.claimed + scan.waiting + Cardinality({r \in Request : ToList(r)}) <= Cardinality(Request)
    /\ scan.ahead + Cardinality(ToCount) <= Cardinality(Older)

\* Nothing is left out.
NoneLeftOut ==
    /\ scan.queued => Cardinality(Passed) <= scan.ahead
    /\ Cardinality({r \in full : ~ToList(r)}) <= scan.claimed

\* What waits and is older than the request has waited since before the scan.
OlderWaited ==
    /\ scan.at # "off" => spool[OwnRequest] # "unsent" /\ \A r \in Request : r < OwnRequest /\ spool[r] = "in" => r \in before
    /\ scan.aged \subseteq before
    /\ scan.old => before # {}
    /\ scan.stalled => Cardinality(full) < ClaimCap /\ before # {}
    /\ scan.at = "off" => scan = Unscanned /\ before = {} /\ full = {}
    /\ scan.at = "said" => scan.dirs = {} /\ scan.files = {}

ScanInv == ScanTyped /\ (scan.at # "off" => CountedOnce /\ NoneLeftOut) /\ OlderWaited

\* Any requests are finitely many, and fewer of them are not more.
LEMMA PartsAreFinite ==
    ASSUME NEW A \in SUBSET Request
    PROVE  IsFiniteSet(A) /\ Cardinality(A) \in Nat /\ \A B \in SUBSET A : Cardinality(B) <= Cardinality(A)
<1>1. IsFiniteSet(A)
    BY RequestsAreOrdered, FS_Subset
<1> QED BY <1>1, FS_Subset, FS_CardinalityType

\* No scan goes on at first.
LEMMA ScanStarts == ScanInit => ScanInv
<1> SUFFICES ASSUME ScanInit PROVE ScanInv
    OBVIOUS
<1>1. spool \in [Request -> {"unsent", "in", "inflight", "done"}]
    BY DEF ScanInit
<1>2. scan.at = "off" /\ scan.files = {} /\ ScanTyped
    BY <1>1 DEF ScanInit, Unscanned, ScanTyped
<1>3. OlderWaited
    BY DEF ScanInit, Unscanned, OlderWaited
<1> QED BY <1>2, <1>3 DEF ScanInv

\* A request is sent, claimed or answered: what waits is not more, unless it is
\* sent later than the one asked about.
LEMMA SpoolMoves ==
    ASSUME ScanInv, UNCHANGED <<scan, before>>, full' \subseteq full, full' \subseteq Claimed',
           spool' \in [Request -> {"unsent", "in", "inflight", "done"}],
           scan.at # "off" => spool'[OwnRequest] # "unsent",
           scan.at # "off" => \A r \in Request : r < OwnRequest /\ spool'[r] = "in" => spool[r] = "in"
    PROVE  ScanInv'
<1>1. ScanTyped'
    BY DEF ScanInv, ScanTyped, ToList
<1>2. full \subseteq Request /\ full' \subseteq Request /\ before \subseteq Request
    BY DEF ScanInv, ScanTyped, Claimed
<1>3. Cardinality(full') <= Cardinality(full) /\ Cardinality(full') \in Nat /\ Cardinality(full) \in Nat
    BY <1>2, PartsAreFinite
<1>4. OlderWaited'
    BY <1>3, RequestsAreOrdered DEF ScanInv, OlderWaited
<1>5. ASSUME scan.at # "off" PROVE CountedOnce' /\ NoneLeftOut'
    <2>1. CountedOnce'
        BY <1>5 DEF ScanInv, CountedOnce, ToCount, Older, ToList
    <2>2. Passed' \subseteq Passed /\ Passed \subseteq Request
        BY <1>2, <1>5 DEF Passed, Older, ToList
    <2>3. Cardinality(Passed') <= Cardinality(Passed) /\ Cardinality(Passed) \in Nat /\ Cardinality(Passed') \in Nat
        BY <2>2, PartsAreFinite
    <2> DEFINE seen == {r \in full : ~ToList(r)}
    <2>4. seen' \subseteq seen /\ seen \subseteq Request
        BY <1>2 DEF ToList
    <2>5. Cardinality(seen') <= Cardinality(seen) /\ Cardinality(seen) \in Nat /\ Cardinality(seen') \in Nat
        BY <2>4, PartsAreFinite
    <2>6. scan.ahead \in Nat /\ scan.claimed \in Nat
        BY DEF ScanInv, ScanTyped
    <2>7. NoneLeftOut
        BY <1>5 DEF ScanInv
    <2> HIDE DEF seen
    <2>8. Cardinality(seen) <= scan.claimed /\ (scan.queued => Cardinality(Passed) <= scan.ahead)
        BY <2>7 DEF NoneLeftOut, seen
    <2>9. Cardinality(seen') <= scan'.claimed /\ (scan'.queued => Cardinality(Passed') <= scan'.ahead)
        BY <2>3, <2>5, <2>6, <2>8
    <2>10. NoneLeftOut'
        BY <2>9 DEF NoneLeftOut, seen
    <2> QED BY <2>1, <2>10
<1> QED BY <1>1, <1>4, <1>5 DEF ScanInv

\* A scan begins with every directory still to be listed.
LEMMA ScanBegins == ScanInv /\ BeginsScan => ScanInv'
<1> SUFFICES ASSUME ScanInv, BeginsScan PROVE ScanInv'
    OBVIOUS
<1>1. PICK agedNow \in SUBSET Unclaimed(Request) :
          scan' = [Unscanned EXCEPT !.at = "list", !.dirs = {VerbOf[r] : r \in Request},
                                    !.queued = spool[OwnRequest] = "in", !.aged = agedNow]
    BY DEF BeginsScan
<1>2. before' = Unclaimed(Request) /\ full' = Claimed /\ spool' = spool /\ spool[OwnRequest] # "unsent"
    BY DEF BeginsScan
<1>3. agedNow \subseteq Request /\ agedNow \subseteq before' /\ before' \subseteq Request /\ full' \subseteq Request /\ full' \subseteq Claimed'
    BY <1>1, <1>2 DEF Unclaimed, Claimed
<1>4. scan' = [at |-> "list", dirs |-> {VerbOf[r] : r \in Request}, files |-> {}, claimed |-> 0, waiting |-> 0, ahead |-> 0,
              aged |-> agedNow, old |-> FALSE, queued |-> (spool[OwnRequest] = "in"), stalled |-> FALSE]
    BY <1>1 DEF Unscanned
<1>5. ScanTyped'
    <2>1. (spool[OwnRequest] = "in") \in BOOLEAN
        OBVIOUS
    <2> QED BY <1>2, <1>3, <1>4, <2>1 DEF ScanInv, ScanTyped
<1>6. OlderWaited'
    BY <1>2, <1>3, <1>4 DEF OlderWaited, Unclaimed
<1>7. \A r \in Request : ToList(r)'
    BY <1>4 DEF ToList
<1>8. CountedOnce'
    <2>1. {r \in Request : ToList(r)'} = Request
        BY <1>7
    <2>2. Older' \subseteq Request /\ ToCount' \subseteq Older'
        BY <1>3 DEF Older, ToCount
    <2>3. Cardinality(ToCount') <= Cardinality(Older') /\ Cardinality(ToCount') \in Nat /\ Cardinality(Request) \in Nat
        BY <2>2, PartsAreFinite
    <2>4. Cardinality({r \in Request : ToList(r)'}) = Cardinality(Request)
        BY <2>1
    <2>5. scan'.claimed = 0 /\ scan'.waiting = 0 /\ scan'.ahead = 0
        BY <1>4
    <2>6. 0 + 0 + Cardinality(Request) <= Cardinality(Request) /\ 0 + Cardinality(ToCount') <= Cardinality(Older')
        BY <2>2, <2>3, PartsAreFinite
    <2> QED BY <2>4, <2>5, <2>6 DEF CountedOnce
<1>9. NoneLeftOut'
    <2>1. Passed' = {} /\ {r \in full' : ~ToList(r)'} = {}
        BY <1>3, <1>7 DEF Passed, Older
    <2> QED BY <1>4, <2>1, FS_EmptySet DEF NoneLeftOut
<1> QED BY <1>5, <1>6, <1>8, <1>9 DEF ScanInv

\* Requests of two disjoint kinds are no more than all there are.
LEMMA TogetherAtMost ==
    ASSUME NEW A \in SUBSET Request, NEW B \in SUBSET Request
    PROVE  /\ Cardinality(A \cup B) <= Cardinality(A) + Cardinality(B)
           /\ A \cap B = {} => Cardinality(A \cup B) = Cardinality(A) + Cardinality(B)
<1>1. IsFiniteSet(A) /\ IsFiniteSet(B) /\ Cardinality(A) \in Nat /\ Cardinality(B) \in Nat
    BY PartsAreFinite
<1>2. Cardinality(A \cup B) = Cardinality(A) + Cardinality(B) - Cardinality(A \cap B)
    BY <1>1, FS_Union
<1>3. Cardinality(A \cap B) \in Nat
    BY PartsAreFinite
<1>4. A \cap B = {} => Cardinality(A \cap B) = 0
    BY FS_EmptySet
<1> QED BY <1>1, <1>2, <1>3, <1>4

\* A directory listed is counted, once.
LEMMA ListingGoesOn == ASSUME NEW v, ScanInv, ListsVerb(v) PROVE ScanInv'
<1> DEFINE V == {r \in Request : VerbOf[r] = v}
           claims == Cardinality(V \cap Claimed)
           waits == Cardinality(Unclaimed(V))
<1>1. /\ scan.at = "list" /\ scan.files = {} /\ v \in scan.dirs /\ UNCHANGED <<spool, before, full>>
      /\ scan' = [scan EXCEPT !.dirs = @ \ {v}, !.files = Unclaimed(V), !.claimed = @ + claims, !.waiting = @ + waits]
    BY DEF ListsVerb, Scans
<1>2. V \subseteq Request /\ V \cap Claimed \subseteq Request /\ Unclaimed(V) \subseteq V /\ Unclaimed(V) \cap Claimed = {}
      /\ before \subseteq Request /\ full \subseteq Claimed /\ full \subseteq Request
    BY DEF Unclaimed, Claimed, ScanInv, ScanTyped
<1>3. claims \in Nat /\ waits \in Nat /\ Cardinality(V) \in Nat /\ claims + waits <= Cardinality(V)
    <2>1. (V \cap Claimed) \cap Unclaimed(V) = {} /\ (V \cap Claimed) \cup Unclaimed(V) \subseteq V /\ Unclaimed(V) \subseteq Request
        BY <1>2
    <2>2. Cardinality((V \cap Claimed) \cup Unclaimed(V)) = claims + waits
        BY <1>2, <2>1, TogetherAtMost
    <2> QED BY <1>2, <2>1, <2>2, PartsAreFinite
<1>4. /\ scan'.at = "list" /\ scan'.dirs = scan.dirs \ {v} /\ scan'.files = Unclaimed(V)
      /\ scan'.claimed = scan.claimed + claims /\ scan'.waiting = scan.waiting + waits /\ scan'.ahead = scan.ahead
      /\ scan'.aged = scan.aged /\ scan'.old = scan.old /\ scan'.queued = scan.queued /\ scan'.stalled = scan.stalled
    BY <1>1 DEF ScanInv, ScanTyped
<1>5. \A r \in Request : /\ r \in V => ToList(r) /\ ~ToList(r)'
                         /\ r \notin V => (ToList(r) <=> ToList(r)')
    BY <1>1, <1>4 DEF ToList
<1>6. scan.claimed \in Nat /\ scan.waiting \in Nat /\ scan.ahead \in Nat
    BY DEF ScanInv, ScanTyped
<1>7. ScanTyped'
    <2>1. scan.claimed + claims \in Nat /\ scan.waiting + waits \in Nat
        BY <1>3, <1>6
    <2>2. scan' \in [at : {"off", "list", "said"}, dirs : SUBSET {VerbOf[r] : r \in Request}, files : SUBSET Request,
                 claimed : Nat, waiting : Nat, ahead : Nat, aged : SUBSET Request,
                 old : BOOLEAN, queued : BOOLEAN, stalled : BOOLEAN]
        <3> DEFINE dirs == {VerbOf[r] : r \in Request}
        <3>1. scan.dirs \ {v} \in SUBSET dirs /\ Unclaimed(V) \in SUBSET Request
            BY <1>2 DEF ScanInv, ScanTyped
        <3> HIDE DEF dirs, claims, waits, V
        <3> QED BY <1>1, <2>1, <3>1 DEF ScanInv, ScanTyped, dirs
    <2>3. \A r \in scan'.files : ~ToList(r)'
        BY <1>2, <1>4, <1>5
    <2>4. full' \subseteq Claimed'
        BY <1>1, <1>2 DEF Claimed
    <2> QED BY <1>1, <2>2, <2>3, <2>4 DEF ScanInv, ScanTyped
<1>8. OlderWaited'
    BY <1>1, <1>4 DEF ScanInv, OlderWaited
<1> DEFINE U == {r \in Request : ToList(r)}
           W == {r \in Request : ToList(r)'}
           seen == {r \in full : ~ToList(r)}
           sees == {r \in full : ~ToList(r)'}
<1>9. scan.claimed + scan.waiting + Cardinality(U) <= Cardinality(Request)
      /\ scan.ahead + Cardinality(ToCount) <= Cardinality(Older)
      /\ (scan.queued => Cardinality(Passed) <= scan.ahead) /\ Cardinality(seen) <= scan.claimed
    BY <1>1 DEF ScanInv, CountedOnce, NoneLeftOut
<1>10. CountedOnce'
    <2>1. Cardinality(U) = Cardinality(V) + Cardinality(W)
        <3>1. V \cup W = U /\ V \cap W = {} /\ W \subseteq Request
            BY <1>2, <1>5
        <3> HIDE DEF V, W, U
        <3> QED BY <1>2, <3>1, TogetherAtMost
    <2>2. Cardinality(W) \in Nat /\ Cardinality(Request) \in Nat
        BY PartsAreFinite
    <2>3. scan'.claimed + scan'.waiting + Cardinality(W) <= Cardinality(Request)
        <3> HIDE DEF V, W, U, claims, waits
        <3> QED BY <1>3, <1>4, <1>6, <1>9, <2>1, <2>2
    <2>4. Older' = Older
        BY <1>1 DEF Older
    <2>5. ToCount' \subseteq ToCount
        BY <1>2, <1>4, <1>5, <2>4 DEF ToCount, Older
    <2>6. Cardinality(ToCount') <= Cardinality(ToCount) /\ Cardinality(ToCount) \in Nat /\ Cardinality(ToCount') \in Nat /\ Cardinality(Older) \in Nat
        <3>1. ToCount \subseteq Request /\ ToCount' \subseteq Request /\ Older \subseteq Request
            BY <1>2, <2>4 DEF ToCount, Older
        <3> QED BY <2>5, <3>1, PartsAreFinite
    <2>7. scan'.ahead + Cardinality(ToCount') <= Cardinality(Older')
        BY <1>4, <1>6, <1>9, <2>4, <2>6
    <2> QED BY <2>3, <2>7 DEF CountedOnce
<1>11. NoneLeftOut'
    <2>1. Passed' \subseteq Passed /\ Passed \subseteq Request
        <3>1. ASSUME NEW r \in Passed' PROVE r \in Passed
            <4>1. r \in before /\ r \in Request /\ r < OwnRequest /\ spool[r] = "in" /\ r \notin scan'.files /\ ~ToList(r)'
                BY <1>1, <1>2, <3>1 DEF Passed, Older
            <4>2. r \notin V
                BY <1>4, <4>1 DEF Unclaimed
            <4> QED BY <1>1, <1>5, <4>1, <4>2 DEF Passed, Older
        <3> QED BY <1>2, <3>1 DEF Passed, Older
    <2>2. Cardinality(Passed') <= Cardinality(Passed) /\ Cardinality(Passed) \in Nat /\ Cardinality(Passed') \in Nat
        BY <2>1, PartsAreFinite
    <2>3. scan'.queued => Cardinality(Passed') <= scan'.ahead
        BY <1>4, <1>6, <1>9, <2>2
    <2>4. sees \subseteq seen \cup (V \cap Claimed) /\ seen \subseteq Request /\ sees \subseteq Request
        BY <1>2, <1>5
    <2>5. Cardinality(sees) <= scan.claimed + claims
        <3> HIDE DEF V, seen, sees
        <3>1. Cardinality(seen \cup (V \cap Claimed)) <= Cardinality(seen) + claims
            BY <1>2, <2>4, TogetherAtMost
        <3>2. Cardinality(sees) <= Cardinality(seen \cup (V \cap Claimed)) /\ Cardinality(sees) \in Nat
              /\ Cardinality(seen \cup (V \cap Claimed)) \in Nat /\ Cardinality(seen) \in Nat
            <4>1. seen \cup (V \cap Claimed) \in SUBSET Request
                BY <1>2, <2>4
            <4> QED BY <2>4, <4>1, PartsAreFinite
        <3> HIDE DEF claims
        <3> QED BY <1>3, <1>6, <1>9, <3>1, <3>2
    <2> QED BY <1>1, <1>4, <2>3, <2>5 DEF NoneLeftOut
<1> QED BY <1>7, <1>8, <1>10, <1>11 DEF ScanInv

\* A file looked at is ahead, or is passed over.
LEMMA LookAtFile == ASSUME NEW r \in Request, ScanInv, StatsFile(r) PROVE ScanInv'
<1> DEFINE counts == scan.queued /\ spool[r] = "in" /\ Ahead(r)
<1>1. /\ r \in scan.files /\ UNCHANGED <<spool, before, full>>
      /\ scan' = [scan EXCEPT !.files = @ \ {r}, !.old = @ \/ (spool[r] = "in" /\ r \in scan.aged),
                              !.ahead = IF counts THEN @ + 1 ELSE @]
    BY DEF StatsFile, Scans
<1>2. /\ scan'.at = scan.at /\ scan'.dirs = scan.dirs /\ scan'.files = scan.files \ {r}
      /\ scan'.claimed = scan.claimed /\ scan'.waiting = scan.waiting /\ scan'.ahead = (IF counts THEN scan.ahead + 1 ELSE scan.ahead)
      /\ scan'.aged = scan.aged /\ scan'.old = (scan.old \/ (spool[r] = "in" /\ r \in scan.aged))
      /\ scan'.queued = scan.queued /\ scan'.stalled = scan.stalled
      /\ scan.ahead \in Nat
    BY <1>1 DEF ScanInv, ScanTyped
<1>3. scan.at = "list"
    BY <1>1 DEF ScanInv, ScanTyped, OlderWaited, Unscanned
<1>4. \A q : ToList(q)' <=> ToList(q)
    BY <1>2 DEF ToList
<1>5. ~ToList(r)
    BY <1>1 DEF ScanInv, ScanTyped
<1>6. ScanTyped'
    <2>1. scan' \in [at : {"off", "list", "said"}, dirs : SUBSET {VerbOf[q] : q \in Request}, files : SUBSET Request,
                 claimed : Nat, waiting : Nat, ahead : Nat, aged : SUBSET Request,
                 old : BOOLEAN, queued : BOOLEAN, stalled : BOOLEAN]
        <3> DEFINE dirs == {VerbOf[q] : q \in Request}
        <3>1. (IF counts THEN scan.ahead + 1 ELSE scan.ahead) \in Nat /\ (scan.old \/ (spool[r] = "in" /\ r \in scan.aged)) \in BOOLEAN
            BY <1>2 DEF ScanInv, ScanTyped
        <3> HIDE DEF dirs, counts
        <3> QED BY <1>1, <3>1 DEF ScanInv, ScanTyped, dirs
    <2> QED BY <1>1, <1>2, <1>4, <2>1 DEF ScanInv, ScanTyped, Claimed
<1>7. OlderWaited'
    BY <1>1, <1>2, <1>3 DEF ScanInv, OlderWaited
<1>8. before \subseteq Request /\ Older' = Older /\ Older \subseteq Request
    BY <1>1 DEF ScanInv, ScanTyped, Older
<1>9. CountedOnce /\ NoneLeftOut
    BY <1>3 DEF ScanInv
<1>10. CountedOnce'
    <2>1. ToCount' \subseteq ToCount \ {r} /\ ToCount \subseteq Request
        BY <1>2, <1>4, <1>5, <1>8 DEF ToCount
    <2>2. counts => r \in ToCount
        BY <1>1, <1>3 DEF Ahead, ScanInv, OlderWaited, ToCount, Older
    <2>3. Cardinality(ToCount') \in Nat /\ Cardinality(ToCount) \in Nat /\ Cardinality(Older) \in Nat
          /\ Cardinality(ToCount') <= Cardinality(ToCount)
        BY <1>8, <2>1, PartsAreFinite
    <2>4. counts => Cardinality(ToCount') + 1 <= Cardinality(ToCount)
        <3>1. ASSUME counts PROVE Cardinality(ToCount') + 1 <= Cardinality(ToCount)
            <4>1. r \in ToCount /\ IsFiniteSet(ToCount)
                BY <2>1, <2>2, <3>1, PartsAreFinite
            <4>2. Cardinality(ToCount \ {r}) = Cardinality(ToCount) - 1
                BY <4>1, FS_RemoveElement
            <4>3. Cardinality(ToCount') <= Cardinality(ToCount \ {r})
                BY <2>1, PartsAreFinite
            <4> QED BY <2>3, <4>2, <4>3
        <3> QED BY <3>1
    <2>5. scan'.ahead + Cardinality(ToCount') <= Cardinality(Older')
        <3>1. scan.ahead + Cardinality(ToCount) <= Cardinality(Older)
            BY <1>9 DEF CountedOnce
        <3> HIDE DEF counts
        <3> QED BY <1>2, <1>8, <2>3, <2>4, <3>1
    <2>6. {q \in Request : ToList(q)'} = {q \in Request : ToList(q)}
        BY <1>4
    <2> QED BY <1>2, <1>9, <2>5, <2>6 DEF CountedOnce
<1>11. NoneLeftOut'
    <2>1. Passed' \subseteq Passed \cup {r} /\ Passed \subseteq Request /\ (scan.queued /\ ~counts => Passed' \subseteq Passed)
        BY <1>1, <1>2, <1>4, <1>8 DEF Passed, Older, Ahead
    <2>2. Cardinality(Passed) \in Nat /\ Cardinality(Passed \cup {r}) \in Nat /\ Cardinality(Passed \cup {r}) <= Cardinality(Passed) + 1
        <3>1. Cardinality({r}) = 1
            BY FS_Singleton
        <3>2. Cardinality(Passed \cup {r}) <= Cardinality(Passed) + Cardinality({r})
            BY <2>1, TogetherAtMost
        <3> QED BY <2>1, <3>1, <3>2, PartsAreFinite
    <2>3. Cardinality(Passed') <= Cardinality(Passed \cup {r}) /\ (scan.queued /\ ~counts => Cardinality(Passed') <= Cardinality(Passed))
          /\ Cardinality(Passed') \in Nat
        BY <2>1, PartsAreFinite
    <2>4. scan.queued => Cardinality(Passed) <= scan.ahead
        BY <1>9 DEF NoneLeftOut
    <2>5. scan'.queued => Cardinality(Passed') <= scan'.ahead
        <3> HIDE DEF counts
        <3> QED BY <1>2, <2>2, <2>3, <2>4
    <2>6. {q \in full' : ~ToList(q)'} = {q \in full : ~ToList(q)}
        BY <1>1, <1>4
    <2> QED BY <1>2, <1>9, <2>5, <2>6 DEF NoneLeftOut
<1> QED BY <1>6, <1>7, <1>10, <1>11 DEF ScanInv

\* The scan ends with nothing left to list or to look at.
LEMMA ScanEnds == ScanInv /\ EndsScan => ScanInv'
<1> SUFFICES ASSUME ScanInv, EndsScan PROVE ScanInv'
    OBVIOUS
<1>1. scan.at = "list" /\ scan.dirs = {} /\ scan.files = {} /\ UNCHANGED <<spool, before, full>>
      /\ scan' = [scan EXCEPT !.at = "said", !.stalled = Stalled]
    BY DEF EndsScan, Scans
<1>2. Stalled \in BOOLEAN
    BY DEF Stalled, ScanInv, ScanTyped
<1>3. ScanTyped'
    <2>1. scan' \in [at : {"off", "list", "said"}, dirs : SUBSET {VerbOf[q] : q \in Request}, files : SUBSET Request,
                 claimed : Nat, waiting : Nat, ahead : Nat, aged : SUBSET Request,
                 old : BOOLEAN, queued : BOOLEAN, stalled : BOOLEAN]
        <3> DEFINE dirs == {VerbOf[q] : q \in Request}
        <3> HIDE DEF dirs
        <3> QED BY <1>1, <1>2 DEF ScanInv, ScanTyped, dirs
    <2> QED BY <1>1, <2>1 DEF ScanInv, ScanTyped, ToList, Claimed
<1>4. /\ scan'.at = "said" /\ scan'.dirs = scan.dirs /\ scan'.files = scan.files
      /\ scan'.claimed = scan.claimed /\ scan'.waiting = scan.waiting /\ scan'.ahead = scan.ahead
      /\ scan'.aged = scan.aged /\ scan'.old = scan.old /\ scan'.queued = scan.queued /\ scan'.stalled = Stalled
    BY <1>1 DEF ScanInv, ScanTyped
<1>5. CountedOnce' /\ NoneLeftOut'
    BY <1>1, <1>4 DEF ScanInv, CountedOnce, NoneLeftOut, ToCount, Passed, Older, ToList
<1>6. Stalled => Cardinality(full) < ClaimCap /\ before # {}
    <2>1. {r \in full : ~ToList(r)} = full
        BY <1>1 DEF ToList
    <2>2. full \subseteq Request /\ scan.claimed \in Nat
        BY DEF ScanInv, ScanTyped, Claimed
    <2>3. Cardinality(full) \in Nat /\ Cardinality(full) <= scan.claimed
        BY <1>1, <2>1, <2>2, PartsAreFinite DEF ScanInv, NoneLeftOut
    <2> QED BY <2>2, <2>3, RequestsAreOrdered DEF Stalled, ScanInv, OlderWaited
<1>7. OlderWaited'
    BY <1>1, <1>4, <1>6 DEF ScanInv, OlderWaited
<1> QED BY <1>3, <1>5, <1>7 DEF ScanInv

\* Each step of a scan, and of the requests while it goes on.
LEMMA ScanSteps == ScanInv /\ ScanStep => ScanInv'
<1> SUFFICES ASSUME ScanInv, ScanStep PROVE ScanInv'
    OBVIOUS
<1>1. ASSUME NEW r \in Request, Sends(r) \/ ClaimsRequest(r) \/ AnswersRequest(r) PROVE ScanInv'
    <2>1. spool \in [Request -> {"unsent", "in", "inflight", "done"}] /\ full \subseteq Claimed
          /\ Request \subseteq Nat /\ OwnRequest \in Request
        BY RequestsAreOrdered DEF ScanInv, ScanTyped
    <2>2. scan.at # "off" => spool[OwnRequest] # "unsent"
        BY DEF ScanInv, OlderWaited
    <2>3. CASE Sends(r)
        <3>1. /\ spool[r] = "unsent" /\ \A q \in Request : q > r => spool[q] = "unsent"
              /\ spool' = [spool EXCEPT ![r] = "in"] /\ UNCHANGED <<scan, before, full>>
            BY <2>3 DEF Sends
        <3>2. full' \subseteq Claimed'
            BY <2>1, <3>1 DEF Claimed
        <3>3. spool'[r] = "in" /\ \A q \in Request \ {r} : spool'[q] = spool[q]
            BY <2>1, <3>1
        <3>4. scan.at # "off" => ~(r < OwnRequest)
            BY <2>1, <2>2, <3>1
        <3> QED BY <2>1, <2>2, <3>1, <3>2, <3>3, <3>4, SpoolMoves
    <2>4. CASE ClaimsRequest(r)
        <3>1. spool[r] = "in" /\ spool' = [spool EXCEPT ![r] = "inflight"] /\ UNCHANGED <<scan, before, full>>
            BY <2>4 DEF ClaimsRequest
        <3>2. full' \subseteq Claimed'
            BY <2>1, <3>1 DEF Claimed
        <3>3. spool'[r] = "inflight" /\ \A q \in Request \ {r} : spool'[q] = spool[q]
            BY <2>1, <3>1
        <3> QED BY <2>1, <2>2, <3>1, <3>2, <3>3, SpoolMoves
    <2>5. CASE AnswersRequest(r)
        <3>1. spool[r] = "inflight" /\ spool' = [spool EXCEPT ![r] = "done"] /\ full' = full \ {r} /\ UNCHANGED <<scan, before>>
            BY <2>5 DEF AnswersRequest
        <3>2. full' \subseteq Claimed'
            BY <2>1, <3>1 DEF Claimed
        <3>3. spool'[r] = "done" /\ \A q \in Request \ {r} : spool'[q] = spool[q]
            BY <2>1, <3>1
        <3> QED BY <2>1, <2>2, <3>1, <3>2, <3>3, SpoolMoves
    <2> QED BY <1>1, <2>3, <2>4, <2>5
<1> QED BY <1>1, ListingGoesOn, LookAtFile, ScanBegins, ScanEnds DEF ScanStep

\* Nothing changes while no scan and no request moves.
LEMMA ScanRests == ScanInv /\ UNCHANGED scanVars => ScanInv'
BY DEF scanVars, ScanInv, ScanTyped, CountedOnce, NoneLeftOut, OlderWaited, ToList, Older, ToCount, Passed, Claimed

\* The safety properties of the verdict follow.
LEMMA LivenessSafe == LookInv /\ ScanInv => LivenessInv
<1> SUFFICES ASSUME LookInv, ScanInv PROVE LivenessInv
    OBVIOUS
<1>1. LivenessTypeOK
    <2>1. scan.claimed \in Nat /\ scan.waiting \in Nat /\ Cardinality({r \in Request : ToList(r)}) \in Nat /\ Cardinality(Request) \in Nat
        BY PartsAreFinite DEF ScanInv, ScanTyped
    <2>2. scan.claimed + scan.waiting <= Cardinality(Request)
        <3>1. CASE scan.at = "off"
            <4>1. scan.claimed = 0 /\ scan.waiting = 0
                BY <3>1 DEF ScanInv, OlderWaited, Unscanned
            <4> QED BY <2>1, <4>1
        <3>2. CASE scan.at # "off"
            <4>1. scan.claimed + scan.waiting + Cardinality({r \in Request : ToList(r)}) <= Cardinality(Request)
                BY <3>2 DEF ScanInv, CountedOnce
            <4> QED BY <2>1, <4>1
        <3> QED BY <3>1, <3>2
    <2>3. /\ process \in [Daemon -> {"new", "up", "hung", "ended"}]
          /\ {project.pid, global.pid, owner} \subseteq Daemon \cup {NoPid} /\ sureUp \subseteq present
        BY DEF LookInv, LookTyped, BeatIsRead, Statuses, Pids
    <2> QED BY <2>2, <2>3 DEF ScanInv, ScanTyped, LivenessTypeOK
<1>2. LivenessTrue
    BY DEF LookInv, LookTyped, BeatIsRead, PresentIsSeen, LivenessTrue
<1>3. QueueMeasured
    <2> SUFFICES ASSUME scan.at = "said"
                 PROVE  /\ scan.ahead <= Cardinality(Older)
                        /\ scan.queued => scan.ahead >= Cardinality({r \in before : r < OwnRequest /\ spool[r] = "in"})
                        /\ scan.stalled => Cardinality(full) < ClaimCap /\ before # {}
        BY DEF QueueMeasured, Older
    <2>1. scan.ahead \in Nat /\ before \subseteq Request /\ scan.dirs = {} /\ scan.files = {} /\ CountedOnce /\ NoneLeftOut
        BY DEF ScanInv, ScanTyped, OlderWaited
    <2>2. Older \subseteq Request /\ ToCount \subseteq Request /\ Passed \subseteq Request
        BY <2>1 DEF Older, ToCount, Passed
    <2>3. Cardinality(ToCount) \in Nat /\ Cardinality(Older) \in Nat /\ Cardinality(Passed) \in Nat
        BY <2>2, PartsAreFinite
    <2>4. scan.ahead <= Cardinality(Older)
        BY <2>1, <2>3 DEF CountedOnce
    <2>5. {r \in before : r < OwnRequest /\ spool[r] = "in"} = Passed
        BY <2>1 DEF Passed, Older, ToList
    <2>6. scan.queued => scan.ahead >= Cardinality(Passed)
        BY <2>1, <2>3 DEF NoneLeftOut
    <2> QED BY <2>4, <2>5, <2>6 DEF ScanInv, OlderWaited
<1> QED BY <1>1, <1>2, <1>3 DEF LivenessInv

(* A verdict on an unanswered request is true of the time it was made in:    *)
(* a daemon that was up and beating throughout is called alive, one called   *)
(* alive was there while the reading went on, and the queue position counts  *)
(* each older request that still waits and none twice (readDaemonLiveness    *)
(* and scanSpoolQueue of dispatch.js).                                       *)
THEOREM LivenessKept == PartsSpec => []LivenessInv
<1> DEFINE Inv == LookInv /\ ScanInv
<1>1. PartsInit => Inv
    BY LookStarts, ScanStarts DEF PartsInit
<1>2. Inv /\ [PartsNext]_partsVars => Inv'
    <2> SUFFICES ASSUME Inv, [PartsNext]_partsVars PROVE Inv'
        OBVIOUS
    <2>1. LookStep \/ UNCHANGED lookVars
        BY DEF PartsNext, partsVars, Rest, OthersRest, dispatching, Usual
    <2>2. ScanStep \/ UNCHANGED scanVars
        BY DEF PartsNext, partsVars, Rest, OthersRest, dispatching, Usual
    <2> QED BY <2>1, <2>2, LookSteps, LookRests, ScanSteps, ScanRests
<1>3. Inv => LivenessInv
    BY LivenessSafe
<1> QED BY <1>1, <1>2, <1>3, PTL DEF PartsSpec

-----------------------------------------------------------------------------
(* Lists: how a fold of the library computes: for a list of each length      *)
(* there is the function it is defined by, so that what it gives is shown    *)
(* along the prefixes.                                                       *)

\* A set of naturals that is not empty has a least element.
LEMMA LeastOf ==
    ASSUME NEW S \in SUBSET Nat, S # {}
    PROVE  \E n \in S : \A m \in S : n <= m
<1> DEFINE Before == {p \in Nat \X Nat : p[1] < p[2]}
<1>1. IsWellFoundedOn(Before, Nat)
    BY NatLessThanWellFounded DEF OpToRel
<1>2. PICK n \in S : \A m \in S : ~ (<<m, n>> \in Before)
    <2> HIDE DEF Before
    <2> QED BY <1>1, WFMin
<1>3. \A m \in S : ~(m < n)
    BY <1>2
<1> QED BY <1>3

\* Induction up to a bound, over a set.
LEMMA UpTo ==
    ASSUME NEW n \in Nat, NEW S, 0 \in S, \A k \in 1..n : k - 1 \in S => k \in S
    PROVE  \A k \in 0..n : k \in S
<1> DEFINE Missing == {k \in 0..n : k \notin S}
<1> SUFFICES ASSUME Missing # {} PROVE FALSE
    OBVIOUS
<1>1. PICK k \in Missing : \A m \in Missing : k <= m
    <2>1. Missing \in SUBSET Nat
        OBVIOUS
    <2> HIDE DEF Missing
    <2> QED BY <2>1, LeastOf
<1>2. k \in 0..n /\ k \notin S /\ k # 0
    OBVIOUS
<1>3. k - 1 \in 0..n /\ ~(k <= k - 1) /\ k \in 1..n
    BY <1>2
<1>4. k - 1 \notin Missing
    <2> HIDE DEF Missing
    <2> QED BY <1>1, <1>3
<1> QED BY <1>2, <1>3, <1>4

\* A bounded set of naturals that is not empty has the greatest element that Max chooses.
LEMMA MaxOf ==
    ASSUME NEW n \in Nat, NEW S \in SUBSET (0..n), S # {}
    PROVE  Max(S) \in S /\ \A m \in S : m <= Max(S)
<1> DEFINE Below == {k \in Nat : n - k \in S}
<1>1. PICK k \in Below : \A m \in Below : k <= m
    <2>1. PICK m \in S : TRUE
        OBVIOUS
    <2>2. n - m \in Nat /\ n - (n - m) = m
        OBVIOUS
    <2>3. n - m \in Below
        BY <2>2
    <2>4. Below \in SUBSET Nat /\ Below # {}
        BY <2>3
    <2> HIDE DEF Below
    <2> QED BY <2>4, LeastOf
<1>2. n - k \in S
    OBVIOUS
<1>3. \A m \in S : n - k >= m
    <2> SUFFICES ASSUME NEW m \in S PROVE n - k >= m
        OBVIOUS
    <2>1. n - m \in Nat /\ n - (n - m) = m /\ k \in Nat
        OBVIOUS
    <2>2. n - m \in Below
        BY <2>1
    <2>3. k <= n - m
        BY <2>2, <1>1
    <2> QED BY <2>1, <2>3
<1>4. Max(S) \in S /\ \A m \in S : Max(S) >= m
    <2>1. \E w \in S : \A m \in S : w >= m
        BY <1>2, <1>3
    <2> QED BY <2>1 DEF Max
<1> QED BY <1>4

\* A function that folds a list, as the library does it: over the set of its places, the last of them first.
FoldOf(g, n, base, step) ==
    g = [s \in SUBSET (1..n) |-> IF s = {} THEN base ELSE step[<<Max(s), g[s \ {Max(s)}]>>]]

\* There is such a function for a list of each length, so that a fold is the function it is defined by.
LEMMA FoldsExist ==
    ASSUME NEW T, NEW base \in T, NEW step \in [Nat \X T -> T]
    PROVE  \A n \in Nat : \E g \in [SUBSET (1..n) -> T] : FoldOf(g, n, base, step)
<1> DEFINE Short == {n \in Nat : ~ \E g \in [SUBSET (1..n) -> T] : FoldOf(g, n, base, step)}
<1> SUFFICES ASSUME Short # {} PROVE FALSE
    OBVIOUS
<1>1. PICK n \in Short : \A m \in Short : n <= m
    <2>1. Short \in SUBSET Nat
        OBVIOUS
    <2> HIDE DEF Short
    <2> QED BY <2>1, LeastOf
<1>2. n \in Nat
    OBVIOUS
<1>3. CASE n = 0
    <2> DEFINE first == [s \in SUBSET (1..0) |-> base]
    <2>1. \A s \in SUBSET (1..0) : s = {}
        OBVIOUS
    <2>2. first \in [SUBSET (1..0) -> T] /\ FoldOf(first, 0, base, step)
        BY <2>1 DEF FoldOf
    <2> HIDE DEF first
    <2> QED BY <1>3, <2>2
<1>4. CASE n # 0
    <2>1. n - 1 \in Nat /\ n - 1 \notin Short
        <3>1. n - 1 \in Nat /\ ~(n <= n - 1)
            BY <1>2, <1>4
        <3> HIDE DEF Short
        <3> QED BY <1>1, <3>1
    <2>2. PICK g \in [SUBSET (1..(n - 1)) -> T] : FoldOf(g, n - 1, base, step)
        BY <2>1
    <2> DEFINE h == [s \in SUBSET (1..n) |-> IF n \in s THEN step[<<n, g[s \ {n}]>>] ELSE g[s]]
    <2>3. ASSUME NEW s \in SUBSET (1..n)
          PROVE  h[s] \in T /\ h[s] = IF s = {} THEN base ELSE step[<<Max(s), h[s \ {Max(s)}]>>]
        <3>1. CASE n \in s
            <4>1. s \ {n} \in SUBSET (1..(n - 1)) /\ s \ {n} \in SUBSET (1..n) /\ n \notin s \ {n} /\ s # {}
                BY <1>2, <1>4, <3>1
            <4>2. g[s \ {n}] \in T /\ h[s \ {n}] = g[s \ {n}]
                BY <4>1, <2>1
            <4>3. h[s] = step[<<n, g[s \ {n}]>>]
                BY <3>1
            <4>4. Max(s) = n
                <5>1. s \in SUBSET (0..n)
                    BY <1>2
                <5>2. Max(s) \in s /\ \A m \in s : m <= Max(s)
                    BY <5>1, <4>1, <1>2, MaxOf
                <5>3. Max(s) \in 0..n /\ n <= Max(s)
                    BY <3>1, <5>1, <5>2
                <5> QED BY <5>3, <1>2
            <4>5. h[s] \in T
                BY <4>2, <4>3, <1>2
            <4> HIDE DEF h
            <4> QED BY <4>1, <4>2, <4>3, <4>4, <4>5
        <3>2. CASE n \notin s
            <4>1. s \in SUBSET (1..(n - 1)) /\ \A t \in SUBSET s : t \in SUBSET (1..n) /\ n \notin t
                BY <1>2, <1>4, <3>2
            <4>2. \A t \in SUBSET s : h[t] = g[t]
                BY <4>1
            <4>3. g[s] = IF s = {} THEN base ELSE step[<<Max(s), g[s \ {Max(s)}]>>]
                BY <2>2, <4>1 DEF FoldOf
            <4>4. g[s] \in T
                BY <4>1, <2>1
            <4> HIDE DEF h
            <4>5. h[s] = g[s] /\ h[s \ {Max(s)}] = g[s \ {Max(s)}]
                BY <4>2
            <4> QED BY <4>3, <4>4, <4>5
        <3> QED BY <3>1, <3>2
    <2>4. h = [s \in SUBSET (1..n) |-> h[s]]
        OBVIOUS
    <2>5. h \in [SUBSET (1..n) -> T] /\ FoldOf(h, n, base, step)
        <3> HIDE DEF h
        <3>1. h \in [SUBSET (1..n) -> T]
            BY <2>3, <2>4
        <3>2. [s \in SUBSET (1..n) |-> h[s]] = [s \in SUBSET (1..n) |-> IF s = {} THEN base ELSE step[<<Max(s), h[s \ {Max(s)}]>>]]
            BY <2>3
        <3> QED BY <3>1, <3>2, <2>4 DEF FoldOf
    <2> HIDE DEF h
    <2> QED BY <2>5
<1> QED BY <1>3, <1>4

\* The last place of a prefix of a list.
LEMMA MaxUpTo ==
    ASSUME NEW n \in Nat, NEW k \in 1..n
    PROVE  1..k \in SUBSET (1..n) /\ 1..k # {} /\ Max(1..k) = k /\ (1..k) \ {k} = 1..(k - 1)
<1>1. 1..k \in SUBSET (1..n) /\ 1..k # {} /\ 1..k \in SUBSET (0..k) /\ k \in 1..k /\ k \in Nat
    OBVIOUS
<1>2. Max(1..k) \in 1..k /\ k <= Max(1..k)
    BY <1>1, MaxOf
<1> QED BY <1>1, <1>2

\* A sum of naturals, as a function of how many of them were added.
LEMMA SumSteps ==
    ASSUME NEW s \in Seq(Nat)
    PROVE  \E f \in [0..Len(s) -> Nat] :
              /\ f[0] = 0
              /\ \A k \in 1..Len(s) : f[k] = f[k - 1] + s[k]
              /\ TextSum(s) = f[Len(s)]
<1> DEFINE n == Len(s)
           step == [p \in Nat \X Nat |-> IF p[1] \in 1..n THEN p[2] + s[p[1]] ELSE 0]
           sum[w \in SUBSET DOMAIN s] == IF w = {} THEN 0 ELSE LET top == Max(w) IN sum[w \ {top}] + s[top]
<1>1. TextSum(s) = sum[DOMAIN s]
    BY DEF TextSum, FoldLeft, MapThenFoldSet
<1>2. step \in [Nat \X Nat -> Nat]
    OBVIOUS
<1>3. PICK g \in [SUBSET (1..n) -> Nat] : FoldOf(g, n, 0, step)
    <2>1. n \in Nat
        OBVIOUS
    <2> HIDE DEF n, step
    <2> QED BY <1>2, <2>1, FoldsExist
<1>4. g = [w \in SUBSET (DOMAIN s) |-> IF w = {} THEN 0 ELSE LET top == Max(w) IN g[w \ {top}] + s[top]]
    <2>1. DOMAIN s = 1..n /\ n \in Nat
        OBVIOUS
    <2>2. ASSUME NEW w \in SUBSET (1..n), w # {} PROVE step[<<Max(w), g[w \ {Max(w)}]>>] = g[w \ {Max(w)}] + s[Max(w)]
        <3>1. Max(w) \in 1..n
            <4>1. w \in SUBSET (0..n)
                BY <2>1
            <4> QED BY <2>1, <2>2, <4>1, MaxOf
        <3>2. g[w \ {Max(w)}] \in Nat
            OBVIOUS
        <3> QED BY <3>1, <3>2
    <2> HIDE DEF n, step
    <2> QED BY <2>1, <2>2, <1>3 DEF FoldOf
<1>5. sum = [w \in SUBSET (DOMAIN s) |-> IF w = {} THEN 0 ELSE LET top == Max(w) IN sum[w \ {top}] + s[top]]
    <2> HIDE DEF step
    <2> QED BY <1>4
<1> DEFINE f == [k \in 0..n |-> sum[1..k]]
<1>6. f[0] = 0 /\ \A k \in 1..n : f[k] = f[k - 1] + s[k]
    <2>1. DOMAIN s = 1..n /\ n \in Nat
        OBVIOUS
    <2>2. sum[1..0] = 0
        <3>1. 1..0 = {} /\ {} \in SUBSET (1..n)
            OBVIOUS
        <3> HIDE DEF sum, n
        <3> QED BY <1>5, <2>1, <3>1
    <2>3. ASSUME NEW k \in 1..n PROVE sum[1..k] = sum[1..(k - 1)] + s[k]
        <3> HIDE DEF sum, n
        <3>1. 1..k \in SUBSET (1..n) /\ 1..k # {} /\ Max(1..k) = k /\ (1..k) \ {k} = 1..(k - 1)
            BY <2>1, MaxUpTo
        <3> QED BY <1>5, <2>1, <3>1
    <2> HIDE DEF sum
    <2> QED BY <2>1, <2>2, <2>3
<1>7. \A k \in 0..n : f[k] \in Nat
    <2> DEFINE S == {k \in 0..n : f[k] \in Nat}
    <2>1. n \in Nat
        OBVIOUS
    <2>2. 0 \in S /\ \A k \in 1..n : k - 1 \in S => k \in S
        <3>1. \A k \in 1..n : s[k] \in Nat /\ k \in 0..n /\ k - 1 \in 0..n
            OBVIOUS
        <3>2. 0 \in 0..n
            BY <2>1
        <3> HIDE DEF f, n
        <3>3. ASSUME NEW k \in 1..n, f[k - 1] \in Nat PROVE f[k] \in Nat
            BY <1>6, <3>1, <3>3
        <3> QED BY <1>6, <3>1, <3>2, <3>3
    <2>3. \A k \in 0..n : k \in S
        <3> HIDE DEF S, n
        <3> QED BY <2>1, <2>2, UpTo
    <2> QED BY <2>3
<1>8. TextSum(s) = f[Len(s)] /\ f \in [0..n -> Nat]
    <2>1. DOMAIN s = 1..n /\ n \in 0..n
        OBVIOUS
    <2>2. f[n] = sum[1..n]
        BY <2>1
    <2> HIDE DEF sum
    <2> QED BY <1>1, <1>7, <2>1, <2>2
<1> HIDE DEF f
<1> QED BY <1>6, <1>8

\* A product of naturals is a natural.
LEMMA NatTimes == \A i, j \in Nat : i * j \in Nat
OBVIOUS

\* One more of the same in a product.
LEMMA NatSum == \A i, j \in Nat : (i + 1) * j = i * j + j
OBVIOUS

\* What is left when fewer are taken away than there are.
LEMMA NatBelow == \A k \in Nat : \A r \in 0..(k - 1) : r \in Nat /\ (k - 1) - r \in Nat
OBVIOUS

\* A sum where those of a set are at most one bound, and the others at most another.
LEMMA SumBound ==
    ASSUME NEW s \in Seq(Nat), NEW C \in SUBSET (DOMAIN s), NEW A \in Nat, NEW H \in Nat,
           \A i \in DOMAIN s : s[i] <= IF i \in C THEN A ELSE H
    PROVE  IsFiniteSet(C) /\ Cardinality(C) \in 0..Len(s)
           /\ TextSum(s) \in Nat /\ TextSum(s) <= Cardinality(C) * A + (Len(s) - Cardinality(C)) * H
<1> DEFINE n == Len(s)
           Upto(k) == C \cap 1..k
           size(k) == Cardinality(Upto(k))
           fits(k) == size(k) * A + (k - size(k)) * H
<1>1. n \in Nat /\ DOMAIN s = 1..n
    OBVIOUS
<1>2. PICK f \in [0..n -> Nat] : f[0] = 0 /\ (\A k \in 1..n : f[k] = f[k - 1] + s[k]) /\ TextSum(s) = f[n]
    BY SumSteps
<1>3. \A k \in 0..n : IsFiniteSet(Upto(k)) /\ size(k) \in 0..k
    <2> SUFFICES ASSUME NEW k \in 0..n PROVE IsFiniteSet(Upto(k)) /\ size(k) \in 0..k
        OBVIOUS
    <2>1. IsFiniteSet(1..k) /\ Cardinality(1..k) = k
        <3>1. k \in Nat
            BY <1>1
        <3>2. IsFiniteSet(1..k) /\ Cardinality(1..k) = IF 1 > k THEN 0 ELSE k - 1 + 1
            BY <3>1, FS_Interval
        <3> QED BY <3>1, <3>2
    <2>2. Upto(k) \subseteq 1..k
        OBVIOUS
    <2> HIDE DEF Upto
    <2>3. IsFiniteSet(Upto(k)) /\ Cardinality(Upto(k)) <= k /\ Cardinality(Upto(k)) \in Nat
        BY <2>1, <2>2, FS_Subset, FS_CardinalityType
    <2> QED BY <1>1, <2>3
<1>4. ASSUME NEW k \in 1..n PROVE size(k) = size(k - 1) + (IF k \in C THEN 1 ELSE 0)
    <2>1. k - 1 \in 0..n /\ k \notin Upto(k - 1)
        BY <1>1
    <2>2. CASE k \in C
        <3>1. Upto(k) = Upto(k - 1) \cup {k}
            BY <1>1, <2>2
        <3> HIDE DEF Upto
        <3>2. Cardinality(Upto(k - 1) \cup {k}) = Cardinality(Upto(k - 1)) + 1
            BY <1>3, <2>1, FS_AddElement
        <3> QED BY <2>2, <3>1, <3>2
    <2>3. CASE k \notin C
        <3>1. Upto(k) = Upto(k - 1)
            BY <1>1, <2>3
        <3>2. size(k - 1) \in Nat
            <4> HIDE DEF size
            <4>1. size(k - 1) \in 0..(k - 1)
                BY <1>3, <2>1
            <4> QED BY <4>1
        <3> HIDE DEF Upto
        <3> QED BY <2>3, <3>1, <3>2
    <2> QED BY <2>2, <2>3
<1>5. size(0) = 0
    <2>1. 0 \in 0..n
        BY <1>1
    <2> HIDE DEF size
    <2>2. size(0) \in 0..0
        BY <1>3, <2>1
    <2> QED BY <2>2
<1>6. \A k \in 0..n : f[k] <= fits(k)
    <2> DEFINE S == {k \in 0..n : f[k] <= fits(k)}
    <2>1. 0 \in S
        <3> HIDE DEF size
        <3> QED BY <1>1, <1>2, <1>5
    <2>2. ASSUME NEW k \in 1..n, k - 1 \in S PROVE k \in S
        <3>1. k - 1 \in 0..n /\ k \in 0..n /\ f[k - 1] \in Nat /\ f[k - 1] <= fits(k - 1) /\ s[k] \in Nat /\ k \in DOMAIN s /\ k \in Nat
            BY <1>1, <2>2
        <3>2. f[k] = f[k - 1] + s[k] /\ s[k] <= (IF k \in C THEN A ELSE H)
            BY <1>2, <3>1
        <3>3. size(k - 1) \in 0..(k - 1)
            <4> HIDE DEF size
            <4> QED BY <1>3, <3>1
        <3> HIDE DEF size
        <3>4. CASE k \in C
            <4>1. size(k) = size(k - 1) + 1
                BY <1>4, <3>4
            <4>2. size(k) * A = size(k - 1) * A + A
                BY <3>3, <4>1
            <4>3. k - size(k) = (k - 1) - size(k - 1)
                BY <3>3, <4>1, <3>1
            <4>4. size(k - 1) * A \in Nat /\ ((k - 1) - size(k - 1)) * H \in Nat
                <5>1. size(k - 1) \in Nat /\ (k - 1) - size(k - 1) \in Nat
                    BY <3>3, <3>1, NatBelow
                <5> HIDE DEF size
                <5> QED BY <5>1, NatTimes
            <4> DEFINE p == size(k - 1) * A
                       q == ((k - 1) - size(k - 1)) * H
            <4>5. fits(k) = p + A + q /\ fits(k - 1) = p + q
                BY <4>2, <4>3
            <4>6. f[k - 1] <= p + q /\ s[k] <= A /\ p \in Nat /\ q \in Nat
                BY <3>1, <3>2, <3>4, <4>4
            <4> HIDE DEF p, q, fits
            <4>7. f[k] <= fits(k)
                BY <3>1, <3>2, <4>5, <4>6
            <4> QED BY <3>1, <4>7
        <3>5. CASE k \notin C
            <4>1. size(k) = size(k - 1)
                BY <1>4, <3>5, <3>3
            <4>2. (k - size(k)) * H = ((k - 1) - size(k - 1)) * H + H
                <5>1. (k - 1) - size(k - 1) \in Nat
                    BY <3>1, <3>3, NatBelow
                <5>2. k - size(k) = ((k - 1) - size(k - 1)) + 1
                    BY <4>1, <3>1, <3>3
                <5> HIDE DEF size
                <5> QED BY <5>1, <5>2, NatSum
            <4>4. size(k - 1) * A \in Nat /\ ((k - 1) - size(k - 1)) * H \in Nat
                <5>1. size(k - 1) \in Nat /\ (k - 1) - size(k - 1) \in Nat
                    BY <3>3, <3>1, NatBelow
                <5> HIDE DEF size
                <5> QED BY <5>1, NatTimes
            <4> DEFINE p == size(k - 1) * A
                       q == ((k - 1) - size(k - 1)) * H
            <4>5. fits(k) = p + (q + H) /\ fits(k - 1) = p + q
                BY <4>1, <4>2
            <4>6. f[k - 1] <= p + q /\ s[k] <= H /\ p \in Nat /\ q \in Nat
                BY <3>1, <3>2, <3>5, <4>4
            <4> HIDE DEF p, q, fits
            <4>7. f[k] <= fits(k)
                BY <3>1, <3>2, <4>5, <4>6
            <4> QED BY <3>1, <4>7
        <3> QED BY <3>4, <3>5
    <2> HIDE DEF fits
    <2>3. \A k \in 0..n : k \in S
        <3> HIDE DEF S, n
        <3> QED BY <1>1, <2>1, <2>2, UpTo
    <2> QED BY <2>3
<1>7. C = Upto(n) /\ n \in 0..n
    BY <1>1
<1>8. IsFiniteSet(C) /\ Cardinality(C) \in 0..n
    <2> HIDE DEF Upto
    <2> QED BY <1>3, <1>7
<1>9. f[n] \in Nat /\ f[n] <= Cardinality(C) * A + (n - Cardinality(C)) * H
    <2> HIDE DEF Upto, n
    <2> QED BY <1>6, <1>7
<1> QED BY <1>2, <1>8, <1>9


-----------------------------------------------------------------------------
(* CodeMode: the types of the calls, and what holds of every answer: no key  *)
(* is lost in a folded request, and no reply is longer than its cap.         *)
\* What code mode knows of a call of a script.
CallRecord == [at : {"pending", "done", "failed"}, length : Lengths \cup {0}, file : {"none", "spool"}]

\* The properties of code mode, and the type of its calls, make the inductive invariant.
CodeInv == calls \in Seq(CallRecord) /\ CodeModeInv

\* The total length of texts is a length.
LEMMA SumIsNat == \A s \in Seq(Nat) : TextSum(s) \in Nat
<1> SUFFICES ASSUME NEW s \in Seq(Nat) PROVE TextSum(s) \in Nat
    OBVIOUS
<1>1. PICK f \in [0..Len(s) -> Nat] : TextSum(s) = f[Len(s)]
    BY SumSteps
<1>2. Len(s) \in 0..Len(s)
    OBVIOUS
<1> QED BY <1>1, <1>2

\* What a folded request sends are names the code knows.
LEMMA FoldingSends ==
    ASSUME NEW g \in Given
    PROVE  Sent(g) \cup (g.flat \cap TopKeys) \cup {"sent"} \subseteq TopKeys \cup Fields \cup Others \cup {"body", "sent"}
<1>1. g.flat \subseteq (TopKeys \cup Fields \cup Loose \cup Others) /\ g.inner \subseteq (Fields \cup Others \cup {"body"})
    BY DEF Given
<1>2. Prose \in Fields
    BY ModeBounds
<1>3. Body(g) \subseteq Fields \cup Loose \cup Others \cup {"body"}
    BY <1>1, <1>2 DEF Body, Gathered
<1>4. Hoisted(Body(g)) \subseteq Fields \cup Loose \cup Others \cup {"body"}
    BY <1>2, <1>3 DEF Hoisted
<1> QED BY <1>4 DEF Sent

\* Code mode starts with no call.
LEMMA CodeStarts == ModeInit => CodeInv
<1> SUFFICES ASSUME ModeInit PROVE CodeInv
    OBVIOUS
<1>1. calls \in Seq(CallRecord) /\ DOMAIN calls = {}
    BY DEF ModeInit
<1>2. answer.text.length = 0 /\ answer.kind = "none" /\ fold.keys = {}
    BY DEF ModeInit, NoAnswer, NoText
<1>3. ModeTypeOK /\ FoldKeepsKeys /\ PartsFit
    BY <1>1, <1>2 DEF ModeInit, ModeTypeOK, FoldKeepsKeys, PartsFit
<1>4. WithinCap
    BY <1>2, ModeBounds DEF WithinCap
<1> QED BY <1>1, <1>3, <1>4 DEF CodeInv, CodeModeInv

\* capSlice: a text that is cut has its notice within the cap, when the notice has room.
LEMMA CappedIs ==
    ASSUME NEW length \in Nat, NEW cap \in Nat, NEW reserve \in Nat, NEW file
    PROVE  /\ Capped(length, cap, reserve, file).length \in Nat
           /\ cap >= reserve + CutNotice => Capped(length, cap, reserve, file).length + reserve <= cap
<1>1. CutNotice \in Nat /\ CutNotice > 0
    BY ModeBounds
<1> DEFINE room == AtLeast(Less(cap, reserve), 1)
<1>2. room \in Nat /\ (cap >= reserve + CutNotice => room + reserve = cap /\ room >= CutNotice)
    BY <1>1 DEF AtLeast, Less
<1>3. CASE length <= room
    <2>1. Capped(length, cap, reserve, file).length = length
        BY <1>3 DEF Capped
    <2> HIDE DEF room
    <2> QED BY <1>2, <1>3, <2>1, <1>1
<1>4. CASE ~(length <= room)
    <2>1. Capped(length, cap, reserve, file).length = Less(room, CutNotice) + CutNotice
        BY <1>4 DEF Capped
    <2> HIDE DEF room
    <2>2. Less(room, CutNotice) \in Nat /\ (room >= CutNotice => Less(room, CutNotice) + CutNotice = room)
        BY <1>1, <1>2 DEF Less
    <2> QED BY <1>1, <1>2, <2>1, <2>2
<1> QED BY <1>3, <1>4

\* A text and the block put after it stay within the cap of a reply.
LEMMA ContinuedIs ==
    ASSUME NEW length \in Nat, NEW tail \in {0, Block}, NEW file
    PROVE  /\ Continued(length, tail, file).length \in Nat
           /\ TextCap >= CutNotice + Block => Continued(length, tail, file).length <= TextCap
<1>1. {TextCap, Block, CutNotice, tail} \subseteq Nat /\ tail <= Block
    BY ModeBounds
<1>2. CASE length + tail <= TextCap
    <2>1. Continued(length, tail, file).length = length + tail
        BY <1>2 DEF Continued
    <2> QED BY <1>1, <1>2, <2>1
<1>3. CASE ~(length + tail <= TextCap)
    <2> DEFINE body == Capped(length, TextCap, tail, file)
    <2>1. body.length \in Nat /\ (TextCap >= tail + CutNotice => body.length + tail <= TextCap)
        BY <1>1, CappedIs
    <2>2. body = [length |-> body.length, cut |-> body.cut, file |-> body.file]
        BY DEF Capped
    <2>3. Continued(length, tail, file) = [body EXCEPT !.length = @ + tail]
        BY <1>3 DEF Continued
    <2> HIDE DEF body
    <2>4. Continued(length, tail, file).length = body.length + tail
        BY <2>2, <2>3
    <2> QED BY <1>1, <2>1, <2>4
<1> QED BY <1>2, <1>3

\* Each key of a request is sent in some place or refused (foldTopLevelIntoBody).
LEMMA FoldingKeeps ==
    ASSUME NEW g \in Given
    PROVE  LET inner == IF g.kind \in {"object", "json"} THEN g.inner ELSE {}
           IN ~g.raw /\ g.kind \notin {"broken", "list"} =>
                 Hoisted(g.flat \cup inner) \ Loose \subseteq Sent(g) \cup (g.flat \cap TopKeys) \cup {"sent"}
<1> DEFINE inner == IF g.kind \in {"object", "json"} THEN g.inner ELSE {}
<1> SUFFICES ASSUME ~g.raw, g.kind \notin {"broken", "list"}
             PROVE  Hoisted(g.flat \cup inner) \ Loose \subseteq Sent(g) \cup (g.flat \cap TopKeys) \cup {"sent"}
    OBVIOUS
<1>1. g.kind \in {"none", "object", "text", "json"} /\ g.flat \subseteq (TopKeys \cup Fields \cup Loose \cup Others)
    BY DEF Given
<1>2. "body" \notin g.flat /\ Prose \notin TopKeys
    BY <1>1, ModeBounds
<1> DEFINE rest == g.flat \ TopKeys
<1>3. Body(g) = rest \cup inner \/ (Body(g) = rest \cup {Prose} /\ inner = {})
    <2>1. CASE g.kind = "text"
        BY <2>1 DEF Body
    <2>2. CASE g.kind = "none"
        BY <2>2 DEF Body
    <2>3. CASE g.kind \in {"object", "json"}
        <3>1. inner = g.inner
            BY <2>3
        <3>2. Body(g) = rest \cup g.inner
            BY <2>3 DEF Body, Gathered
        <3> QED BY <3>1, <3>2
    <2> QED BY <1>1, <2>1, <2>2, <2>3
<1>4. Hoisted(g.flat \cup inner) \subseteq Hoisted(Body(g)) \cup (g.flat \cap TopKeys)
    <2>1. CASE Body(g) = rest \cup {Prose} /\ inner = {}
        BY <1>2, <2>1 DEF Hoisted
    <2>2. CASE Body(g) = rest \cup inner
        <3> HIDE DEF inner
        <3> QED BY <1>2, <2>2 DEF Hoisted
    <2> QED BY <1>3, <2>1, <2>2
<1> HIDE DEF inner
<1> QED BY <1>4 DEF Sent

\* A share of what is divided is at least what there is enough of for all.
LEMMA DivisionLeaves == ASSUME NEW X \in Nat, NEW k \in Nat, k > 0
    PROVE X \div k \in Nat /\ k * (X \div k) <= X /\ \A j \in Nat : k * j <= X => j <= X \div k
OBVIOUS

\* The calls that were answered can be counted.
LEMMA DoneIsFinite == calls \in Seq(CallRecord) => IsFiniteSet(Done) /\ Cardinality(Done) \in Nat /\ Done \subseteq DOMAIN calls
<1> SUFFICES ASSUME calls \in Seq(CallRecord) PROVE IsFiniteSet(Done) /\ Cardinality(Done) \in Nat /\ Done \subseteq DOMAIN calls
    OBVIOUS
<1>1. Done \subseteq DOMAIN calls /\ DOMAIN calls = 1..Len(calls) /\ Len(calls) \in Nat
    BY DEF Done
<1>2. IsFiniteSet(DOMAIN calls)
    BY <1>1, FS_Interval
<1> QED BY <1>1, <1>2, FS_Subset, FS_CardinalityType

\* The budget of a part is a length.
LEMMA BudgetIsNat ==
    ASSUME IsFiniteSet(Done), Cardinality(Done) \in Nat
    PROVE  PartBudget \in Nat /\ AtLeast(PartBudget, CutNotice) \in Nat
<1>1. {TextCap, BlockReserve, CutNotice, HeadMax, PartMin} \subseteq Nat
    BY ModeBounds
<1> DEFINE share == Less(TextCap, BlockReserve) \div AtLeast(Cardinality(Done), 1)
<1>2. Less(TextCap, BlockReserve) \in Nat /\ AtLeast(Cardinality(Done), 1) \in Nat \ {0}
    BY <1>1 DEF Less, AtLeast
<1>3. share \in Nat
    BY <1>2, DivisionLeaves
<1> HIDE DEF share
<1>4. AtLeast(Less(share, HeadMax), PartMin) \in Nat
    BY <1>1, <1>3 DEF Less, AtLeast
<1>5. PartBudget \in Nat
    BY <1>4 DEF PartBudget, share
<1> QED BY <1>1, <1>5 DEF AtLeast

\* The part of a call in the reply of a script that failed: its head, and no more text than the budget.
LEMMA PartIs ==
    ASSUME calls \in Seq(CallRecord), NEW i \in DOMAIN calls, NEW spills, NEW whole
    PROVE  /\ Part(calls[i], spills, whole).length \in Nat
           /\ Part(calls[i], spills, whole).length <= IF i \in Done THEN HeadMax + AtLeast(PartBudget, CutNotice) ELSE HeadMax
<1>1. {TextCap, BlockReserve, CutNotice, HeadMax, PartMin} \subseteq Nat /\ Lengths \subseteq Nat
    BY ModeBounds
<1>2. calls[i] \in CallRecord
    OBVIOUS
<1>3. calls[i].length \in Nat /\ (i \in Done <=> calls[i].at = "done")
    <2>1. calls[i].length \in Lengths \cup {0}
        BY <1>2 DEF CallRecord
    <2>2. calls[i].length \in Nat
        <3>1. Lengths \subseteq Nat
            BY <1>1
        <3> DEFINE n == calls[i].length
        <3>2. n \in Lengths \cup {0} => n \in Nat
            BY <3>1
        <3> HIDE DEF n
        <3> QED BY <2>1, <3>2 DEF n
    <2>3. i \in Done <=> calls[i].at = "done"
        BY DEF Done
    <2> QED BY <2>2, <2>3
<1>4. PartBudget \in Nat
    <2>1. IsFiniteSet(Done) /\ Cardinality(Done) \in Nat
        BY DoneIsFinite
    <2> QED BY <2>1, BudgetIsNat
<1>5. Less(PartBudget, CutNotice) + CutNotice = AtLeast(PartBudget, CutNotice) /\ AtLeast(PartBudget, CutNotice) \in Nat
      /\ PartBudget <= AtLeast(PartBudget, CutNotice)
    <2> DEFINE P == PartBudget
    <2> HIDE DEF P
    <2>1. P \in Nat => Less(P, CutNotice) + CutNotice = AtLeast(P, CutNotice) /\ AtLeast(P, CutNotice) \in Nat /\ P <= AtLeast(P, CutNotice)
        BY <1>1 DEF Less, AtLeast
    <2> QED BY <1>4, <2>1 DEF P
<1>6. CASE calls[i].at # "done"
    <2>1. Part(calls[i], spills, whole).length = HeadMax
        <3>1. [NoText EXCEPT !.length = HeadMax].length = HeadMax
            BY DEF NoText
        <3>2. Part(calls[i], spills, whole) = [NoText EXCEPT !.length = HeadMax]
            BY <1>6 DEF Part
        <3> QED BY <3>1, <3>2
    <2> QED BY <1>1, <1>3, <1>6, <2>1
<1>7. CASE calls[i].at = "done" /\ calls[i].length > PartBudget
    <2>1. Part(calls[i], spills, whole).length = HeadMax + Less(PartBudget, CutNotice) + CutNotice
        BY <1>7 DEF Part
    <2>2. Less(PartBudget, CutNotice) \in Nat
        BY <1>1, <1>4 DEF Less
    <2>3. Part(calls[i], spills, whole).length = HeadMax + AtLeast(PartBudget, CutNotice)
        BY <1>1, <1>5, <2>1, <2>2
    <2> QED BY <1>1, <1>3, <1>5, <1>7, <2>3
<1>8. CASE calls[i].at = "done" /\ ~(calls[i].length > PartBudget)
    <2>1. Part(calls[i], spills, whole).length = IF whole THEN HeadMax + calls[i].length ELSE HeadMax
        BY <1>8 DEF Part, NoText
    <2>2. Part(calls[i], spills, whole).length = HeadMax + calls[i].length \/ Part(calls[i], spills, whole).length = HeadMax
        BY <2>1
    <2>3. calls[i].length <= AtLeast(PartBudget, CutNotice)
        BY <1>3, <1>4, <1>5, <1>8
    <2> QED BY <1>1, <1>3, <1>5, <1>8, <2>2, <2>3
<1> QED BY <1>6, <1>7, <1>8

\* The budgets of the parts together leave room for the block, when the cap has room for the least of each.
LEMMA PartsShare ==
    ASSUME NEW k \in Nat, IsFiniteSet(Done), Cardinality(Done) = k,
           TextCap >= BlockReserve + k * (AtLeast(PartMin, CutNotice) + HeadMax)
    PROVE  k * (HeadMax + AtLeast(PartBudget, CutNotice)) <= TextCap - BlockReserve
<1>1. {TextCap, BlockReserve, CutNotice, HeadMax, PartMin} \subseteq Nat
    BY ModeBounds
<1> DEFINE least == AtLeast(PartMin, CutNotice)
           room == TextCap - BlockReserve
<1>2. least \in Nat /\ PartMin <= least /\ CutNotice <= least
    BY <1>1 DEF AtLeast
<1>3. k * (least + HeadMax) \in Nat /\ TextCap >= BlockReserve + k * (least + HeadMax)
    <2>1. least + HeadMax \in Nat
        BY <1>1, <1>2
    <2> HIDE DEF least
    <2>2. k * (least + HeadMax) \in Nat
        BY <2>1, NatTimes
    <2> QED BY <2>2 DEF least
<1>4. room \in Nat /\ k * (least + HeadMax) <= room /\ Less(TextCap, BlockReserve) = room
    <2> DEFINE need == k * (least + HeadMax)
    <2>1. need \in Nat /\ TextCap >= BlockReserve + need
        BY <1>3
    <2> HIDE DEF need, least
    <2>2. TextCap - BlockReserve \in Nat /\ need <= TextCap - BlockReserve /\ Less(TextCap, BlockReserve) = TextCap - BlockReserve
        BY <1>1, <2>1 DEF Less
    <2> QED BY <2>2 DEF need
<1>5. CASE k = 0
    <2>1. AtLeast(PartBudget, CutNotice) \in Nat
        BY BudgetIsNat
    <2> HIDE DEF room
    <2>2. HeadMax + AtLeast(PartBudget, CutNotice) \in Nat
        BY <1>1, <2>1
    <2>3. k * (HeadMax + AtLeast(PartBudget, CutNotice)) = 0
        BY <1>5, <2>2
    <2> QED BY <1>4, <2>3 DEF room
<1>6. CASE k > 0
    <2> DEFINE share == room \div k
    <2>1. share \in Nat /\ k * share <= room /\ least + HeadMax <= share
        <3>1. least + HeadMax \in Nat /\ k * (least + HeadMax) <= room
            BY <1>1, <1>2, <1>4
        <3> HIDE DEF room, least
        <3> QED BY <1>4, <1>6, <3>1, DivisionLeaves
    <2>2. AtLeast(k, 1) = k
        BY <1>6 DEF AtLeast
    <2>3. PartBudget = AtLeast(Less(share, HeadMax), PartMin)
        BY <1>4, <2>2 DEF PartBudget
    <2> HIDE DEF share, least, room
    <2>4. HeadMax + AtLeast(PartBudget, CutNotice) = share
        BY <1>1, <1>2, <2>1, <2>3 DEF AtLeast, Less
    <2> QED BY <2>1, <2>4 DEF room
<1> QED BY <1>5, <1>6

\* Each step of code mode: a request is folded, a call is made or answered, the script returns or fails.
LEMMA CodeStep == CodeInv /\ ModeNext => CodeInv'
<1> SUFFICES ASSUME CodeInv, ModeNext PROVE CodeInv'
    OBVIOUS
<1>1. calls \in Seq(CallRecord) /\ ModeTypeOK /\ FoldKeepsKeys /\ WithinCap /\ PartsFit
    BY DEF CodeInv, CodeModeInv
<1>2. {TextCap, Block, BlockReserve, CutNotice, HeadMax, Heading} \subseteq Nat /\ Lengths \subseteq Nat
    BY ModeBounds
<1>3. IsFiniteSet(Done) /\ Cardinality(Done) \in Nat /\ Done \subseteq DOMAIN calls
    BY <1>1, DoneIsFinite
<1>4. \A i \in DOMAIN calls : calls[i] \in CallRecord /\ calls[i].length \in Nat
    <2> SUFFICES ASSUME NEW i \in DOMAIN calls PROVE calls[i] \in CallRecord /\ calls[i].length \in Nat
        OBVIOUS
    <2>1. calls[i] \in CallRecord
        BY <1>1
    <2>2. calls[i].length \in Lengths \cup {0}
        BY <2>1 DEF CallRecord
    <2>3. calls[i].length \in Nat
        <3>1. Lengths \subseteq Nat
            BY <1>2
        <3> DEFINE n == calls[i].length
        <3>2. n \in Lengths \cup {0} => n \in Nat
            BY <3>1
        <3> HIDE DEF n
        <3> QED BY <2>2, <3>2 DEF n
    <2> QED BY <2>1, <2>3
<1>5. ASSUME calls' \in Seq(CallRecord), UNCHANGED <<answer, fold>>, script' \in {"runs", "returned", "threw", "cut"}
      PROVE  CodeInv'
    <2>1. ModeTypeOK'
        <3>1. \A i \in DOMAIN calls' : calls'[i].at \in {"pending", "done", "failed"} /\ calls'[i].length \in Lengths \cup {0}
            <4> SUFFICES ASSUME NEW i \in DOMAIN calls' PROVE calls'[i].at \in {"pending", "done", "failed"} /\ calls'[i].length \in Lengths \cup {0}
                OBVIOUS
            <4>1. calls'[i] \in CallRecord
                BY <1>5
            <4> QED BY <4>1 DEF CallRecord
        <3> QED BY <1>1, <1>5, <3>1 DEF ModeTypeOK
    <2>2. FoldKeepsKeys' /\ WithinCap' /\ PartsFit'
        BY <1>1, <1>5 DEF FoldKeepsKeys, WithinCap, PartsFit
    <2> QED BY <1>5, <2>1, <2>2 DEF CodeInv, CodeModeInv
<1>6. ASSUME NEW g \in Given, Folds(g) PROVE CodeInv'
    <2>1. fold' = [given |-> g, keys |-> Sent(g) \cup (g.flat \cap TopKeys) \cup {"sent"}, refused |-> Refused(g)]
          /\ script' = script /\ calls' = calls /\ answer' = answer
        BY <1>6 DEF Folds
    <2>2. fold'.given = g /\ fold'.keys = Sent(g) \cup (g.flat \cap TopKeys) \cup {"sent"}
        BY <2>1
    <2>3. FoldKeepsKeys'
        BY <2>2, FoldingKeeps DEF FoldKeepsKeys
    <2>4. fold'.keys \subseteq TopKeys \cup Fields \cup Others \cup {"body", "sent"}
        BY <2>2, FoldingSends
    <2>5. ModeTypeOK'
        BY <1>1, <2>1, <2>4 DEF ModeTypeOK
    <2>6. WithinCap' /\ PartsFit'
        BY <1>1, <2>1 DEF WithinCap, PartsFit
    <2> QED BY <1>1, <2>1, <2>3, <2>5, <2>6 DEF CodeInv, CodeModeInv
<1>7. CASE BodyCalls
    <2>1. CASE calls' = calls
        BY <1>1, <1>5, <1>7, <2>1 DEF BodyCalls, ModeTypeOK
    <2>2. ASSUME NEW at \in {"pending", "failed"}, calls' = Append(calls, [at |-> at, length |-> 0, file |-> "none"]) PROVE CodeInv'
        <3>1. [at |-> at, length |-> 0, file |-> "none"] \in CallRecord
            BY DEF CallRecord
        <3>2. calls' \in Seq(CallRecord)
            BY <1>1, <2>2, <3>1
        <3> QED BY <1>1, <1>5, <1>7, <3>2 DEF BodyCalls, ModeTypeOK
    <2> QED BY <1>7, <2>1, <2>2 DEF BodyCalls
<1>8. ASSUME NEW i \in DOMAIN calls, Settles(i) PROVE CodeInv'
    <2>1. calls' \in Seq(CallRecord)
        <3>1. ASSUME NEW n \in Lengths, NEW file \in {"none", "spool"}, calls' = [calls EXCEPT ![i] = [at |-> "done", length |-> n, file |-> file]]
              PROVE  calls' \in Seq(CallRecord)
            <4>1. [at |-> "done", length |-> n, file |-> file] \in CallRecord
                BY DEF CallRecord
            <4> QED BY <1>1, <3>1, <4>1
        <3>2. CASE calls' = [calls EXCEPT ![i].at = "failed"]
            <4>1. [calls[i] EXCEPT !.at = "failed"] \in CallRecord
                BY <1>4 DEF CallRecord
            <4>2. calls' = [calls EXCEPT ![i] = [calls[i] EXCEPT !.at = "failed"]]
                BY <3>2
            <4> QED BY <1>1, <4>1, <4>2
        <3> QED BY <1>8, <3>1, <3>2 DEF Settles
    <2> QED BY <1>1, <1>5, <1>8, <2>1 DEF Settles, ModeTypeOK
<1>9. ASSUME script' \in {"runs", "returned", "threw", "cut"}, UNCHANGED <<calls, fold>>,
             answer'.text.length \in Nat, WithinCap', PartsFit'
      PROVE  CodeInv'
    <2>1. ModeTypeOK' /\ FoldKeepsKeys'
        BY <1>1, <1>9 DEF ModeTypeOK, FoldKeepsKeys
    <2> QED BY <1>1, <1>9, <2>1 DEF CodeInv, CodeModeInv
<1>10. CASE Returns
    <2> DEFINE replies == [i \in DOMAIN calls |-> IF i \in Done THEN Capped(calls[i].length, TextCap, 0, calls[i].file).length ELSE 0]
    <2>1. PICK n \in Lengths, tail \in {0, Block}, file \in {"none", "spool"}, object \in BOOLEAN, nothing \in BOOLEAN :
             LET length == IF nothing THEN AtLeast(TextSum(replies), 1) ELSE n
                 rest == IF length > TextCap THEN "spill" ELSE "none"
                 named == IF nothing \/ file = "none" THEN rest ELSE file
             IN answer' = [text |-> IF object THEN Capped(length, TextCap, 0, named) ELSE Continued(length, tail, named),
                           parts |-> <<>>, done |-> Cardinality(Done), kind |-> "value"]
        BY <1>10 DEF Returns
    <2> DEFINE length == IF nothing THEN AtLeast(TextSum(replies), 1) ELSE n
    <2>2. length \in Nat
        <3>1. replies \in Seq(Nat)
            <4>1. DOMAIN calls = 1..Len(calls) /\ Len(calls) \in Nat
                BY <1>1
            <4>2. \A i \in DOMAIN calls : Capped(calls[i].length, TextCap, 0, calls[i].file).length \in Nat
                BY <1>2, <1>4, CappedIs
            <4> QED BY <4>1, <4>2
        <3>2. TextSum(replies) \in Nat
            <4> HIDE DEF replies
            <4> QED BY <3>1, SumIsNat
        <3> HIDE DEF replies
        <3>3. AtLeast(TextSum(replies), 1) \in Nat
            BY <3>2 DEF AtLeast
        <3> QED BY <1>2, <3>3
    <2> HIDE DEF length, replies
    <2>3. PICK named : answer' = [text |-> IF object THEN Capped(length, TextCap, 0, named) ELSE Continued(length, tail, named),
                                  parts |-> <<>>, done |-> Cardinality(Done), kind |-> "value"]
        BY <2>1 DEF length
    <2>4. answer'.text = (IF object THEN Capped(length, TextCap, 0, named) ELSE Continued(length, tail, named)) /\ answer'.kind = "value"
        BY <2>3
    <2>5. answer'.text.length \in Nat /\ (TextCap >= CutNotice + Block => answer'.text.length <= TextCap)
        <3>1. CASE object
            <4>1. Capped(length, TextCap, 0, named).length \in Nat
                  /\ (TextCap >= 0 + CutNotice => Capped(length, TextCap, 0, named).length + 0 <= TextCap)
                BY <1>2, <2>2, CappedIs
            <4>2. answer'.text = Capped(length, TextCap, 0, named)
                BY <2>4, <3>1
            <4>3. TextCap >= CutNotice + Block => TextCap >= 0 + CutNotice
                BY <1>2
            <4> DEFINE l == Capped(length, TextCap, 0, named).length
            <4> HIDE DEF l
            <4>4. l \in Nat /\ (TextCap >= 0 + CutNotice => l + 0 <= TextCap)
                BY <4>1 DEF l
            <4>5. l \in Nat /\ (TextCap >= CutNotice + Block => l <= TextCap)
                BY <4>3, <4>4
            <4> QED BY <4>2, <4>5 DEF l
        <3>2. CASE ~object
            <4>1. answer'.text = Continued(length, tail, named)
                BY <2>4, <3>2
            <4> QED BY <2>2, <4>1, ContinuedIs
        <3> QED BY <3>1, <3>2
    <2> QED BY <1>9, <1>10, <2>4, <2>5 DEF Returns, WithinCap, PartsFit
<1>11. ASSUME NEW how \in {"threw", "cut"}, Fails(how) PROVE CodeInv'
    <2>1. PICK spills \in BOOLEAN, whole \in BOOLEAN, tail \in {0, Block} :
             LET parts == [i \in DOMAIN calls |-> Part(calls[i], spills, whole)]
                 length == Heading + TextSum([i \in DOMAIN parts |-> parts[i].length])
             IN answer' = [text |-> Continued(length, tail, "none"), parts |-> parts, done |-> Cardinality(Done),
                           kind |-> IF calls = <<>> THEN "error" ELSE "partial"]
        BY <1>11 DEF Fails
    <2> DEFINE parts == [i \in DOMAIN calls |-> Part(calls[i], spills, whole)]
               lengths == [i \in DOMAIN parts |-> parts[i].length]
               length == Heading + TextSum(lengths)
               share == HeadMax + AtLeast(PartBudget, CutNotice)
    <2>2. DOMAIN calls = 1..Len(calls) /\ Len(calls) \in Nat /\ DOMAIN parts = DOMAIN calls /\ DOMAIN lengths = DOMAIN calls
        BY <1>1
    <2>3. \A i \in DOMAIN calls : lengths[i] \in Nat /\ lengths[i] <= IF i \in Done THEN share ELSE HeadMax
        BY <1>1, PartIs
    <2>4. share \in Nat
        <3>1. AtLeast(PartBudget, CutNotice) \in Nat
            BY <1>3, BudgetIsNat
        <3> QED BY <1>2, <3>1
    <2>5. lengths \in Seq(Nat) /\ Len(lengths) = Len(calls)
        <3> DEFINE k == Len(calls)
        <3>1. lengths = [i \in 1..k |-> lengths[i]] /\ \A i \in 1..k : lengths[i] \in Nat
            BY <2>2, <2>3
        <3>2. k \in Nat
            BY <2>2
        <3> HIDE DEF lengths, k
        <3>3. lengths \in [1..k -> Nat]
            BY <3>1
        <3> QED BY <3>2, <3>3 DEF k
    <2>6. Cardinality(Done) \in 0..Len(lengths) /\ TextSum(lengths) \in Nat
          /\ TextSum(lengths) <= Cardinality(Done) * share + (Len(lengths) - Cardinality(Done)) * HeadMax
        <3>1. Done \in SUBSET (DOMAIN lengths) /\ HeadMax \in Nat
            BY <1>2, <1>3, <2>2
        <3>2. \A i \in DOMAIN lengths : lengths[i] <= IF i \in Done THEN share ELSE HeadMax
            BY <2>2, <2>3
        <3> HIDE DEF lengths, share
        <3> QED BY <2>4, <2>5, <3>1, <3>2, SumBound
    <2>7. answer' = [text |-> Continued(length, tail, "none"), parts |-> parts, done |-> Cardinality(Done),
                     kind |-> IF calls = <<>> THEN "error" ELSE "partial"]
        BY <2>1
    <2>8. answer'.text = Continued(length, tail, "none") /\ answer'.parts = parts /\ answer'.done = Cardinality(Done)
        <3> HIDE DEF length, parts
        <3> QED BY <2>7
    <2>9. answer'.text.length \in Nat /\ WithinCap'
        <3>1. length \in Nat
            <4> HIDE DEF lengths
            <4> QED BY <1>2, <2>6
        <3> HIDE DEF length, parts
        <3> QED BY <2>8, <3>1, ContinuedIs DEF WithinCap
    <2>10. PartsFit'
        <3>1. [i \in DOMAIN answer'.parts |-> answer'.parts[i].length] = lengths
            <4> HIDE DEF parts
            <4> QED BY <2>8
        <3> DEFINE k == Cardinality(Done)
        <3>2. TextCap >= BlockReserve + k * (AtLeast(PartMin, CutNotice) + HeadMax) => k * share <= TextCap - BlockReserve
            BY <1>3, PartsShare
        <3>3. TextCap >= BlockReserve + k * (AtLeast(PartMin, CutNotice) + HeadMax)
                 => TextSum(lengths) <= TextCap - BlockReserve + (Len(lengths) - k) * HeadMax
            <4> DEFINE n == TextSum(lengths)
                       p == k * share
                       q == (Len(lengths) - k) * HeadMax
            <4>1. k \in Nat /\ Len(lengths) - k \in Nat
                <5> DEFINE l == Len(lengths)
                <5> HIDE DEF lengths, l
                <5>1. l \in Nat
                    BY <2>5 DEF l
                <5>2. k \in 0..l => k \in Nat /\ l - k \in Nat
                    BY <5>1
                <5> QED BY <2>6, <5>2 DEF l
            <4>2. n \in Nat /\ p \in Nat /\ q \in Nat /\ n <= p + q
                <5> HIDE DEF lengths, share
                <5> QED BY <1>2, <2>4, <2>6, <4>1, NatTimes
            <4>3. {TextCap, BlockReserve} \subseteq Nat
                BY <1>2
            <4> HIDE DEF n, p, q, lengths, share, k
            <4>4. p <= TextCap - BlockReserve => n <= TextCap - BlockReserve + q
                BY <4>2, <4>3
            <4> QED BY <3>2, <4>4 DEF n, p, q
        <3> HIDE DEF lengths, parts
        <3> QED BY <2>8, <3>1, <3>3 DEF PartsFit
    <2> HIDE DEF length, parts, lengths
    <2> QED BY <1>9, <1>11, <2>9, <2>10 DEF Fails
<1> QED BY <1>6, <1>7, <1>8, <1>10, <1>11 DEF ModeNext, CutByDeadline

-----------------------------------------------------------------------------
(* ReplyPages: the pages of a reader link, by lines and by characters, and a *)
(* cut reply says that it was cut.                                           *)

\* The pages a reader has of a reply file follow each other, and its next page follows them.
PagesLink ==
    /\ pages \in Seq(Nat \X Nat)
    /\ pages = <<>> => reader.want = 1 /\ ~reader.done
    /\ pages # <<>> => pages[1][1] = 1
                       /\ (IF reader.done THEN pages[Len(pages)][2] = Total ELSE pages[Len(pages)][2] + 1 = reader.want)
    /\ \A i \in 1..Len(pages) - 1 : pages[i + 1][1] = pages[i][2] + 1

\* The reader of lines, and its pages.
PagesRead == reader \in [want : 1..Total, cap : Caps, done : BOOLEAN] /\ PagesLink

\* The sizes the paging of replies is bounded by.
LEMMA PagesFacts ==
    /\ Total \in Nat /\ Total > 0 /\ Chars \in Nat /\ Caps \subseteq Nat /\ Limits \subseteq Nat \ {0}
    /\ Max(Caps) \in Caps
    /\ Notices \in Seq(Nat \ {0}) /\ Len(Notices) > 1
<1>1. Total \in Nat
    BY PageBounds DEF Total
<1>2. Max(Caps) \in Caps
    <2>1. PICK largest \in Caps : \A cap \in Caps : cap <= largest
        BY PageBounds
    <2>2. \E v \in Caps : \A u \in Caps : v >= u
        BY <2>1, PageBounds
    <2> QED BY <2>2 DEF Max
<1> QED BY <1>1, <1>2, PageBounds

\* One more interval put to those that are there.
LEMMA IntervalAdded ==
    ASSUME NEW list \in Seq(Nat \X Nat), NEW gap \in Nat, NEW from \in Nat, NEW to \in Nat,
           list # <<>> => from = list[Len(list)][2] + gap,
           \A i \in 1..Len(list) - 1 : list[i + 1][1] = list[i][2] + gap
    PROVE  LET more == Append(list, <<from, to>>)
           IN  /\ more \in Seq(Nat \X Nat) /\ more # <<>> /\ more[Len(more)] = <<from, to>>
               /\ more[1][1] = IF list = <<>> THEN from ELSE list[1][1]
               /\ \A i \in 1..Len(more) - 1 : more[i + 1][1] = more[i][2] + gap
<1> DEFINE more == Append(list, <<from, to>>)
<1> DEFINE pair == <<from, to>>
<1>0. pair \in Nat \X Nat /\ more = Append(list, pair)
    OBVIOUS
<1>1. Len(list) \in Nat /\ Len(more) = Len(list) + 1 /\ more[Len(list) + 1] = <<from, to>> /\ \A i \in 1..Len(list) : more[i] = list[i]
    <2> HIDE DEF pair, more
    <2>1. Len(list) \in Nat /\ Len(more) = Len(list) + 1 /\ more[Len(list) + 1] = pair /\ \A i \in 1..Len(list) : more[i] = list[i]
        BY <1>0
    <2> QED BY <2>1 DEF pair
<1>2. more \in Seq(Nat \X Nat) /\ more # <<>>
    <2> HIDE DEF pair
    <2>1. Append(list, pair) \in Seq(Nat \X Nat) /\ Append(list, pair) # <<>>
        BY <1>0, AppendProperties
    <2> QED BY <1>0, <2>1
<1>3. more[1][1] = IF list = <<>> THEN from ELSE list[1][1]
    <2>1. CASE list = <<>>
        <3>1. Len(list) = 0
            BY <2>1
        <3> HIDE DEF more
        <3> QED BY <1>1, <2>1, <3>1
    <2>2. CASE list # <<>>
        <3>1. 1 \in 1..Len(list)
            BY <2>2
        <3> HIDE DEF more
        <3> QED BY <1>1, <2>2, <3>1
    <2> QED BY <2>1, <2>2
<1>4. ASSUME NEW i \in 1..Len(more) - 1 PROVE more[i + 1][1] = more[i][2] + gap
    <2> DEFINE l == Len(list)
    <2>1. l \in Nat /\ i \in 1..l
        <3> HIDE DEF more
        <3> QED BY <1>1
    <2>2. list # <<>>
        BY <2>1
    <2>3. CASE i = l
        <3> HIDE DEF more
        <3> QED BY <1>1, <2>1, <2>2, <2>3
    <2>4. CASE i # l
        <3>1. i \in 1..l - 1 /\ i + 1 \in 1..l
            BY <2>1, <2>4
        <3> HIDE DEF more
        <3> QED BY <1>1, <2>1, <3>1
    <2> QED BY <2>3, <2>4
<1> HIDE DEF more
<1>5. more[Len(more)] = <<from, to>>
    BY <1>1
<1> QED BY <1>2, <1>3, <1>4, <1>5 DEF more

\* What a page is that starts where the reader wants to go on.
PageFrom(p, want) ==
    /\ p.start = want /\ p.partial \in BOOLEAN /\ p.more \in BOOLEAN
    /\ ~p.partial => /\ p.end \in want..Total
                     /\ IF p.more THEN p.end < Total /\ p.next = p.end + 1 ELSE p.end = Total

\* A page that starts where the reader wants to go on keeps the pages linked (the next range is asked by its start).
LEMMA PageTaken ==
    ASSUME PagesRead, ~reader.done, NEW p, PageFrom(p, reader.want), TakePage(p)
    PROVE  PagesRead'
<1>1. reader.want \in 1..Total /\ reader.cap \in Caps /\ Total \in Nat /\ Max(Caps) \in Caps
    BY PagesFacts DEF PagesRead
<1>2. CASE p.partial
    <2>1. pages' = pages /\ reader' = [reader EXCEPT !.cap = Max(Caps)]
        BY <1>2 DEF TakePage
    <2>2. reader' \in [want : 1..Total, cap : Caps, done : BOOLEAN] /\ reader'.want = reader.want /\ reader'.done = reader.done
        BY <1>1, <2>1 DEF PagesRead
    <2> QED BY <2>1, <2>2 DEF PagesRead, PagesLink
<1>3. CASE ~p.partial
    <2>1. pages' = Append(pages, <<reader.want, p.end>>) /\ p.end \in Nat /\ reader.want \in Nat
        BY <1>1, <1>3 DEF TakePage, PageFrom
    <2>2. pages' \in Seq(Nat \X Nat) /\ pages' # <<>> /\ pages'[Len(pages')] = <<reader.want, p.end>>
          /\ pages'[1][1] = 1 /\ \A i \in 1..Len(pages') - 1 : pages'[i + 1][1] = pages'[i][2] + 1
        <3>1. pages \in Seq(Nat \X Nat) /\ 1 \in Nat /\ (pages # <<>> => reader.want = pages[Len(pages)][2] + 1)
              /\ \A i \in 1..Len(pages) - 1 : pages[i + 1][1] = pages[i][2] + 1
            BY DEF PagesRead, PagesLink
        <3>2. IF pages = <<>> THEN reader.want = 1 ELSE pages[1][1] = 1
            BY DEF PagesRead, PagesLink
        <3> QED BY <2>1, <3>1, <3>2, IntervalAdded
    <2>3. pages'[Len(pages')][2] = p.end
        BY <2>2
    <2>4. CASE p.more
        <3>1. reader' = [reader EXCEPT !.want = p.next] /\ p.next = p.end + 1 /\ p.end + 1 \in 1..Total
            BY <1>1, <1>3, <2>4 DEF TakePage, PageFrom
        <3>2. reader' \in [want : 1..Total, cap : Caps, done : BOOLEAN] /\ reader'.want = p.end + 1 /\ ~reader'.done
            BY <3>1 DEF PagesRead
        <3> QED BY <2>2, <2>3, <3>2 DEF PagesRead, PagesLink
    <2>5. CASE ~p.more
        <3>1. reader' = [reader EXCEPT !.done = TRUE] /\ p.end = Total
            BY <1>3, <2>5 DEF TakePage, PageFrom
        <3>2. reader' \in [want : 1..Total, cap : Caps, done : BOOLEAN] /\ reader'.done
            BY <3>1 DEF PagesRead
        <3> QED BY <2>2, <2>3, <3>1, <3>2 DEF PagesRead, PagesLink
    <2> QED BY <2>4, <2>5 DEF PageFrom
<1> QED BY <1>2, <1>3 DEF PageFrom

\* A page before it is cut to a reply.
WholePage(p, want) ==
    /\ p = [start |-> want, end |-> p.end, more |-> p.more, next |-> p.next, partial |-> FALSE]
    /\ p.end \in want..Total /\ p.more \in BOOLEAN /\ (p.more <=> p.end < Total) /\ p.next = p.end + 1

\* A page made by its range tells truly whether there is more.
LEMMA PageIsWhole ==
    ASSUME NEW want \in Nat, NEW end \in want..Total
    PROVE  WholePage([start |-> want, end |-> end, more |-> end < Total, next |-> end + 1, partial |-> FALSE], want)
<1> DEFINE p == [start |-> want, end |-> end, more |-> end < Total, next |-> end + 1, partial |-> FALSE]
<1>1. p.end = end /\ p.next = end + 1
    OBVIOUS
<1>2. p.more = (end < Total)
    BY Zenon
<1>3. p.more \in BOOLEAN /\ (p.more <=> end < Total)
    <2> HIDE DEF p
    <2>1. CASE end < Total
        BY <1>2, <2>1
    <2>2. CASE ~(end < Total)
        <3>1. (end < Total) = FALSE
            BY <2>2
        <3> QED BY <1>2, <2>2, <3>1, Zenon
    <2> QED BY <2>1, <2>2
<1>4. p = [start |-> want, end |-> p.end, more |-> p.more, next |-> p.next, partial |-> FALSE]
    OBVIOUS
<1> HIDE DEF p
<1>5. WholePage(p, want)
    BY <1>1, <1>3, <1>4 DEF WholePage
<1> QED BY <1>5 DEF p

\* fitReply: a page cut to the reply starts where it did, and its next line is the one after the last it holds.
LEMMA FitsFrom ==
    ASSUME NEW want \in 1..Total, NEW p, WholePage(p, want), NEW cap
    PROVE  PageFrom(FitReply(p, cap), want)
<1>1. Total \in Nat /\ want \in Nat
    BY PagesFacts
<1>2. p.start = want /\ p.partial = FALSE /\ p.end \in want..Total /\ p.more \in BOOLEAN /\ (p.more <=> p.end < Total) /\ p.next = p.end + 1
    BY DEF WholePage
<1>3. CASE Joined(p.start, p.end) + Frame <= cap
    <2>1. FitReply(p, cap) = p
        BY <1>3 DEF FitReply
    <2>2. ~p.more => p.end = Total
        BY <1>1, <1>2
    <2> QED BY <1>2, <2>1, <2>2 DEF PageFrom
<1>4. CASE ~(Joined(p.start, p.end) + Frame <= cap)
    <2> DEFINE fitting == {n \in p.start..p.end : Joined(p.start, n) + Frame <= cap}
    <2>1. CASE fitting = {}
        <3>1. FitReply(p, cap) = [p EXCEPT !.end = p.start, !.more = TRUE, !.next = 0, !.partial = TRUE]
            BY <1>4, <2>1 DEF FitReply
        <3>2. FitReply(p, cap).start = want /\ FitReply(p, cap).partial = TRUE /\ FitReply(p, cap).more = TRUE
            BY <3>1 DEF WholePage
        <3> QED BY <3>2 DEF PageFrom
    <2>2. CASE fitting # {}
        <3> DEFINE top == Max(fitting)
        <3>1. FitReply(p, cap) = [p EXCEPT !.end = top, !.more = TRUE, !.next = NextLine(top)]
            BY <1>4, <2>2 DEF FitReply
        <3>2. top \in fitting
            <4>1. p.end \in Nat /\ fitting \in SUBSET (0..p.end)
                BY <1>1, <1>2
            <4> HIDE DEF fitting
            <4> QED BY <2>2, <4>1, MaxOf
        <3>3. top \in want..p.end /\ top # p.end
            BY <1>2, <1>4, <3>2
        <3> HIDE DEF top
        <3>4. top \in want..Total /\ top < Total
            BY <1>1, <1>2, <3>3
        <3>5. FitReply(p, cap).start = want /\ FitReply(p, cap).partial = FALSE /\ FitReply(p, cap).more = TRUE
              /\ FitReply(p, cap).end = top /\ FitReply(p, cap).next = top + 1
            BY <3>1 DEF WholePage, NextLine
        <3> QED BY <3>4, <3>5 DEF PageFrom
    <2> QED BY <2>1, <2>2
<1> QED BY <1>3, <1>4

\* Reading a file as a whole, or a range of its lines.
LEMMA ReadsWholePages ==
    ASSUME PagesRead, ReadWhole \/ ReadRange
    PROVE  PagesRead'
<1>1. reader.want \in 1..Total /\ Total \in Nat /\ Total > 0 /\ reader.want \in Nat
    BY PagesFacts DEF PagesRead
<1>2. CASE ReadWhole
    <2> DEFINE p == UnrangedPage
               counts == {1} \cup {n \in 1..Total : Joined(1, n) <= InlineMax}
    <2>1. Max(counts) \in counts
        <3>1. counts \in SUBSET (0..Total) /\ counts # {}
            BY <1>1
        <3> HIDE DEF counts
        <3> QED BY <1>1, <3>1, MaxOf
    <2>2. Max(counts) \in 1..Total
        BY <1>1, <2>1
    <2>3. p = [start |-> 1, end |-> Max(counts), more |-> Max(counts) < Total, next |-> Max(counts) + 1, partial |-> FALSE]
        BY DEF UnrangedPage, NextLine
    <2> HIDE DEF p, counts
    <2>4. WholePage(p, 1)
        BY <1>1, <2>2, <2>3, PageIsWhole
    <2>5. reader.want = 1 /\ ~reader.done /\ TakePage(FitReply(p, reader.cap))
        BY <1>2 DEF ReadWhole, p
    <2> QED BY <1>1, <2>4, <2>5, FitsFrom, PageTaken
<1>3. CASE ReadRange
    <2>1. PICK r \in Ranges(reader.want) : TakePage(FitReply(RangeReply(r), reader.cap))
        BY <1>3 DEF ReadRange
    <2>2. r.start = reader.want /\ r.last \in Nat /\ r.last >= reader.want
        <3>1. CASE r \in {[start |-> reader.want, last |-> Total]}
            BY <1>1, <3>1
        <3>2. CASE r \in {[start |-> reader.want, last |-> end] : end \in reader.want..Total + 1}
            BY <1>1, <3>2
        <3>3. CASE r \in {[start |-> reader.want, last |-> reader.want + count - 1] : count \in 1..2}
            BY <1>1, <3>3
        <3> QED BY <3>1, <3>2, <3>3 DEF Ranges
    <2> DEFINE last == MinOf(r.last, Total)
    <2>3. last \in reader.want..Total
        BY <1>1, <2>2 DEF MinOf
    <2>4. RangeReply(r) = [start |-> reader.want, end |-> last, more |-> last < Total, next |-> last + 1, partial |-> FALSE]
        BY <2>2 DEF RangeReply, NextLine
    <2> HIDE DEF last
    <2>5. WholePage(RangeReply(r), reader.want)
        BY <1>1, <2>3, <2>4, PageIsWhole
    <2>6. ~reader.done
        BY <1>3 DEF ReadRange
    <2> QED BY <1>1, <2>1, <2>5, <2>6, FitsFrom, PageTaken
<1> QED BY <1>2, <1>3

\* What a page by characters has come to.
PageState == [from : Nat, length : Nat, seen : Nat]

\* Each piece read is counted.
LEMMA ConsumeIs ==
    ASSUME NEW page \in PageState, NEW piece \in Nat, NEW offset \in Nat, NEW limit \in Nat
    PROVE  /\ Consume(page, piece, offset, limit) \in PageState
           /\ Consume(page, piece, offset, limit).seen = page.seen + piece
<1> DEFINE remaining == limit - page.length
           start == IF offset > page.seen THEN offset - page.seen ELSE 0
           taken == IF remaining > 0 /\ page.seen + piece > offset THEN MinOf(remaining, piece - start) ELSE 0
           next == IF page.length = 0 /\ taken > 0 THEN page.seen + start ELSE page.from
<1>1. page.from \in Nat /\ page.length \in Nat /\ page.seen \in Nat
    BY DEF PageState
<1>2. start \in Nat /\ taken \in Nat
    BY <1>1 DEF MinOf
<1>3. next \in Nat
    <2> HIDE DEF start, taken
    <2> QED BY <1>1, <1>2
<1>4. Consume(page, piece, offset, limit) = [from |-> next, length |-> page.length + taken, seen |-> page.seen + piece]
    BY DEF Consume
<1> HIDE DEF start, taken, next
<1> QED BY <1>1, <1>2, <1>3, <1>4 DEF PageState

\* How much of a page is there when so many characters were seen.
Reach(seen, offset, limit) == MinOf(limit, IF seen > offset THEN seen - offset ELSE 0)
\* The page when so many characters were seen.
PageAfter(seen, offset, limit) == [from |-> offset, length |-> Reach(seen, offset, limit), seen |-> seen]

\* A piece more: the page is the one of the characters seen by then.
LEMMA ConsumeReaches ==
    ASSUME NEW seen \in Nat, NEW piece \in Nat, NEW offset \in Nat, NEW limit \in Nat \ {0}
    PROVE  Consume(PageAfter(seen, offset, limit), piece, offset, limit) = PageAfter(seen + piece, offset, limit)
<1> DEFINE page == PageAfter(seen, offset, limit)
           remaining == limit - page.length
           start == IF offset > page.seen THEN offset - page.seen ELSE 0
           taken == IF remaining > 0 /\ page.seen + piece > offset THEN MinOf(remaining, piece - start) ELSE 0
           next == IF page.length = 0 /\ taken > 0 THEN page.seen + start ELSE page.from
<1>1. page.from = offset /\ page.length = Reach(seen, offset, limit) /\ page.seen = seen
    BY DEF PageAfter
<1>2. Consume(page, piece, offset, limit) = [from |-> next, length |-> page.length + taken, seen |-> page.seen + piece]
    BY DEF Consume
<1>3. page.length + taken = Reach(seen + piece, offset, limit) /\ next = offset
    <2> HIDE DEF page
    <2> QED BY <1>1 DEF Reach, MinOf
<1> HIDE DEF next, taken, start, page
<1>4. Consume(page, piece, offset, limit) = PageAfter(seen + piece, offset, limit)
    BY <1>1, <1>2, <1>3 DEF PageAfter
<1> QED BY <1>4 DEF page

\* The length of a page is a length.
LEMMA ReachIsNat == \A seen, offset, limit \in Nat : Reach(seen, offset, limit) \in Nat
BY DEF Reach, MinOf

\* readUtf8Page: however the text is cut in pieces, the page is the one of all its characters.
LEMMA Utf8PageIs ==
    ASSUME NEW pieces \in Seq(Nat), NEW offset \in Nat, NEW limit \in Nat \ {0}
    PROVE  TextSum(pieces) \in Nat /\ Utf8Page(pieces, offset, limit) = PageAfter(TextSum(pieces), offset, limit)
<1> DEFINE n == Len(pieces)
           base == [from |-> offset, length |-> 0, seen |-> 0]
           step == [p \in Nat \X PageState |-> IF p[1] \in 1..n THEN Consume(p[2], pieces[p[1]], offset, limit) ELSE p[2]]
           taking[w \in SUBSET DOMAIN pieces] == IF w = {} THEN base ELSE LET top == Max(w) IN Consume(taking[w \ {top}], pieces[top], offset, limit)
<1>1. Utf8Page(pieces, offset, limit) = taking[DOMAIN pieces]
    BY DEF Utf8Page, FoldLeft, MapThenFoldSet
<1>2. DOMAIN pieces = 1..n /\ n \in Nat /\ base \in PageState /\ \A k \in 1..n : pieces[k] \in Nat
    BY DEF PageState
<1>3. step \in [Nat \X PageState -> PageState]
    <2> HIDE DEF n
    <2>1. \A p \in Nat \X PageState : (IF p[1] \in 1..n THEN Consume(p[2], pieces[p[1]], offset, limit) ELSE p[2]) \in PageState
        BY <1>2, ConsumeIs
    <2> QED BY <2>1
<1>4. PICK g \in [SUBSET (1..n) -> PageState] : FoldOf(g, n, base, step)
    <2> HIDE DEF n, step, base
    <2> QED BY <1>2, <1>3, FoldsExist
<1>5. g = [w \in SUBSET DOMAIN pieces |-> IF w = {} THEN base ELSE LET top == Max(w) IN Consume(g[w \ {top}], pieces[top], offset, limit)]
    <2>1. ASSUME NEW w \in SUBSET (1..n), w # {} PROVE step[<<Max(w), g[w \ {Max(w)}]>>] = Consume(g[w \ {Max(w)}], pieces[Max(w)], offset, limit)
        <3>1. Max(w) \in 1..n
            <4>1. w \in SUBSET (0..n)
                BY <1>2
            <4> QED BY <1>2, <2>1, <4>1, MaxOf
        <3>2. g[w \ {Max(w)}] \in PageState
            OBVIOUS
        <3> HIDE DEF n
        <3> QED BY <3>1, <3>2, <1>2
    <2> HIDE DEF n, step, base
    <2> QED BY <1>2, <1>4, <2>1 DEF FoldOf
<1>6. taking = [w \in SUBSET DOMAIN pieces |-> IF w = {} THEN base ELSE LET top == Max(w) IN Consume(taking[w \ {top}], pieces[top], offset, limit)]
    <2> HIDE DEF step, base
    <2> QED BY <1>5
<1>7. PICK f \in [0..n -> Nat] : f[0] = 0 /\ (\A k \in 1..n : f[k] = f[k - 1] + pieces[k]) /\ TextSum(pieces) = f[n]
    BY SumSteps
<1>8. \A k \in 0..n : taking[1..k] = PageAfter(f[k], offset, limit)
    <2> DEFINE S == {k \in 0..n : taking[1..k] = PageAfter(f[k], offset, limit)}
    <2>1. 0 \in S
        <3>1. 1..0 = {} /\ {} \in SUBSET (1..n) /\ 0 \in 0..n
            BY <1>2
        <3>2. taking[1..0] = base
            <4> HIDE DEF taking, n, base
            <4> QED BY <1>2, <1>6, <3>1
        <3>3. Reach(0, offset, limit) = 0
            BY DEF Reach, MinOf
        <3>4. base = PageAfter(f[0], offset, limit)
            BY <1>7, <3>3 DEF PageAfter
        <3> HIDE DEF taking, base
        <3> QED BY <3>1, <3>2, <3>4
    <2>2. ASSUME NEW k \in 1..n, k - 1 \in S PROVE k \in S
        <3>1. k - 1 \in 0..n /\ k \in 0..n /\ taking[1..(k - 1)] = PageAfter(f[k - 1], offset, limit)
            BY <1>2, <2>2
        <3>2. taking[1..k] = Consume(taking[1..(k - 1)], pieces[k], offset, limit)
            <4>1. 1..k \in SUBSET (1..n) /\ 1..k # {} /\ Max(1..k) = k /\ (1..k) \ {k} = 1..(k - 1)
                <5> HIDE DEF n
                <5> QED BY <1>2, MaxUpTo
            <4> HIDE DEF taking, n, base
            <4> QED BY <1>2, <1>6, <4>1
        <3>3. f[k - 1] \in Nat /\ pieces[k] \in Nat
            <4> HIDE DEF n
            <4> QED BY <1>2, <3>1
        <3>4. taking[1..k] = PageAfter(f[k - 1] + pieces[k], offset, limit)
            <4>1. Consume(PageAfter(f[k - 1], offset, limit), pieces[k], offset, limit) = PageAfter(f[k - 1] + pieces[k], offset, limit)
                <5> DEFINE v == f[k - 1]
                           u == pieces[k]
                <5>1. v \in Nat /\ u \in Nat
                    BY <3>3
                <5> HIDE DEF v, u
                <5>2. Consume(PageAfter(v, offset, limit), u, offset, limit) = PageAfter(v + u, offset, limit)
                    BY <5>1, ConsumeReaches
                <5> QED BY <5>2 DEF v, u
            <4> HIDE DEF taking
            <4> QED BY <3>1, <3>2, <4>1
        <3> HIDE DEF taking, n
        <3> QED BY <1>7, <3>1, <3>4
    <2>3. \A k \in 0..n : k \in S
        <3> HIDE DEF S, n
        <3> QED BY <1>2, <2>1, <2>2, UpTo
    <2> QED BY <2>3
<1>9. n \in 0..n /\ f[n] \in Nat
    BY <1>2
<1> HIDE DEF taking, n
<1> QED BY <1>1, <1>2, <1>7, <1>8, <1>9

-----
\* The pages a reader has of a result by characters meet, and its next page meets the last.
CharsLink ==
    /\ texts \in Seq(Nat \X Nat)
    /\ texts = <<>> => paging.want = 0 /\ ~paging.done
    /\ texts # <<>> => texts[1][1] = 0
                       /\ texts[Len(texts)][2] = IF paging.done THEN Chars ELSE paging.want
    /\ \A i \in 1..Len(texts) - 1 : texts[i + 1][1] = texts[i][2]

\* The reader of characters, and its pages.
CharsRead == paging \in [want : 0..Chars, done : BOOLEAN] /\ CharsLink

\* One more interval where the last ended.
LEMMA IntervalMeets ==
    ASSUME NEW list \in Seq(Nat \X Nat), NEW from \in Nat, NEW to \in Nat,
           list # <<>> => from = list[Len(list)][2],
           \A i \in 1..Len(list) - 1 : list[i + 1][1] = list[i][2]
    PROVE  LET more == Append(list, <<from, to>>)
           IN  /\ more \in Seq(Nat \X Nat) /\ more # <<>> /\ more[Len(more)] = <<from, to>>
               /\ more[1][1] = IF list = <<>> THEN from ELSE list[1][1]
               /\ \A i \in 1..Len(more) - 1 : more[i + 1][1] = more[i][2]
<1>1. ASSUME NEW any \in Seq(Nat \X Nat), NEW i \in 1..Len(any) PROVE any[i][2] + 0 = any[i][2]
    <2>1. any[i] \in Nat \X Nat
        OBVIOUS
    <2> QED BY <2>1
<1>2. list # <<>> => Len(list) \in 1..Len(list)
    OBVIOUS
<1>3. (list # <<>> => from = list[Len(list)][2] + 0) /\ \A i \in 1..Len(list) - 1 : list[i + 1][1] = list[i][2] + 0
    <2>1. \A i \in 1..Len(list) - 1 : i \in 1..Len(list)
        OBVIOUS
    <2> QED BY <1>1, <1>2, <2>1
<1> DEFINE more == Append(list, <<from, to>>)
<1>4. /\ more \in Seq(Nat \X Nat) /\ more # <<>> /\ more[Len(more)] = <<from, to>>
      /\ more[1][1] = IF list = <<>> THEN from ELSE list[1][1]
      /\ \A i \in 1..Len(more) - 1 : more[i + 1][1] = more[i][2] + 0
    BY <1>3, IntervalAdded
<1> HIDE DEF more
<1>5. \A i \in 1..Len(more) - 1 : i \in 1..Len(more)
    BY <1>4
<1>6. \A i \in 1..Len(more) - 1 : more[i + 1][1] = more[i][2]
    BY <1>1, <1>4, <1>5
<1> QED BY <1>4, <1>6 DEF more

\* Reading a page of a result by its characters.
LEMMA ReadsResult ==
    ASSUME CharsRead, ReadResult
    PROVE  CharsRead'
<1>1. Chars \in Nat /\ Limits \subseteq Nat \ {0} /\ paging.want \in 0..Chars /\ paging.want \in Nat
    BY PagesFacts DEF CharsRead
<1>2. PICK pieces \in Splits, limit \in Limits :
         LET page == Utf8Page(pieces, paging.want, limit)
             more == paging.want + limit < page.seen
         IN /\ texts' = Append(texts, <<page.from, page.from + page.length>>)
            /\ paging' = [want |-> IF more THEN paging.want + limit ELSE paging.want, done |-> ~more]
    BY DEF ReadResult
<1> DEFINE page == Utf8Page(pieces, paging.want, limit)
           more == paging.want + limit < page.seen
           to == paging.want + Reach(Chars, paging.want, limit)
<1>3. pieces \in Seq(Nat) /\ TextSum(pieces) = Chars
    <2>1. TextSum(pieces) = Chars
        BY DEF Splits, TextSum
    <2>2. PICK k \in 1..3 : pieces \in [1..k -> 1..Chars]
        BY DEF Splits
    <2>3. pieces \in [1..k -> Nat] /\ k \in Nat
        BY <1>1, <2>2
    <2> QED BY <2>1, <2>3
<1>4. limit \in Nat \ {0}
    BY <1>1
<1>5. page.from = paging.want /\ page.length = Reach(Chars, paging.want, limit) /\ page.seen = Chars
    <2>1. page = PageAfter(Chars, paging.want, limit)
        BY <1>1, <1>3, <1>4, Utf8PageIs
    <2> HIDE DEF page
    <2> QED BY <2>1 DEF PageAfter
<1>6. texts' = Append(texts, <<paging.want, to>>)
      /\ paging' = [want |-> IF more THEN paging.want + limit ELSE paging.want, done |-> ~more]
    <2> HIDE DEF page, more
    <2> QED BY <1>2, <1>5 DEF page, more
<1>7. (more <=> paging.want + limit < Chars) /\ to \in Nat /\ (more => to = paging.want + limit) /\ (~more => to = Chars)
    <2>1. more <=> paging.want + limit < Chars
        BY <1>5
    <2> HIDE DEF more
    <2> QED BY <1>1, <1>4, <2>1 DEF Reach, MinOf
<1> HIDE DEF to, more, page
<1>8. texts' \in Seq(Nat \X Nat) /\ texts' # <<>> /\ texts'[Len(texts')] = <<paging.want, to>>
      /\ texts'[1][1] = 0 /\ \A i \in 1..Len(texts') - 1 : texts'[i + 1][1] = texts'[i][2]
    <2>1. ~paging.done
        BY DEF ReadResult
    <2>2. texts \in Seq(Nat \X Nat) /\ (texts # <<>> => paging.want = texts[Len(texts)][2])
          /\ (IF texts = <<>> THEN paging.want = 0 ELSE texts[1][1] = 0)
          /\ \A i \in 1..Len(texts) - 1 : texts[i + 1][1] = texts[i][2]
        BY <2>1 DEF CharsRead, CharsLink
    <2> DEFINE longer == Append(texts, <<paging.want, to>>)
    <2>3. longer \in Seq(Nat \X Nat) /\ longer # <<>> /\ longer[Len(longer)] = <<paging.want, to>>
          /\ (longer[1][1] = IF texts = <<>> THEN paging.want ELSE texts[1][1])
          /\ \A i \in 1..Len(longer) - 1 : longer[i + 1][1] = longer[i][2]
        <3> DEFINE from == paging.want
        <3>1. from \in Nat /\ to \in Nat
            BY <1>1, <1>7
        <3>2. (texts # <<>> => from = texts[Len(texts)][2]) /\ texts \in Seq(Nat \X Nat)
              /\ \A i \in 1..Len(texts) - 1 : texts[i + 1][1] = texts[i][2]
            BY <2>2
        <3>3. longer = Append(texts, <<from, to>>)
            OBVIOUS
        <3> HIDE DEF from, longer
        <3>4. longer \in Seq(Nat \X Nat) /\ longer # <<>> /\ longer[Len(longer)] = <<from, to>>
              /\ (longer[1][1] = IF texts = <<>> THEN from ELSE texts[1][1])
              /\ \A i \in 1..Len(longer) - 1 : longer[i + 1][1] = longer[i][2]
            BY <3>1, <3>2, <3>3, IntervalMeets
        <3> QED BY <3>4 DEF from
    <2>4. texts' = longer
        BY <1>6
    <2> HIDE DEF longer
    <2> QED BY <2>2, <2>3, <2>4
<1>9. texts'[Len(texts')][2] = to
    BY <1>8
<1>10. CASE more
    <2>1. paging' = [want |-> paging.want + limit, done |-> FALSE] /\ paging.want + limit \in 0..Chars
        <3>1. paging' = [want |-> paging.want + limit, done |-> FALSE]
            BY <1>6, <1>10
        <3>2. paging.want + limit \in 0..Chars
            BY <1>1, <1>4, <1>7, <1>10
        <3> QED BY <3>1, <3>2
    <2>2. paging' \in [want : 0..Chars, done : BOOLEAN] /\ paging'.want = to /\ ~paging'.done
        BY <2>1, <1>7, <1>10
    <2> QED BY <2>2, <1>8, <1>9 DEF CharsRead, CharsLink
<1>11. CASE ~more
    <2>1. paging' = [want |-> paging.want, done |-> TRUE]
        BY <1>6, <1>11
    <2>2. paging' \in [want : 0..Chars, done : BOOLEAN] /\ paging'.done
        BY <1>1, <2>1
    <2> QED BY <2>2, <1>7, <1>8, <1>9, <1>11 DEF CharsRead, CharsLink
<1> QED BY <1>10, <1>11

\* The notice of a cut is one of those there are.
LEMMA NoticeIs ==
    ASSUME NEW spared \in Nat, NEW cap \in Nat
    PROVE  /\ NoticeLength(spared, cap) \in Nat
           /\ spared <= cap => spared + NoticeLength(spared, cap) <= cap
           /\ spared + Notices[Len(Notices)] <= cap => NoticeLength(spared, cap) > 0
<1> DEFINE usable == {i \in 1..Len(Notices) : spared + Notices[i] <= cap /\ (i = 1 => Notices[1] * 2 <= cap)}
<1>1. Len(Notices) \in Nat /\ Len(Notices) > 1 /\ \A i \in 1..Len(Notices) : Notices[i] \in Nat \ {0}
    BY PagesFacts
<1>2. CASE usable = {}
    <2>1. NoticeLength(spared, cap) = 0
        BY <1>2 DEF NoticeLength
    <2>2. Len(Notices) \in 1..Len(Notices) /\ Len(Notices) # 1
        BY <1>1
    <2>3. ~(spared + Notices[Len(Notices)] <= cap)
        BY <1>2, <2>2
    <2> QED BY <2>1, <2>3
<1>3. CASE usable # {}
    <2> DEFINE first == Min(usable)
    <2>1. first \in usable
        <3>1. usable \in SUBSET Nat
            OBVIOUS
        <3> HIDE DEF usable
        <3>2. PICK least \in usable : \A j \in usable : least <= j
            BY <1>3, <3>1, LeastOf
        <3>3. \E n \in usable : \A j \in usable : n =< j
            BY <3>2
        <3> QED BY <3>3 DEF Min
    <2>2. NoticeLength(spared, cap) = Notices[first]
        BY <1>3 DEF NoticeLength
    <2>3. spared + Notices[first] <= cap /\ first \in 1..Len(Notices)
        BY <2>1
    <2> HIDE DEF first
    <2> QED BY <1>1, <2>2, <2>3
<1> QED BY <1>2, <1>3

\* A reply that is cut says so, when the notice has room.
LEMMA CutsReply ==
    ASSUME CutReply
    PROVE  CutIsAnnounced'
<1>1. Notices[1] \in Nat /\ Chars \in Nat /\ Caps \subseteq Nat
    BY PagesFacts
<1>2. PICK outcome \in 0..Notices[1], cap \in Caps, body \in 0..Chars :
         LET text_ == body + outcome
             spared == MinOf(outcome, cap)
             notice == NoticeLength(spared, cap)
             room == IF cap > spared + notice THEN cap - spared - notice ELSE 0
         IN \E head \in 0..MinOf(body, room), grown \in {0, 1} :
              LET rebuilt == IF notice = Notices[1] /\ spared + head + notice + grown <= cap THEN notice + grown ELSE notice
              IN cut' = [cap |-> cap, kept |-> spared, head |-> head, notice |-> rebuilt, full |-> text_]
    BY DEF CutReply
<1> DEFINE spared == MinOf(outcome, cap)
           notice == NoticeLength(spared, cap)
           room == IF cap > spared + notice THEN cap - spared - notice ELSE 0
<1>3. PICK head \in 0..MinOf(body, room), grown \in {0, 1} :
         cut' = [cap |-> cap, kept |-> spared, head |-> head,
                 notice |-> IF notice = Notices[1] /\ spared + head + notice + grown <= cap THEN notice + grown ELSE notice,
                 full |-> body + outcome]
    BY <1>2
<1>4. cap \in Nat /\ outcome \in Nat /\ body \in Nat /\ spared \in Nat /\ spared <= cap
    BY <1>1 DEF MinOf
<1>5. notice \in Nat /\ spared + notice <= cap /\ (spared + Notices[Len(Notices)] <= cap => notice > 0)
    <2> HIDE DEF spared
    <2> QED BY <1>4, NoticeIs
<1> HIDE DEF spared, notice
<1>6. room \in Nat /\ spared + notice + room <= cap
    BY <1>4, <1>5
<1> HIDE DEF room
<1>7. head \in Nat /\ head <= room
    BY <1>4, <1>6 DEF MinOf
<1> DEFINE rebuilt == IF notice = Notices[1] /\ spared + head + notice + grown <= cap THEN notice + grown ELSE notice
<1>8. spared + head + rebuilt <= cap /\ (notice > 0 => rebuilt > 0)
    BY <1>4, <1>5, <1>6, <1>7
<1> HIDE DEF rebuilt
<1>9. cut'.kept = spared /\ cut'.head = head /\ cut'.notice = rebuilt /\ cut'.cap = cap
    BY <1>3 DEF rebuilt
<1> QED BY <1>5, <1>8, <1>9 DEF CutIsAnnounced

\* The inductive invariant of the paging of replies.
PagesIInv == PagesRead /\ CharsRead /\ CutIsAnnounced

\* Nothing was read.
LEMMA PagesStart == PagesInit => PagesIInv
<1> SUFFICES ASSUME PagesInit PROVE PagesIInv
    OBVIOUS
<1>1. PICK cap \in Caps : reader = [want |-> 1, cap |-> cap, done |-> FALSE]
    BY DEF PagesInit
<1>2. PagesRead
    BY <1>1, PagesFacts DEF PagesInit, PagesRead, PagesLink
<1>3. CharsRead
    BY PagesFacts DEF PagesInit, CharsRead, CharsLink
<1>4. CutIsAnnounced
    BY DEF PagesInit, CutIsAnnounced
<1> QED BY <1>2, <1>3, <1>4 DEF PagesIInv

\* Each step of a reader.
LEMMA PagesSteps == PagesIInv /\ PagesNext => PagesIInv'
<1> SUFFICES ASSUME PagesIInv, PagesNext PROVE PagesIInv'
    OBVIOUS
<1>1. CASE ReadWhole \/ ReadRange
    <2>1. PagesRead'
        BY <1>1, ReadsWholePages DEF PagesIInv
    <2>2. UNCHANGED <<paging, texts, cut>>
        BY <1>1 DEF ReadWhole, ReadRange
    <2> QED BY <2>1, <2>2 DEF PagesIInv, CharsRead, CharsLink, CutIsAnnounced
<1>2. CASE ReadResult
    <2>1. CharsRead'
        BY <1>2, ReadsResult DEF PagesIInv
    <2>2. UNCHANGED <<reader, pages, cut>>
        BY <1>2 DEF ReadResult
    <2> QED BY <2>1, <2>2 DEF PagesIInv, PagesRead, PagesLink, CutIsAnnounced
<1>3. CASE CutReply
    <2>1. CutIsAnnounced'
        BY <1>3, CutsReply
    <2>2. UNCHANGED <<reader, pages, paging, texts>>
        BY <1>3 DEF CutReply
    <2> QED BY <2>1, <2>2 DEF PagesIInv, PagesRead, PagesLink, CharsRead, CharsLink
<1> QED BY <1>1, <1>2, <1>3 DEF PagesNext

\* Nothing changes while no reader reads.
LEMMA PagesRest == PagesIInv /\ UNCHANGED pageVars => PagesIInv'
BY DEF PagesIInv, pageVars, PagesRead, PagesLink, CharsRead, CharsLink, CutIsAnnounced

\* The safety properties of the pages follow.
LEMMA PagesSafe == PagesIInv => PagesInv
<1> SUFFICES ASSUME PagesIInv PROVE PagesInv
    OBVIOUS
<1>1. PagesTypeOK
    BY DEF PagesIInv, PagesRead, CharsRead, PagesTypeOK
<1>2. Contiguous(pages, 1, 1) /\ (reader.done /\ pages # <<>> => pages[Len(pages)][2] = Total)
    BY DEF PagesIInv, PagesRead, PagesLink, Contiguous
<1>3. Contiguous(texts, 0, 0) /\ (paging.done => texts[Len(texts)][2] = Chars)
    <2>1. texts \in Seq(Nat \X Nat) /\ \A i \in 1..Len(texts) - 1 : texts[i + 1][1] = texts[i][2]
        BY DEF PagesIInv, CharsRead, CharsLink
    <2>2. \A i \in 1..Len(texts) - 1 : texts[i][2] \in Nat
        <3> SUFFICES ASSUME NEW i \in 1..Len(texts) - 1 PROVE texts[i][2] \in Nat
            OBVIOUS
        <3>1. texts[i] \in Nat \X Nat
            BY <2>1
        <3> QED BY <3>1
    <2>3. \A i \in 1..Len(texts) - 1 : texts[i + 1][1] = texts[i][2] + 0
        BY <2>1, <2>2
    <2> QED BY <2>3 DEF PagesIInv, CharsRead, CharsLink, Contiguous
<1> QED BY <1>1, <1>2, <1>3 DEF PagesIInv, PagesInv, PagesCoverTheText

-----------------------------------------------------------------------------
(* BrowserFeed: the file holds heads and tails of the newest events in       *)
(* order; the watch is in step with it until a renewal is missed.            *)

\* A line of the feed is written in two halves.
Half == Nat \X {"head", "tail"}
\* Each is later than those before it.
Rising(list) == \A i, j \in 1..Len(list) : i < j => list[i] < list[j]
\* A list has an element.
Has(list, seq) == \E i \in 1..Len(list) : list[i] = seq
\* The events read from a text are in their order.
RisingText(chunk) == \A i, j \in 1..Len(chunk) : i < j /\ Parsed(chunk, i) /\ Parsed(chunk, j) => chunk[i][1] < chunk[j][1]

\* What the events of the first k halves of a text have come to.
ToldUpTo(chunk, last, k, list) ==
    /\ list \in Seq(Nat) /\ Rising(list)
    /\ \A i \in 1..Len(list) : list[i] > last /\ \E j \in 1..k : Parsed(chunk, j) /\ list[i] = chunk[j][1]
    /\ RisingText(chunk) => \A j \in 1..k : Parsed(chunk, j) /\ chunk[j][1] > last => Has(list, chunk[j][1])

\* The last of a rising list is the newest in it.
LEMMA LastOfIs ==
    ASSUME NEW list \in Seq(Nat), NEW last \in Nat, Rising(list), \A i \in 1..Len(list) : list[i] > last
    PROVE  /\ LastOf(list, last) \in Nat /\ LastOf(list, last) >= last
           /\ \A i \in 1..Len(list) : list[i] <= LastOf(list, last)
           /\ list # <<>> => Len(list) \in 1..Len(list) /\ LastOf(list, last) = list[Len(list)]
<1>1. Len(list) \in Nat /\ \A i \in 1..Len(list) : list[i] \in Nat
    OBVIOUS
<1>2. CASE list = <<>>
    BY <1>1, <1>2 DEF LastOf
<1>3. CASE list # <<>>
    <2>1. Len(list) \in 1..Len(list)
        BY <1>1, <1>3
    <2>2. LastOf(list, last) = list[Len(list)]
        BY <1>3 DEF LastOf, Last
    <2>3. \A i \in 1..Len(list) : list[i] <= list[Len(list)]
        <3> SUFFICES ASSUME NEW i \in 1..Len(list) PROVE list[i] <= list[Len(list)]
            OBVIOUS
        <3>1. CASE i = Len(list)
            BY <1>1, <2>1, <3>1
        <3>2. CASE i < Len(list)
            <4>1. list[i] < list[Len(list)]
                BY <2>1, <3>2 DEF Rising
            <4> QED BY <1>1, <2>1, <4>1
        <3> QED BY <1>1, <3>1, <3>2
    <2> QED BY <1>1, <2>1, <2>2, <2>3
<1> QED BY <1>2, <1>3

\* One half more of a text: an event that is newer than the last is told.
LEMMA ToldMore ==
    ASSUME NEW chunk \in Seq(Half), NEW last \in Nat, NEW k \in 1..Len(chunk), NEW list, ToldUpTo(chunk, last, k - 1, list)
    PROVE  ToldUpTo(chunk, last, k, IF Parsed(chunk, k) /\ chunk[k][1] > LastOf(list, last) THEN Append(list, chunk[k][1]) ELSE list)
<1> DEFINE seq == chunk[k][1]
<1>1. k \in Nat /\ k - 1 \in Nat /\ seq \in Nat
    <2>1. chunk[k] \in Half
        OBVIOUS
    <2> QED BY <2>1 DEF Half
<1>2. list \in Seq(Nat) /\ Rising(list) /\ Len(list) \in Nat
      /\ \A i \in 1..Len(list) : list[i] \in Nat /\ list[i] > last /\ \E j \in 1..(k - 1) : Parsed(chunk, j) /\ list[i] = chunk[j][1]
    BY DEF ToldUpTo
<1>3. /\ LastOf(list, last) \in Nat /\ LastOf(list, last) >= last
      /\ \A i \in 1..Len(list) : list[i] <= LastOf(list, last)
      /\ list # <<>> => Len(list) \in 1..Len(list) /\ LastOf(list, last) = list[Len(list)]
    BY <1>2, LastOfIs
<1>4. RisingText(chunk) => \A j \in 1..(k - 1) : Parsed(chunk, j) /\ chunk[j][1] > last => Has(list, chunk[j][1])
    BY DEF ToldUpTo
<1>5. CASE Parsed(chunk, k) /\ seq > LastOf(list, last)
    <2> DEFINE more == Append(list, seq)
    <2>1. more \in Seq(Nat) /\ Len(more) = Len(list) + 1 /\ (\A i \in 1..Len(list) : more[i] = list[i]) /\ more[Len(list) + 1] = seq
        <3> HIDE DEF seq
        <3> QED BY <1>1, <1>2, AppendProperties
    <2> HIDE DEF more
    <2>2. \A i \in 1..Len(more) : i \in 1..Len(list) \/ i = Len(list) + 1
        BY <1>2, <2>1
    <2>3. Rising(more)
        <3> SUFFICES ASSUME NEW i \in 1..Len(more), NEW j \in 1..Len(more), i < j PROVE more[i] < more[j]
            BY DEF Rising
        <3>1. i \in 1..Len(list)
            BY <1>2, <2>1
        <3>2. CASE j \in 1..Len(list)
            BY <1>2, <2>1, <3>1, <3>2 DEF Rising
        <3>3. CASE j = Len(list) + 1
            <4>1. more[i] = list[i] /\ more[j] = seq /\ list[i] <= LastOf(list, last)
                BY <1>3, <2>1, <3>1, <3>3
            <4> HIDE DEF seq
            <4> QED BY <1>1, <1>2, <1>3, <1>5, <3>1, <4>1
        <3> QED BY <2>2, <3>2, <3>3
    <2>4. ASSUME NEW i \in 1..Len(more) PROVE more[i] > last /\ \E j \in 1..k : Parsed(chunk, j) /\ more[i] = chunk[j][1]
        <3>1. CASE i \in 1..Len(list)
            <4>1. PICK j \in 1..(k - 1) : Parsed(chunk, j) /\ list[i] = chunk[j][1]
                BY <1>2, <3>1
            <4>2. j \in 1..k
                BY <1>1
            <4> QED BY <1>2, <2>1, <3>1, <4>1, <4>2
        <3>2. CASE i = Len(list) + 1
            <4>1. more[i] = seq /\ k \in 1..k
                BY <1>1, <2>1, <3>2
            <4>2. seq > last
                <5> HIDE DEF seq
                <5> QED BY <1>1, <1>3, <1>5
            <4> QED BY <1>5, <4>1, <4>2
        <3> QED BY <2>2, <3>1, <3>2
    <2>5. ASSUME RisingText(chunk), NEW j \in 1..k, Parsed(chunk, j), chunk[j][1] > last PROVE Has(more, chunk[j][1])
        <3>1. CASE j = k
            <4>1. Len(list) + 1 \in 1..Len(more)
                BY <1>2, <2>1
            <4> QED BY <2>1, <3>1, <4>1 DEF Has
        <3>2. CASE j # k
            <4>1. j \in 1..(k - 1)
                BY <1>1, <3>2
            <4>2. PICK i \in 1..Len(list) : list[i] = chunk[j][1]
                BY <1>4, <2>5, <4>1 DEF Has
            <4>3. i \in 1..Len(more) /\ more[i] = chunk[j][1]
                BY <1>2, <2>1, <4>2
            <4> QED BY <4>3 DEF Has
        <3> QED BY <3>1, <3>2
    <2>6. ToldUpTo(chunk, last, k, more)
        BY <2>1, <2>3, <2>4, <2>5 DEF ToldUpTo
    <2> QED BY <1>5, <2>6 DEF more
<1>6. CASE ~(Parsed(chunk, k) /\ seq > LastOf(list, last))
    <2>1. \A i \in 1..Len(list) : list[i] > last /\ \E j \in 1..k : Parsed(chunk, j) /\ list[i] = chunk[j][1]
        <3>1. 1..(k - 1) \subseteq 1..k
            BY <1>1
        <3> QED BY <1>2, <3>1
    <2>2. ASSUME RisingText(chunk), NEW j \in 1..k, Parsed(chunk, j), chunk[j][1] > last PROVE Has(list, chunk[j][1])
        <3>1. CASE j = k
            <4>1. ~(seq > LastOf(list, last)) /\ seq > last
                BY <1>6, <2>2, <3>1
            <4>2. list # <<>>
                BY <4>1 DEF LastOf
            <4>3. Len(list) \in 1..Len(list) /\ LastOf(list, last) = list[Len(list)]
                BY <1>3, <4>2
            <4>4. PICK i \in 1..(k - 1) : Parsed(chunk, i) /\ list[Len(list)] = chunk[i][1]
                BY <1>2, <4>3
            <4>5. i \in 1..Len(chunk) /\ k \in 1..Len(chunk) /\ i < k
                BY <1>1
            <4>6. chunk[i][1] < seq
                BY <2>2, <3>1, <4>4, <4>5 DEF RisingText
            <4> HIDE DEF seq
            <4>7. LastOf(list, last) < seq
                BY <4>3, <4>4, <4>6
            <4> QED BY <1>1, <1>3, <4>1, <4>7
        <3>2. CASE j # k
            <4>1. j \in 1..(k - 1)
                BY <1>1, <3>2
            <4> QED BY <1>4, <2>2, <4>1
        <3> QED BY <3>1, <3>2
    <2>3. ToldUpTo(chunk, last, k, list)
        BY <1>2, <2>1, <2>2 DEF ToldUpTo
    <2> QED BY <1>6, <2>3
<1> QED BY <1>5, <1>6

\* What is told of a text: its events newer than the last pushed, once and in order.
LEMMA NewerIs ==
    ASSUME NEW chunk \in Seq(Half), NEW last \in Nat
    PROVE  ToldUpTo(chunk, last, Len(chunk), Newer(chunk, last))
<1> DEFINE n == Len(chunk)
           add(list, k) == IF Parsed(chunk, k) /\ chunk[k][1] > LastOf(list, last) THEN Append(list, chunk[k][1]) ELSE list
           step == [p \in Nat \X Seq(Nat) |-> IF p[1] \in 1..n THEN add(p[2], p[1]) ELSE p[2]]
           places == [k \in DOMAIN chunk |-> k]
           telling[w \in SUBSET DOMAIN places] == IF w = {} THEN <<>> ELSE LET top == Max(w) IN add(telling[w \ {top}], places[top])
<1>1. Newer(chunk, last) = telling[DOMAIN places]
    BY DEF Newer, FoldLeftDomain, FoldLeft, MapThenFoldSet
<1>2. DOMAIN chunk = 1..n /\ DOMAIN places = 1..n /\ n \in Nat
    OBVIOUS
<1>3. ASSUME NEW list \in Seq(Nat), NEW k \in 1..n PROVE add(list, k) \in Seq(Nat)
    <2>1. chunk[k][1] \in Nat
        <3>1. chunk[k] \in Half
            OBVIOUS
        <3> QED BY <3>1 DEF Half
    <2>2. Append(list, chunk[k][1]) \in Seq(Nat)
        BY <2>1
    <2> QED BY <2>2
<1>4. step \in [Nat \X Seq(Nat) -> Seq(Nat)]
    <2> HIDE DEF n, add
    <2>1. \A p \in Nat \X Seq(Nat) : (IF p[1] \in 1..n THEN add(p[2], p[1]) ELSE p[2]) \in Seq(Nat)
        BY <1>3
    <2> QED BY <2>1
<1>5. PICK g \in [SUBSET (1..n) -> Seq(Nat)] : FoldOf(g, n, <<>>, step)
    <2>1. <<>> \in Seq(Nat)
        OBVIOUS
    <2> HIDE DEF n, step
    <2> QED BY <1>2, <1>4, <2>1, FoldsExist
<1>6. g = [w \in SUBSET DOMAIN places |-> IF w = {} THEN <<>> ELSE LET top == Max(w) IN add(g[w \ {top}], places[top])]
    <2>1. ASSUME NEW w \in SUBSET (1..n), w # {} PROVE step[<<Max(w), g[w \ {Max(w)}]>>] = add(g[w \ {Max(w)}], places[Max(w)])
        <3>1. Max(w) \in 1..n
            <4>1. w \in SUBSET (0..n)
                BY <1>2
            <4> QED BY <1>2, <2>1, <4>1, MaxOf
        <3>2. g[w \ {Max(w)}] \in Seq(Nat) /\ places[Max(w)] = Max(w)
            BY <3>1, <1>2
        <3> HIDE DEF n, add, places
        <3> QED BY <3>1, <3>2, <1>2
    <2> HIDE DEF n, step, add, places
    <2> QED BY <1>2, <1>5, <2>1 DEF FoldOf
<1>7. telling = [w \in SUBSET DOMAIN places |-> IF w = {} THEN <<>> ELSE LET top == Max(w) IN add(telling[w \ {top}], places[top])]
    <2> HIDE DEF step, add, places
    <2> QED BY <1>6
<1>8. \A k \in 0..n : ToldUpTo(chunk, last, k, telling[1..k])
    <2> DEFINE S == {k \in 0..n : ToldUpTo(chunk, last, k, telling[1..k])}
    <2>1. 0 \in S
        <3>1. 1..0 = {} /\ {} \in SUBSET (1..n) /\ 0 \in 0..n
            BY <1>2
        <3>2. telling[1..0] = <<>>
            <4> HIDE DEF telling, n, add, places
            <4> QED BY <1>2, <1>7, <3>1
        <3>3. ToldUpTo(chunk, last, 0, <<>>)
            BY DEF ToldUpTo, Rising
        <3> HIDE DEF telling
        <3> QED BY <3>1, <3>2, <3>3
    <2>2. ASSUME NEW k \in 1..n, k - 1 \in S PROVE k \in S
        <3>1. k - 1 \in 0..n /\ k \in 0..n /\ ToldUpTo(chunk, last, k - 1, telling[1..(k - 1)])
            BY <1>2, <2>2
        <3>2. telling[1..k] = add(telling[1..(k - 1)], k)
            <4>1. 1..k \in SUBSET (1..n) /\ 1..k # {} /\ Max(1..k) = k /\ (1..k) \ {k} = 1..(k - 1)
                <5> HIDE DEF n
                <5> QED BY <1>2, MaxUpTo
            <4>2. places[k] = k
                BY <1>2
            <4> HIDE DEF telling, n, add, places
            <4> QED BY <1>2, <1>7, <4>1, <4>2
        <3>3. ToldUpTo(chunk, last, k, add(telling[1..(k - 1)], k))
            <4> DEFINE list == telling[1..(k - 1)]
            <4> HIDE DEF list
            <4>1. ToldUpTo(chunk, last, k - 1, list)
                BY <3>1 DEF list
            <4>2. ToldUpTo(chunk, last, k, add(list, k))
                BY <4>1, ToldMore
            <4> HIDE DEF add
            <4> QED BY <4>2 DEF list
        <3> HIDE DEF telling, n, add
        <3> QED BY <3>1, <3>2, <3>3
    <2>3. \A k \in 0..n : k \in S
        <3> HIDE DEF S, n
        <3> QED BY <1>2, <2>1, <2>2, UpTo
    <2> QED BY <2>3
<1>9. n \in 0..n
    BY <1>2
<1> HIDE DEF telling, n
<1>10. ToldUpTo(chunk, last, n, Newer(chunk, last))
    BY <1>1, <1>2, <1>8, <1>9
<1> QED BY <1>10 DEF n

\* Where the last line of the first k halves of a text ends.
EndUpTo(chunk, k, end) ==
    /\ end \in 0..k
    /\ end > 0 => chunk[end][2] = "tail"
    /\ \A i \in end + 1..k : chunk[i][2] # "tail"

\* The end of the last line of a text.
LEMMA LastEndIs ==
    ASSUME NEW chunk \in Seq(Half)
    PROVE  EndUpTo(chunk, Len(chunk), LastEnd(chunk))
<1> DEFINE n == Len(chunk)
           add(end, k) == IF chunk[k][2] = "tail" THEN k ELSE end
           step == [p \in Nat \X Nat |-> IF p[1] \in 1..n THEN add(p[2], p[1]) ELSE p[2]]
           places == [k \in DOMAIN chunk |-> k]
           ending[w \in SUBSET DOMAIN places] == IF w = {} THEN 0 ELSE LET top == Max(w) IN add(ending[w \ {top}], places[top])
<1>1. LastEnd(chunk) = ending[DOMAIN places]
    BY DEF LastEnd, FoldLeftDomain, FoldLeft, MapThenFoldSet
<1>2. DOMAIN chunk = 1..n /\ DOMAIN places = 1..n /\ n \in Nat
    OBVIOUS
<1>3. step \in [Nat \X Nat -> Nat]
    <2>1. \A p \in Nat \X Nat : (IF p[1] \in 1..n THEN add(p[2], p[1]) ELSE p[2]) \in Nat
        OBVIOUS
    <2> HIDE DEF n, add
    <2> QED BY <2>1
<1>5. PICK g \in [SUBSET (1..n) -> Nat] : FoldOf(g, n, 0, step)
    <2> HIDE DEF n, step
    <2> QED BY <1>2, <1>3, FoldsExist
<1>6. g = [w \in SUBSET DOMAIN places |-> IF w = {} THEN 0 ELSE LET top == Max(w) IN add(g[w \ {top}], places[top])]
    <2>1. ASSUME NEW w \in SUBSET (1..n), w # {} PROVE step[<<Max(w), g[w \ {Max(w)}]>>] = add(g[w \ {Max(w)}], places[Max(w)])
        <3>1. Max(w) \in 1..n
            <4>1. w \in SUBSET (0..n)
                BY <1>2
            <4> QED BY <1>2, <2>1, <4>1, MaxOf
        <3>2. g[w \ {Max(w)}] \in Nat /\ places[Max(w)] = Max(w)
            BY <3>1, <1>2
        <3> HIDE DEF n, add, places
        <3> QED BY <3>1, <3>2, <1>2
    <2> HIDE DEF n, step, add, places
    <2> QED BY <1>2, <1>5, <2>1 DEF FoldOf
<1>7. ending = [w \in SUBSET DOMAIN places |-> IF w = {} THEN 0 ELSE LET top == Max(w) IN add(ending[w \ {top}], places[top])]
    <2> HIDE DEF step, add, places
    <2> QED BY <1>6
<1>8. \A k \in 0..n : EndUpTo(chunk, k, ending[1..k])
    <2> DEFINE S == {k \in 0..n : EndUpTo(chunk, k, ending[1..k])}
    <2>1. 0 \in S
        <3>1. 1..0 = {} /\ {} \in SUBSET (1..n) /\ 0 \in 0..n
            BY <1>2
        <3>2. ending[1..0] = 0
            <4> HIDE DEF ending, n, add, places
            <4> QED BY <1>2, <1>7, <3>1
        <3>3. EndUpTo(chunk, 0, 0)
            BY DEF EndUpTo
        <3> HIDE DEF ending
        <3> QED BY <3>1, <3>2, <3>3
    <2>2. ASSUME NEW k \in 1..n, k - 1 \in S PROVE k \in S
        <3>1. k - 1 \in 0..n /\ k \in 0..n /\ EndUpTo(chunk, k - 1, ending[1..(k - 1)])
            BY <1>2, <2>2
        <3>2. ending[1..k] = add(ending[1..(k - 1)], k)
            <4>1. 1..k \in SUBSET (1..n) /\ 1..k # {} /\ Max(1..k) = k /\ (1..k) \ {k} = 1..(k - 1)
                <5> HIDE DEF n
                <5> QED BY <1>2, MaxUpTo
            <4>2. places[k] = k
                BY <1>2
            <4> HIDE DEF ending, n, add, places
            <4> QED BY <1>2, <1>7, <4>1, <4>2
        <3>3. EndUpTo(chunk, k, add(ending[1..(k - 1)], k))
            <4> DEFINE end == ending[1..(k - 1)]
            <4>1. EndUpTo(chunk, k - 1, end)
                BY <3>1
            <4> HIDE DEF end
            <4>2. EndUpTo(chunk, k, add(end, k))
                <5>1. k \in Nat /\ k > 0
                    BY <1>2
                <5>2. CASE chunk[k][2] = "tail"
                    BY <5>1, <5>2 DEF EndUpTo
                <5>3. CASE chunk[k][2] # "tail"
                    <6>1. end \in 0..k /\ (end > 0 => chunk[end][2] = "tail")
                        BY <4>1, <5>1 DEF EndUpTo
                    <6>2. \A i \in end + 1..k : i \in end + 1..(k - 1) \/ i = k
                        BY <5>1, <6>1
                    <6>3. \A i \in end + 1..k : chunk[i][2] # "tail"
                        BY <4>1, <5>3, <6>2 DEF EndUpTo
                    <6> QED BY <5>3, <6>1, <6>3 DEF EndUpTo
                <5> QED BY <5>2, <5>3
            <4> HIDE DEF add
            <4> QED BY <4>2 DEF end
        <3> HIDE DEF ending, n, add
        <3> QED BY <3>1, <3>2, <3>3
    <2>3. \A k \in 0..n : k \in S
        <3> HIDE DEF S, n
        <3> QED BY <1>2, <2>1, <2>2, UpTo
    <2> QED BY <2>3
<1>9. n \in 0..n
    BY <1>2
<1> HIDE DEF ending, n
<1>10. EndUpTo(chunk, n, LastEnd(chunk))
    BY <1>1, <1>2, <1>8, <1>9
<1> QED BY <1>10 DEF n

\* The file holds the newest events, each a head and a tail; of the newest the tail may be missing.
FileIs(base, count) ==
    /\ base \in Nat /\ count \in Nat /\ emitted = base + count /\ spoolFile \in Seq(Half)
    /\ Len(spoolFile) = 2 * count \/ Len(spoolFile) + 1 = 2 * count
    /\ \A j \in 1..count : spoolFile[2 * j - 1] = <<base + j, "head">>
    /\ \A j \in 1..count : 2 * j <= Len(spoolFile) => spoolFile[2 * j] = <<base + j, "tail">>
\* For some number of events that were dropped, and of those that are there.
FileHolds == \E base, count : FileIs(base, count)

\* The types of the watch and of the guest.
FeedTyped ==
    /\ feed \in [on : BOOLEAN, nth : 0..MaxWatch, offset : Nat, partial : Seq(Half), lastSeq : Nat, from : Nat]
    /\ emitted \in 0..Events /\ renewed \in {"no", "yes", "missed"}

\* What was pushed is in order, and none of it later than the last event the watch knows.
PushedSoFar == pushed \in Seq(Nat) /\ Rising(pushed) /\ \A i \in 1..Len(pushed) : pushed[i] <= feed.lastSeq


\* While no renewal was missed: what was pushed is of whole lines, and of a line
\* in the file no later than the last one pushed each was pushed.
InStep ==
    feed.on /\ renewed # "missed" =>
        /\ feed.lastSeq <= emitted /\ (Len(spoolFile) % 2 # 0 => feed.lastSeq < emitted)
        /\ \A i \in 1..Len(spoolFile) :
              spoolFile[i][2] = "tail" /\ feed.from < spoolFile[i][1] /\ spoolFile[i][1] <= feed.lastSeq => Has(pushed, spoolFile[i][1])

\* While the file is the one that was read: the partial line is the half before
\* the offset, but for a line the watch began in the middle of.
ReadSoFar ==
    feed.on /\ renewed = "no" =>
        /\ feed.offset <= Len(spoolFile)
        /\ feed.partial = <<>> \/ (feed.offset > 0 /\ feed.partial = <<spoolFile[feed.offset]>>)
        /\ feed.partial = <<>> /\ feed.offset > 0 /\ spoolFile[feed.offset][2] = "head" => spoolFile[feed.offset][1] <= feed.from
        /\ \A i \in 1..feed.offset : spoolFile[i][2] = "tail" /\ spoolFile[i][1] > feed.from => Has(pushed, spoolFile[i][1])

\* The inductive invariant of the feed.
FeedIInv == FileHolds /\ FeedTyped /\ PushedSoFar /\ InStep /\ ReadSoFar

\* At first there is no watch and no file.
LEMMA FeedStarts == FeedInit => FeedIInv
<1> SUFFICES ASSUME FeedInit PROVE FeedIInv
    OBVIOUS
<1>1. FileIs(0, 0)
    BY DEF FeedInit, FileIs
<1>2. FeedTyped
    BY FeedBounds DEF FeedInit, FeedTyped, NoWatch
<1>3. PushedSoFar
    BY DEF FeedInit, PushedSoFar, Rising
<1>4. ~feed.on
    BY DEF FeedInit, NoWatch
<1> QED BY <1>1, <1>2, <1>3, <1>4 DEF FeedIInv, FileHolds, InStep, ReadSoFar

\* Where a half of the file is.
LEMMA HalfAt ==
    ASSUME NEW base, NEW count, FileIs(base, count), NEW i \in 1..Len(spoolFile)
    PROVE  \E j \in 1..count :
              \/ i = 2 * j - 1 /\ spoolFile[i] = <<base + j, "head">>
              \/ i = 2 * j /\ spoolFile[i] = <<base + j, "tail">>
<1>1. count \in Nat /\ Len(spoolFile) \in Nat /\ (Len(spoolFile) = 2 * count \/ Len(spoolFile) + 1 = 2 * count)
    BY DEF FileIs
<1>2. PICK j \in Nat : i = 2 * j - 1 \/ i = 2 * j
    <2>1. i \in Nat /\ (i + 1) \div 2 \in Nat /\ (i = 2 * ((i + 1) \div 2) - 1 \/ i = 2 * ((i + 1) \div 2))
        OBVIOUS
    <2> QED BY <2>1
<1>3. j \in 1..count
    BY <1>1, <1>2
<1>4. CASE i = 2 * j - 1
    BY <1>3, <1>4 DEF FileIs
<1>5. CASE i = 2 * j
    <2>1. 2 * j <= Len(spoolFile)
        BY <1>1, <1>3, <1>5
    <2> QED BY <1>3, <1>5, <2>1 DEF FileIs
<1> QED BY <1>2, <1>3, <1>4, <1>5

\* A tail comes right after its head, and tails rise; a line that has its tail is
\* older than one that is being written.
LEMMA TailsOfFile ==
    ASSUME FileHolds
    PROVE  /\ emitted \in Nat /\ spoolFile \in Seq(Half)
           /\ \A i \in 1..Len(spoolFile) : spoolFile[i][1] \in Nat /\ spoolFile[i][2] \in {"head", "tail"}
           /\ \A i \in 1..Len(spoolFile) : spoolFile[i][2] = "tail" =>
                 /\ i - 1 \in 1..Len(spoolFile) /\ spoolFile[i - 1] = <<spoolFile[i][1], "head">>
                 /\ spoolFile[i][1] <= emitted /\ (Len(spoolFile) % 2 # 0 => spoolFile[i][1] < emitted)
           /\ \A i, j \in 1..Len(spoolFile) :
                 i < j /\ spoolFile[i][2] = "tail" /\ spoolFile[j][2] = "tail" => spoolFile[i][1] < spoolFile[j][1]
           /\ \A i \in 1..Len(spoolFile) : spoolFile[i][2] = "head" /\ i > 1 => spoolFile[i - 1][2] = "tail"
<1>1. PICK base, count : FileIs(base, count)
    BY DEF FileHolds
<1>2. base \in Nat /\ count \in Nat /\ emitted = base + count /\ spoolFile \in Seq(Half) /\ Len(spoolFile) \in Nat
      /\ (Len(spoolFile) = 2 * count \/ Len(spoolFile) + 1 = 2 * count)
    BY <1>1 DEF FileIs
<1>3. \A i \in 1..Len(spoolFile) : spoolFile[i][1] \in Nat /\ spoolFile[i][2] \in {"head", "tail"}
    <2> SUFFICES ASSUME NEW i \in 1..Len(spoolFile) PROVE spoolFile[i][1] \in Nat /\ spoolFile[i][2] \in {"head", "tail"}
        OBVIOUS
    <2>1. spoolFile[i] \in Half
        BY <1>2
    <2> QED BY <2>1 DEF Half
<1>4. ASSUME NEW i \in 1..Len(spoolFile), spoolFile[i][2] = "tail"
      PROVE  \E j \in 1..count : i = 2 * j /\ spoolFile[i][1] = base + j
    BY <1>1, <1>4, HalfAt
<1>5. ASSUME NEW i \in 1..Len(spoolFile), spoolFile[i][2] = "tail"
      PROVE  /\ i - 1 \in 1..Len(spoolFile) /\ spoolFile[i - 1] = <<spoolFile[i][1], "head">>
             /\ spoolFile[i][1] <= emitted /\ (Len(spoolFile) % 2 # 0 => spoolFile[i][1] < emitted)
    <2>1. PICK j \in 1..count : i = 2 * j /\ spoolFile[i][1] = base + j
        BY <1>4, <1>5
    <2>2. spoolFile[2 * j - 1] = <<base + j, "head">>
        BY <1>1 DEF FileIs
    <2>3. i - 1 \in 1..Len(spoolFile) /\ i - 1 = 2 * j - 1 /\ base + j <= emitted
        BY <1>2, <2>1
    <2>4. ASSUME Len(spoolFile) % 2 # 0 PROVE base + j < emitted
        <3>1. Len(spoolFile) # 2 * count
            BY <1>2, <2>4
        <3>2. j # count
            BY <1>2, <2>1, <3>1
        <3> QED BY <1>2, <2>1, <3>2
    <2> QED BY <2>1, <2>2, <2>3, <2>4
<1>6. ASSUME NEW i \in 1..Len(spoolFile), NEW j \in 1..Len(spoolFile), i < j, spoolFile[i][2] = "tail", spoolFile[j][2] = "tail"
      PROVE  spoolFile[i][1] < spoolFile[j][1]
    <2>1. PICK n \in 1..count : i = 2 * n /\ spoolFile[i][1] = base + n
        BY <1>4, <1>6
    <2>2. PICK m \in 1..count : j = 2 * m /\ spoolFile[j][1] = base + m
        BY <1>4, <1>6
    <2> QED BY <1>2, <1>6, <2>1, <2>2
<1>7. ASSUME NEW i \in 1..Len(spoolFile), spoolFile[i][2] = "head", i > 1 PROVE spoolFile[i - 1][2] = "tail"
    <2>1. PICK j \in 1..count : i = 2 * j - 1
        BY <1>1, <1>7, HalfAt
    <2>2. j - 1 \in 1..count /\ i - 1 = 2 * (j - 1) /\ 2 * (j - 1) <= Len(spoolFile)
        BY <1>2, <1>7, <2>1
    <2> DEFINE m == j - 1
    <2>3. spoolFile[2 * m] = <<base + m, "tail">>
        <3>1. m \in 1..count /\ 2 * m <= Len(spoolFile)
            BY <2>2
        <3> HIDE DEF m
        <3> QED BY <1>1, <3>1 DEF FileIs
    <2>4. i - 1 = 2 * m
        BY <2>2
    <2> HIDE DEF m
    <2> QED BY <2>3, <2>4
<1> QED BY <1>2, <1>3, <1>5, <1>6, <1>7

\* The guest begins a line.
LEMMA HeadWritten == FileHolds /\ GuestWritesHead => FileHolds'
<1> SUFFICES ASSUME FileHolds, GuestWritesHead PROVE FileHolds'
    OBVIOUS
<1>1. PICK base, count : FileIs(base, count)
    BY DEF FileHolds
<1> DEFINE half == <<emitted + 1, "head">>
<1>2. base \in Nat /\ count \in Nat /\ emitted = base + count /\ spoolFile \in Seq(Half) /\ Len(spoolFile) \in Nat
      /\ (Len(spoolFile) = 2 * count \/ Len(spoolFile) + 1 = 2 * count)
    BY <1>1 DEF FileIs
<1>3. half \in Half
    BY <1>2 DEF Half
<1>4. spoolFile' = Append(spoolFile, half) /\ emitted' = emitted + 1 /\ Len(spoolFile) % 2 = 0
    BY DEF GuestWritesHead, WholeFile
<1>5. Len(spoolFile) = 2 * count
    BY <1>2, <1>4
<1>6. half = <<base + (count + 1), "head">>
    BY <1>2
<1> HIDE DEF half
<1>7. spoolFile' \in Seq(Half) /\ Len(spoolFile') = Len(spoolFile) + 1
      /\ (\A i \in 1..Len(spoolFile) : spoolFile'[i] = spoolFile[i]) /\ spoolFile'[Len(spoolFile) + 1] = half
    BY <1>2, <1>3, <1>4, AppendProperties
<1>8. ASSUME NEW j \in 1..(count + 1) PROVE spoolFile'[2 * j - 1] = <<base + j, "head">>
    <2>1. CASE j = count + 1
        <3>1. 2 * j - 1 = Len(spoolFile) + 1
            BY <1>2, <1>5, <2>1
        <3> QED BY <1>6, <1>7, <2>1, <3>1
    <2>2. CASE j # count + 1
        <3>1. j \in 1..count /\ 2 * j - 1 \in 1..Len(spoolFile)
            BY <1>2, <1>5, <2>2
        <3>2. spoolFile[2 * j - 1] = <<base + j, "head">>
            BY <1>1, <3>1 DEF FileIs
        <3> QED BY <1>7, <3>1, <3>2
    <2> QED BY <2>1, <2>2
<1>9. ASSUME NEW j \in 1..(count + 1), 2 * j <= Len(spoolFile') PROVE spoolFile'[2 * j] = <<base + j, "tail">>
    <2>1. j \in 1..count /\ 2 * j \in 1..Len(spoolFile) /\ 2 * j <= Len(spoolFile)
        BY <1>2, <1>5, <1>7, <1>9
    <2>2. spoolFile[2 * j] = <<base + j, "tail">>
        BY <1>1, <2>1 DEF FileIs
    <2> QED BY <1>7, <2>1, <2>2
<1>10. count + 1 \in Nat /\ emitted' = base + (count + 1) /\ Len(spoolFile') + 1 = 2 * (count + 1)
    BY <1>2, <1>4, <1>5, <1>7
<1>11. FileIs(base, count + 1)'
    BY <1>2, <1>7, <1>8, <1>9, <1>10 DEF FileIs
<1> QED BY <1>11 DEF FileHolds

\* The guest ends the line it began.
LEMMA TailWritten == FileHolds /\ GuestWritesTail => FileHolds'
<1> SUFFICES ASSUME FileHolds, GuestWritesTail PROVE FileHolds'
    OBVIOUS
<1>1. PICK base, count : FileIs(base, count)
    BY DEF FileHolds
<1> DEFINE half == <<emitted, "tail">>
<1>2. base \in Nat /\ count \in Nat /\ emitted = base + count /\ spoolFile \in Seq(Half) /\ Len(spoolFile) \in Nat
      /\ (Len(spoolFile) = 2 * count \/ Len(spoolFile) + 1 = 2 * count)
    BY <1>1 DEF FileIs
<1>3. half \in Half
    BY <1>2 DEF Half
<1>4. spoolFile' = Append(spoolFile, half) /\ emitted' = emitted /\ Len(spoolFile) % 2 # 0
    BY DEF GuestWritesTail, WholeFile
<1>5. Len(spoolFile) + 1 = 2 * count
    BY <1>2, <1>4
<1>6. half = <<base + count, "tail">>
    BY <1>2
<1> HIDE DEF half
<1>7. spoolFile' \in Seq(Half) /\ Len(spoolFile') = Len(spoolFile) + 1
      /\ (\A i \in 1..Len(spoolFile) : spoolFile'[i] = spoolFile[i]) /\ spoolFile'[Len(spoolFile) + 1] = half
    BY <1>2, <1>3, <1>4, AppendProperties
<1>8. ASSUME NEW j \in 1..count PROVE spoolFile'[2 * j - 1] = <<base + j, "head">>
    <2>1. 2 * j - 1 \in 1..Len(spoolFile)
        BY <1>2, <1>5
    <2>2. spoolFile[2 * j - 1] = <<base + j, "head">>
        BY <1>1 DEF FileIs
    <2> QED BY <1>7, <2>1, <2>2
<1>9. ASSUME NEW j \in 1..count PROVE spoolFile'[2 * j] = <<base + j, "tail">>
    <2>1. CASE j = count
        <3>1. 2 * j = Len(spoolFile) + 1
            BY <1>2, <1>5, <2>1
        <3> QED BY <1>6, <1>7, <2>1, <3>1
    <2>2. CASE j # count
        <3>1. 2 * j \in 1..Len(spoolFile) /\ 2 * j <= Len(spoolFile)
            BY <1>2, <1>5, <2>2
        <3>2. spoolFile[2 * j] = <<base + j, "tail">>
            BY <1>1, <3>1 DEF FileIs
        <3> QED BY <1>7, <3>1, <3>2
    <2> QED BY <2>1, <2>2
<1>10. Len(spoolFile') = 2 * count
    BY <1>2, <1>5, <1>7
<1>11. FileIs(base, count)'
    BY <1>2, <1>4, <1>7, <1>8, <1>9, <1>10 DEF FileIs
<1> QED BY <1>11 DEF FileHolds

\* The halves of a file started anew.
LEMMA RotatedFile ==
    ASSUME FileHolds, GuestRotates
    PROVE  FileHolds' /\ \A i \in 1..Len(spoolFile') : \E j \in 1..Len(spoolFile) : spoolFile'[i] = spoolFile[j]
<1>1. PICK base, count : FileIs(base, count)
    BY DEF FileHolds
<1>2. base \in Nat /\ count \in Nat /\ emitted = base + count /\ spoolFile \in Seq(Half) /\ Len(spoolFile) \in Nat
      /\ (Len(spoolFile) = 2 * count \/ Len(spoolFile) + 1 = 2 * count)
    BY <1>1 DEF FileIs
<1>3. PICK rest \in 0..(Len(spoolFile) \div 2 - 1) : spoolFile' = SubSeq(spoolFile, Len(spoolFile) - 2 * rest + 1, Len(spoolFile))
    BY DEF GuestRotates
<1>4. emitted' = emitted /\ Len(spoolFile) % 2 = 0
    BY DEF GuestRotates, WholeFile
<1>5. Len(spoolFile) = 2 * count /\ rest \in Nat /\ rest <= count /\ count > 0
    <2>1. Len(spoolFile) = 2 * count
        BY <1>2, <1>4
    <2>2. Len(spoolFile) \div 2 = count
        BY <1>2, <2>1
    <2> QED BY <1>2, <1>3, <2>1, <2>2
<1> DEFINE gone == Len(spoolFile) - 2 * rest
<1>6. gone \in Nat /\ gone + 2 * rest = Len(spoolFile) /\ gone = 2 * (count - rest)
    BY <1>2, <1>5
<1> HIDE DEF gone
<1>7. spoolFile' = SubSeq(spoolFile, gone + 1, Len(spoolFile))
    BY <1>3 DEF gone
<1>8. spoolFile' \in Seq(Half) /\ Len(spoolFile') = 2 * rest /\ \A i \in 1..2 * rest : spoolFile'[i] = spoolFile[gone + i]
    <2>1. spoolFile' \in Seq(Half)
        <3>1. \A i \in gone + 1..Len(spoolFile) : spoolFile[i] \in Half
            BY <1>2, <1>6
        <3> QED BY <1>2, <1>6, <1>7, <3>1, SubSeqProperties
    <2>2. Len(spoolFile') = 2 * rest
        BY <1>2, <1>5, <1>6, <1>7
    <2>3. \A i \in 1..2 * rest : spoolFile'[i] = spoolFile[gone + i]
        BY <1>2, <1>5, <1>6, <1>7
    <2> QED BY <2>1, <2>2, <2>3
<1>9. ASSUME NEW j \in 1..rest PROVE spoolFile'[2 * j - 1] = <<(emitted - rest) + j, "head">> /\ spoolFile'[2 * j] = <<(emitted - rest) + j, "tail">>
    <2> DEFINE m == count - rest + j
    <2>1. m \in 1..count /\ 2 * m <= Len(spoolFile) /\ gone + (2 * j - 1) = 2 * m - 1 /\ gone + 2 * j = 2 * m /\ base + m = (emitted - rest) + j
        BY <1>2, <1>5, <1>6
    <2> HIDE DEF m
    <2>2. spoolFile[2 * m - 1] = <<base + m, "head">> /\ spoolFile[2 * m] = <<base + m, "tail">>
        BY <1>1, <2>1 DEF FileIs
    <2>3. 2 * j - 1 \in 1..2 * rest /\ 2 * j \in 1..2 * rest
        BY <1>5
    <2>4. spoolFile'[2 * j - 1] = spoolFile[gone + (2 * j - 1)] /\ spoolFile'[2 * j] = spoolFile[gone + 2 * j]
        BY <1>8, <2>3
    <2> QED BY <2>1, <2>2, <2>4
<1>10. emitted - rest \in Nat /\ emitted' = (emitted - rest) + rest
    BY <1>2, <1>4, <1>5
<1>11. FileIs(emitted - rest, rest)'
    <2>1. emitted' = emitted
        BY <1>4
    <2> QED BY <1>5, <1>8, <1>9, <1>10, <2>1 DEF FileIs
<1>12. \A i \in 1..Len(spoolFile') : \E j \in 1..Len(spoolFile) : spoolFile'[i] = spoolFile[j]
    <2> SUFFICES ASSUME NEW i \in 1..2 * rest PROVE \E j \in 1..Len(spoolFile) : spoolFile'[i] = spoolFile[j]
        BY <1>8
    <2>1. gone + i \in 1..Len(spoolFile)
        BY <1>2, <1>5, <1>6
    <2> QED BY <1>8, <2>1
<1>13. FileHolds'
    BY <1>11 DEF FileHolds
<1> QED BY <1>12, <1>13

\* What a pump reads, and from where when it reads the file in step.
ReadNow == (IF Shrunk THEN <<>> ELSE feed.partial) \o SubSeq(spoolFile, (IF Shrunk THEN 0 ELSE feed.offset) + 1, Len(spoolFile))

\* A text is what the file has from some half on.
SuffixOf(chunk, from) ==
    /\ from \in 0..Len(spoolFile) /\ chunk \in Seq(Half) /\ Len(chunk) = Len(spoolFile) - from
    /\ \A i \in 1..Len(chunk) : chunk[i] = spoolFile[from + i]

\* Every line of the file that is due was pushed, or is in the suffix with its head.
Covers(from) ==
    /\ \A i \in 1..Len(spoolFile) :
          spoolFile[i][2] = "tail" /\ spoolFile[i][1] > feed.from => Has(pushed, spoolFile[i][1]) \/ i - 1 > from
    /\ from = Len(spoolFile) /\ from > 0 /\ spoolFile[from][2] = "head" => spoolFile[from][1] <= feed.from

\* A pump reads halves of lines.
LEMMA ReadIsHalves == FileHolds /\ FeedTyped => ReadNow \in Seq(Half)
<1> SUFFICES ASSUME FileHolds, FeedTyped PROVE ReadNow \in Seq(Half)
    OBVIOUS
<1> DEFINE start == IF Shrunk THEN 0 ELSE feed.offset
           old == IF Shrunk THEN <<>> ELSE feed.partial
<1>1. spoolFile \in Seq(Half) /\ start \in Nat /\ Len(spoolFile) \in Nat /\ old \in Seq(Half)
    BY TailsOfFile DEF FeedTyped
<1> HIDE DEF start, old
<1>2. SubSeq(spoolFile, start + 1, Len(spoolFile)) \in Seq(Half)
    <2>1. \A i \in start + 1..Len(spoolFile) : spoolFile[i] \in Half
        BY <1>1
    <2> QED BY <1>1, <2>1, SubSeqProperties
<1>3. old \o SubSeq(spoolFile, start + 1, Len(spoolFile)) \in Seq(Half)
    BY <1>1, <1>2
<1> QED BY <1>3 DEF ReadNow, start, old

\* A pump in step reads a suffix of the file, which covers what is due and was not pushed.
LEMMA ReadsInStep ==
    ASSUME FeedIInv, feed.on, renewed = "no" \/ (renewed = "yes" /\ Shrunk)
    PROVE  \E from \in Nat : SuffixOf(ReadNow, from) /\ Covers(from)
<1>1. /\ spoolFile \in Seq(Half) /\ Len(spoolFile) \in Nat
      /\ \A i \in 1..Len(spoolFile) : spoolFile[i][1] \in Nat /\ spoolFile[i][2] \in {"head", "tail"}
      /\ \A i \in 1..Len(spoolFile) : spoolFile[i][2] = "tail" =>
            i - 1 \in 1..Len(spoolFile) /\ spoolFile[i - 1] = <<spoolFile[i][1], "head">>
    BY TailsOfFile DEF FeedIInv
<1>2. ReadNow \in Seq(Half) /\ feed.offset \in Nat /\ feed.from \in Nat
    BY ReadIsHalves DEF FeedIInv, FeedTyped
<1> DEFINE L == Len(spoolFile)
           part(s) == SubSeq(spoolFile, s + 1, L)
<1>3. ASSUME NEW s \in 0..L PROVE part(s) \in Seq(Half) /\ Len(part(s)) = L - s /\ \A i \in 1..L - s : part(s)[i] = spoolFile[s + i]
    <2>1. \A i \in s + 1..L : spoolFile[i] \in Half
        BY <1>1
    <2>2. part(s) \in Seq(Half)
        BY <1>1, <2>1, SubSeqProperties
    <2> QED BY <1>1, <2>2
<1> HIDE DEF part
<1>4. CASE Shrunk
    <2>1. ReadNow = <<>> \o part(0)
        BY <1>4 DEF ReadNow, part
    <2>2. ReadNow = part(0)
        BY <1>1, <1>3, <2>1
    <2>3. SuffixOf(ReadNow, 0)
        BY <1>1, <1>2, <1>3, <2>2 DEF SuffixOf
    <2>4. Covers(0)
        BY <1>1 DEF Covers
    <2> QED BY <2>3, <2>4
<1>5. CASE ~Shrunk
    <2>1. feed.offset \in 0..L /\ renewed = "no"
        BY <1>1, <1>2, <1>5 DEF Shrunk
    <2>2. /\ feed.partial = <<>> \/ (feed.offset > 0 /\ feed.partial = <<spoolFile[feed.offset]>>)
          /\ feed.partial = <<>> /\ feed.offset > 0 /\ spoolFile[feed.offset][2] = "head" => spoolFile[feed.offset][1] <= feed.from
          /\ \A i \in 1..feed.offset : spoolFile[i][2] = "tail" /\ spoolFile[i][1] > feed.from => Has(pushed, spoolFile[i][1])
        BY <2>1 DEF FeedIInv, ReadSoFar
    <2>3. ReadNow = feed.partial \o part(feed.offset)
        BY <1>5 DEF ReadNow, part
    <2>4. CASE feed.partial = <<>>
        <3>1. ReadNow = part(feed.offset)
            BY <1>3, <2>1, <2>3, <2>4
        <3>2. SuffixOf(ReadNow, feed.offset)
            BY <1>1, <1>2, <1>3, <2>1, <3>1 DEF SuffixOf
        <3>3. ASSUME NEW i \in 1..L, spoolFile[i][2] = "tail", spoolFile[i][1] > feed.from
              PROVE  Has(pushed, spoolFile[i][1]) \/ i - 1 > feed.offset
            <4>1. CASE i <= feed.offset
                BY <1>2, <2>2, <3>3, <4>1
            <4>2. CASE i - 1 = feed.offset
                <5>1. feed.offset > 0 /\ spoolFile[feed.offset] = <<spoolFile[i][1], "head">>
                    BY <1>1, <3>3, <4>2
                <5>2. spoolFile[i][1] <= feed.from
                    BY <2>2, <2>4, <5>1
                <5> QED BY <1>1, <1>2, <3>3, <5>2
            <4> QED BY <1>1, <1>2, <4>1, <4>2
        <3>4. Covers(feed.offset)
            BY <2>2, <2>4, <3>3 DEF Covers
        <3> QED BY <1>2, <3>2, <3>4
    <2>5. CASE feed.partial # <<>>
        <3> DEFINE s == feed.offset - 1
        <3>1. feed.offset > 0 /\ feed.partial = <<spoolFile[feed.offset]>> /\ s \in 0..L /\ s \in Nat /\ feed.offset = s + 1 /\ s < L
            BY <1>2, <2>1, <2>2, <2>5
        <3> HIDE DEF s
        <3>2. ReadNow = <<spoolFile[s + 1]>> \o part(s + 1)
            BY <2>3, <3>1
        <3> DEFINE rest == part(s + 1)
        <3>3. rest \in Seq(Half) /\ Len(rest) = L - (s + 1) /\ \A i \in 1..L - (s + 1) : rest[i] = spoolFile[(s + 1) + i]
            <4> HIDE DEF L, part
            <4>1. s + 1 \in 0..L
                <5>1. L \in Nat
                    BY <1>1 DEF L
                <5> QED BY <3>1, <5>1
            <4> QED BY <4>1, <1>3
        <3> HIDE DEF rest
        <3>4. Len(ReadNow) = L - s /\ ReadNow[1] = spoolFile[s + 1] /\ \A i \in 1..L - (s + 1) : ReadNow[i + 1] = rest[i]
            <4>1. ReadNow = <<spoolFile[s + 1]>> \o rest
                BY <3>2 DEF rest
            <4>2. Len(ReadNow) = 1 + Len(rest)
                BY <3>3, <4>1
            <4>3. ReadNow[1] = spoolFile[s + 1]
                BY <3>3, <4>1
            <4>4. \A i \in 1..Len(rest) : ReadNow[i + 1] = rest[i]
                BY <3>3, <4>1
            <4> QED BY <1>1, <3>1, <3>3, <4>2, <4>3, <4>4
        <3>5. ASSUME NEW i \in 1..Len(ReadNow) PROVE ReadNow[i] = spoolFile[s + i]
            <4>1. CASE i = 1
                BY <3>4, <4>1
            <4>2. CASE i # 1
                <5> DEFINE j == i - 1
                <5>1. j \in 1..L - (s + 1) /\ i = j + 1 /\ (s + 1) + j = s + i
                    BY <1>1, <3>1, <3>4, <4>2
                <5> HIDE DEF j
                <5> QED BY <3>3, <3>4, <5>1
            <4> QED BY <4>1, <4>2
        <3>6. SuffixOf(ReadNow, s)
            BY <1>2, <3>1, <3>4, <3>5 DEF SuffixOf
        <3>7. ASSUME NEW i \in 1..L, spoolFile[i][2] = "tail", spoolFile[i][1] > feed.from
              PROVE  Has(pushed, spoolFile[i][1]) \/ i - 1 > s
            <4>1. CASE i <= feed.offset
                BY <1>2, <2>2, <3>7, <4>1
            <4> QED BY <1>1, <1>2, <3>1, <4>1
        <3>8. Covers(s)
            BY <3>1, <3>7 DEF Covers
        <3> QED BY <3>1, <3>6, <3>8
    <2> QED BY <2>4, <2>5
<1> QED BY <1>4, <1>5

\* The events of a suffix of the file rise; each whole line of it is read.
LEMMA SuffixRises ==
    ASSUME FileHolds, NEW chunk, NEW from, SuffixOf(chunk, from)
    PROVE  /\ RisingText(chunk)
           /\ \A k \in 1..Len(chunk) : Parsed(chunk, k) =>
                 from + k \in 1..Len(spoolFile) /\ spoolFile[from + k][2] = "tail" /\ chunk[k][1] = spoolFile[from + k][1]
           /\ \A i \in 1..Len(spoolFile) : spoolFile[i][2] = "tail" /\ i - 1 > from =>
                 i - from \in 1..Len(chunk) /\ Parsed(chunk, i - from) /\ chunk[i - from][1] = spoolFile[i][1]
<1>1. /\ spoolFile \in Seq(Half) /\ Len(spoolFile) \in Nat
      /\ \A i \in 1..Len(spoolFile) : spoolFile[i][2] = "tail" =>
            i - 1 \in 1..Len(spoolFile) /\ spoolFile[i - 1] = <<spoolFile[i][1], "head">>
      /\ \A i, j \in 1..Len(spoolFile) :
            i < j /\ spoolFile[i][2] = "tail" /\ spoolFile[j][2] = "tail" => spoolFile[i][1] < spoolFile[j][1]
    BY TailsOfFile
<1>2. from \in 0..Len(spoolFile) /\ Len(chunk) = Len(spoolFile) - from /\ Len(chunk) \in Nat /\ from \in Nat
      /\ \A i \in 1..Len(chunk) : chunk[i] = spoolFile[from + i]
    BY <1>1 DEF SuffixOf
<1>3. ASSUME NEW k \in 1..Len(chunk), Parsed(chunk, k)
      PROVE  from + k \in 1..Len(spoolFile) /\ spoolFile[from + k][2] = "tail" /\ chunk[k][1] = spoolFile[from + k][1]
    <2>1. chunk[k] = spoolFile[from + k] /\ chunk[k][2] = "tail"
        BY <1>2, <1>3 DEF Parsed
    <2> QED BY <1>1, <1>2, <2>1
<1>4. RisingText(chunk)
    <2> SUFFICES ASSUME NEW i \in 1..Len(chunk), NEW j \in 1..Len(chunk), i < j, Parsed(chunk, i), Parsed(chunk, j)
                 PROVE  chunk[i][1] < chunk[j][1]
        BY DEF RisingText
    <2>1. from + i < from + j
        BY <1>2
    <2> QED BY <1>1, <1>3, <2>1
<1>5. ASSUME NEW i \in 1..Len(spoolFile), spoolFile[i][2] = "tail", i - 1 > from
      PROVE  i - from \in 1..Len(chunk) /\ Parsed(chunk, i - from) /\ chunk[i - from][1] = spoolFile[i][1]
    <2> DEFINE k == i - from
    <2>1. k \in 1..Len(chunk) /\ k > 1 /\ k - 1 \in 1..Len(chunk) /\ from + k = i /\ from + (k - 1) = i - 1
        BY <1>1, <1>2, <1>5
    <2> HIDE DEF k
    <2>2. chunk[k] = spoolFile[i] /\ chunk[k - 1] = spoolFile[i - 1]
        BY <1>2, <2>1
    <2>3. spoolFile[i - 1] = <<spoolFile[i][1], "head">>
        BY <1>1, <1>5
    <2>4. Parsed(chunk, k) /\ chunk[k][1] = spoolFile[i][1]
        BY <1>5, <2>1, <2>2, <2>3 DEF Parsed
    <2> QED BY <2>1, <2>4 DEF k
<1> QED BY <1>3, <1>4, <1>5

\* What a pump changes.
LEMMA PumpIs ==
    ASSUME FeedTyped, Pump
    PROVE  LET told == Newer(ReadNow, feed.lastSeq) IN
           /\ feed.on /\ feed' = [on |-> TRUE, nth |-> feed.nth, offset |-> Len(spoolFile),
                                  partial |-> SubSeq(ReadNow, LastEnd(ReadNow) + 1, Len(ReadNow)),
                                  lastSeq |-> LastOf(told, feed.lastSeq), from |-> feed.from]
           /\ pushed' = pushed \o told /\ spoolFile' = spoolFile /\ emitted' = emitted
           /\ renewed' = IF renewed = "yes" THEN IF Shrunk THEN "no" ELSE "missed" ELSE renewed
<1> DEFINE told == Newer(ReadNow, feed.lastSeq)
           tail == SubSeq(ReadNow, LastEnd(ReadNow) + 1, Len(ReadNow))
           newest == LastOf(told, feed.lastSeq)
<1>1. /\ feed.on /\ feed' = [feed EXCEPT !.offset = Len(spoolFile), !.partial = tail, !.lastSeq = newest]
      /\ pushed' = pushed \o told
    BY DEF Pump, ReadNow
<1>2. spoolFile' = spoolFile /\ emitted' = emitted
    BY DEF Pump, guestVars
<1>3. renewed' = IF renewed = "yes" THEN IF Shrunk THEN "no" ELSE "missed" ELSE renewed
    BY DEF Pump
<1>4. feed = [on |-> feed.on, nth |-> feed.nth, offset |-> feed.offset, partial |-> feed.partial,
              lastSeq |-> feed.lastSeq, from |-> feed.from] /\ feed.on \in BOOLEAN
    <2> DEFINE Halves == Seq(Half)
    <2>1. feed \in [on : BOOLEAN, nth : 0..MaxWatch, offset : Nat, partial : Halves, lastSeq : Nat, from : Nat]
        BY DEF FeedTyped
    <2> HIDE DEF Halves
    <2> QED BY <2>1
<1> HIDE DEF tail, newest
<1>5. feed' = [on |-> TRUE, nth |-> feed.nth, offset |-> Len(spoolFile), partial |-> tail, lastSeq |-> newest, from |-> feed.from]
    BY <1>1, <1>4
<1> QED BY <1>1, <1>2, <1>3, <1>5 DEF tail, newest

\* Whatever it read: what a pump pushes is newer than all that was pushed.
LEMMA PumpPushes ==
    ASSUME FileHolds, FeedTyped, PushedSoFar, Pump
    PROVE  FileHolds' /\ FeedTyped' /\ PushedSoFar'
<1> DEFINE told == Newer(ReadNow, feed.lastSeq)
           tail == SubSeq(ReadNow, LastEnd(ReadNow) + 1, Len(ReadNow))
           newest == LastOf(told, feed.lastSeq)
<1>1. /\ feed.on /\ feed' = [on |-> TRUE, nth |-> feed.nth, offset |-> Len(spoolFile), partial |-> tail,
                             lastSeq |-> newest, from |-> feed.from]
      /\ pushed' = pushed \o told /\ spoolFile' = spoolFile /\ emitted' = emitted
      /\ renewed' = IF renewed = "yes" THEN IF Shrunk THEN "no" ELSE "missed" ELSE renewed
    BY PumpIs
<1>2. ReadNow \in Seq(Half) /\ feed.lastSeq \in Nat /\ feed.nth \in 0..MaxWatch /\ feed.from \in Nat
      /\ emitted \in 0..Events /\ renewed \in {"no", "yes", "missed"} /\ Len(spoolFile) \in Nat
    BY ReadIsHalves, TailsOfFile DEF FeedTyped
<1>3. told \in Seq(Nat) /\ Rising(told) /\ \A i \in 1..Len(told) : told[i] > feed.lastSeq
    BY <1>2, NewerIs DEF ToldUpTo
<1>4. tail \in Seq(Half)
    <2> DEFINE chunk == ReadNow
    <2>1. EndUpTo(chunk, Len(chunk), LastEnd(chunk))
        BY <1>2, LastEndIs
    <2>2. LastEnd(chunk) \in 0..Len(chunk) /\ Len(chunk) \in Nat /\ chunk \in Seq(Half)
        BY <1>2, <2>1 DEF EndUpTo
    <2> HIDE DEF chunk
    <2>3. \A i \in LastEnd(chunk) + 1..Len(chunk) : chunk[i] \in Half
        BY <2>2
    <2>4. SubSeq(chunk, LastEnd(chunk) + 1, Len(chunk)) \in Seq(Half)
        BY <2>2, <2>3, SubSeqProperties
    <2> QED BY <2>4 DEF chunk
<1> HIDE DEF told
<1>5. newest \in Nat /\ newest >= feed.lastSeq /\ \A i \in 1..Len(told) : told[i] <= newest
    BY <1>2, <1>3, LastOfIs
<1> HIDE DEF tail, newest
<1>6. FileHolds'
    BY <1>1 DEF FileHolds, FileIs
<1>7. FeedTyped'
    BY <1>1, <1>2, <1>4, <1>5 DEF FeedTyped
<1>8. pushed \in Seq(Nat) /\ Rising(pushed) /\ (\A i \in 1..Len(pushed) : pushed[i] <= feed.lastSeq) /\ Len(pushed) \in Nat
    BY DEF PushedSoFar
<1> DEFINE more == pushed \o told
<1>9. /\ more \in Seq(Nat) /\ Len(more) = Len(pushed) + Len(told) /\ Len(told) \in Nat
      /\ \A i \in 1..Len(pushed) : more[i] = pushed[i]
      /\ \A i \in 1..Len(told) : more[Len(pushed) + i] = told[i]
    BY <1>3, <1>8
<1> HIDE DEF more
<1>10. \A i \in 1..Len(more) : i \in 1..Len(pushed) \/ \E k \in 1..Len(told) : i = Len(pushed) + k
    <2> SUFFICES ASSUME NEW i \in 1..Len(more), i \notin 1..Len(pushed) PROVE \E k \in 1..Len(told) : i = Len(pushed) + k
        OBVIOUS
    <2>1. i - Len(pushed) \in 1..Len(told) /\ i = Len(pushed) + (i - Len(pushed))
        BY <1>8, <1>9
    <2> QED BY <2>1
<1>11. Rising(more)
    <2> SUFFICES ASSUME NEW i \in 1..Len(more), NEW j \in 1..Len(more), i < j PROVE more[i] < more[j]
        BY DEF Rising
    <2>1. CASE j \in 1..Len(pushed)
        <3>1. i \in 1..Len(pushed)
            BY <1>8, <2>1
        <3> QED BY <1>8, <1>9, <2>1, <3>1 DEF Rising
    <2>2. CASE j \notin 1..Len(pushed)
        <3>1. PICK m \in 1..Len(told) : j = Len(pushed) + m
            BY <1>10, <2>2
        <3>2. CASE i \in 1..Len(pushed)
            <4>1. more[i] = pushed[i] /\ more[j] = told[m]
                BY <1>9, <3>1, <3>2
            <4>2. pushed[i] <= feed.lastSeq /\ feed.lastSeq < told[m] /\ pushed[i] \in Nat /\ told[m] \in Nat
                BY <1>2, <1>3, <1>8, <3>2
            <4> QED BY <1>2, <4>1, <4>2
        <3>3. CASE i \notin 1..Len(pushed)
            <4>1. PICK k \in 1..Len(told) : i = Len(pushed) + k
                BY <1>10, <3>3
            <4>2. k < m
                BY <1>8, <3>1, <4>1
            <4>3. more[i] = told[k] /\ more[j] = told[m]
                BY <1>9, <3>1, <4>1
            <4> QED BY <1>3, <4>2, <4>3 DEF Rising
        <3> QED BY <3>2, <3>3
    <2> QED BY <2>1, <2>2
<1>12. \A i \in 1..Len(more) : more[i] <= newest
    <2> SUFFICES ASSUME NEW i \in 1..Len(more) PROVE more[i] <= newest
        OBVIOUS
    <2>1. CASE i \in 1..Len(pushed)
        <3>1. more[i] = pushed[i] /\ pushed[i] <= feed.lastSeq /\ pushed[i] \in Nat
            BY <1>8, <1>9, <2>1
        <3> QED BY <1>2, <1>5, <3>1
    <2>2. CASE i \notin 1..Len(pushed)
        BY <1>5, <1>9, <1>10, <2>2
    <2> QED BY <2>1, <2>2
<1>13. pushed' = more /\ feed'.lastSeq = newest
    BY <1>1 DEF more
<1>14. PushedSoFar'
    BY <1>9, <1>11, <1>12, <1>13 DEF PushedSoFar
<1> QED BY <1>6, <1>7, <1>14

\* What is in one of two lists is in both put together.
LEMMA HasMore ==
    ASSUME NEW s \in Seq(Nat), NEW t \in Seq(Nat), NEW seq, Has(s, seq) \/ Has(t, seq)
    PROVE  Has(s \o t, seq)
<1>1. Len(s \o t) = Len(s) + Len(t) /\ Len(s) \in Nat /\ Len(t) \in Nat
      /\ (\A i \in 1..Len(s) : (s \o t)[i] = s[i]) /\ \A i \in 1..Len(t) : (s \o t)[Len(s) + i] = t[i]
    OBVIOUS
<1>2. CASE Has(s, seq)
    <2>1. PICK i \in 1..Len(s) : s[i] = seq
        BY <1>2 DEF Has
    <2>2. i \in 1..Len(s \o t) /\ (s \o t)[i] = seq
        BY <1>1, <2>1
    <2> QED BY <2>2 DEF Has
<1>3. CASE Has(t, seq)
    <2>1. PICK i \in 1..Len(t) : t[i] = seq
        BY <1>3 DEF Has
    <2>2. Len(s) + i \in 1..Len(s \o t) /\ (s \o t)[Len(s) + i] = seq
        BY <1>1, <2>1
    <2> QED BY <2>2 DEF Has
<1> QED BY <1>2, <1>3

\* When it read in step: every line of the file that is due is pushed now.
LEMMA PumpCatchesUp ==
    ASSUME FeedIInv, Pump, renewed = "no" \/ (renewed = "yes" /\ Shrunk)
    PROVE  /\ \A i \in 1..Len(spoolFile) : spoolFile[i][2] = "tail" /\ spoolFile[i][1] > feed.from => Has(pushed', spoolFile[i][1])
           /\ feed'.lastSeq <= emitted /\ (Len(spoolFile) % 2 # 0 => feed'.lastSeq < emitted)
<1> DEFINE told == Newer(ReadNow, feed.lastSeq)
           newest == LastOf(told, feed.lastSeq)
<1>1. feed.on /\ pushed' = pushed \o told /\ feed'.lastSeq = newest
    BY PumpIs DEF FeedIInv
<1>2. FileHolds /\ FeedTyped /\ PushedSoFar /\ InStep
    BY DEF FeedIInv
<1>3. ReadNow \in Seq(Half) /\ feed.lastSeq \in Nat /\ feed.from \in Nat /\ pushed \in Seq(Nat)
    BY <1>2, ReadIsHalves DEF FeedTyped, PushedSoFar
<1>4. PICK from \in Nat : SuffixOf(ReadNow, from) /\ Covers(from)
    BY <1>1, ReadsInStep
<1>5. ToldUpTo(ReadNow, feed.lastSeq, Len(ReadNow), told)
    BY <1>3, NewerIs
<1> HIDE DEF told
<1>6. told \in Seq(Nat) /\ Rising(told)
      /\ \A i \in 1..Len(told) : told[i] > feed.lastSeq /\ \E j \in 1..Len(ReadNow) : Parsed(ReadNow, j) /\ told[i] = ReadNow[j][1]
    BY <1>5 DEF ToldUpTo
<1>7. /\ RisingText(ReadNow)
      /\ \A k \in 1..Len(ReadNow) : Parsed(ReadNow, k) =>
            from + k \in 1..Len(spoolFile) /\ spoolFile[from + k][2] = "tail" /\ ReadNow[k][1] = spoolFile[from + k][1]
      /\ \A i \in 1..Len(spoolFile) : spoolFile[i][2] = "tail" /\ i - 1 > from =>
            i - from \in 1..Len(ReadNow) /\ Parsed(ReadNow, i - from) /\ ReadNow[i - from][1] = spoolFile[i][1]
    BY <1>2, <1>4, SuffixRises
<1>8. \A j \in 1..Len(ReadNow) : Parsed(ReadNow, j) /\ ReadNow[j][1] > feed.lastSeq => Has(told, ReadNow[j][1])
    BY <1>5, <1>7 DEF ToldUpTo
<1>9. renewed # "missed"
    OBVIOUS
<1>10. /\ feed.lastSeq <= emitted /\ (Len(spoolFile) % 2 # 0 => feed.lastSeq < emitted)
       /\ \A i \in 1..Len(spoolFile) :
             spoolFile[i][2] = "tail" /\ feed.from < spoolFile[i][1] /\ spoolFile[i][1] <= feed.lastSeq => Has(pushed, spoolFile[i][1])
    BY <1>1, <1>2, <1>9 DEF InStep
<1>11. /\ emitted \in Nat
       /\ \A i \in 1..Len(spoolFile) : spoolFile[i][1] \in Nat
       /\ \A i \in 1..Len(spoolFile) : spoolFile[i][2] = "tail" =>
             spoolFile[i][1] <= emitted /\ (Len(spoolFile) % 2 # 0 => spoolFile[i][1] < emitted)
    BY <1>2, TailsOfFile
<1>12. ASSUME NEW i \in 1..Len(spoolFile), spoolFile[i][2] = "tail", spoolFile[i][1] > feed.from
       PROVE  Has(pushed', spoolFile[i][1])
    <2>1. Has(pushed, spoolFile[i][1]) \/ i - 1 > from
        BY <1>4, <1>12 DEF Covers
    <2>2. CASE Has(pushed, spoolFile[i][1])
        BY <1>1, <1>3, <1>6, <2>2, HasMore
    <2>3. CASE i - 1 > from /\ spoolFile[i][1] <= feed.lastSeq
        <3>1. feed.from < spoolFile[i][1]
            BY <1>3, <1>11, <1>12
        <3>2. Has(pushed, spoolFile[i][1])
            BY <1>10, <1>12, <2>3, <3>1
        <3> QED BY <1>1, <1>3, <1>6, <3>2, HasMore
    <2>4. CASE i - 1 > from /\ spoolFile[i][1] > feed.lastSeq
        <3>1. i - from \in 1..Len(ReadNow) /\ Parsed(ReadNow, i - from) /\ ReadNow[i - from][1] = spoolFile[i][1]
            BY <1>7, <1>12, <2>4
        <3>2. Has(told, spoolFile[i][1])
            BY <1>8, <2>4, <3>1
        <3> QED BY <1>1, <1>3, <1>6, <3>2, HasMore
    <2>5. spoolFile[i][1] <= feed.lastSeq \/ spoolFile[i][1] > feed.lastSeq
        BY <1>3, <1>11
    <2> QED BY <2>1, <2>2, <2>3, <2>4, <2>5
<1>13. newest <= emitted /\ (Len(spoolFile) % 2 # 0 => newest < emitted)
    <2>1. CASE told = <<>>
        <3>1. newest = feed.lastSeq
            BY <2>1 DEF LastOf
        <3> QED BY <1>10, <3>1
    <2>2. CASE told # <<>>
        <3>1. Len(told) \in 1..Len(told) /\ newest = told[Len(told)]
            BY <1>3, <1>6, <2>2, LastOfIs
        <3>2. PICK j \in 1..Len(ReadNow) : Parsed(ReadNow, j) /\ told[Len(told)] = ReadNow[j][1]
            BY <1>6, <3>1
        <3>3. from + j \in 1..Len(spoolFile) /\ spoolFile[from + j][2] = "tail" /\ ReadNow[j][1] = spoolFile[from + j][1]
            BY <1>7, <3>2
        <3>4. newest = spoolFile[from + j][1]
            BY <3>1, <3>2, <3>3
        <3> HIDE DEF newest
        <3> QED BY <1>11, <3>3, <3>4
    <2> QED BY <2>1, <2>2
<1> HIDE DEF newest
<1> QED BY <1>1, <1>12, <1>13

\* When it read in step: what is kept is the last half of the file, when no line ends there.
LEMMA PumpKeepsTheRest ==
    ASSUME FeedIInv, Pump, renewed = "no" \/ (renewed = "yes" /\ Shrunk)
    PROVE  /\ feed'.partial = <<>> \/ (Len(spoolFile) > 0 /\ feed'.partial = <<spoolFile[Len(spoolFile)]>>)
           /\ feed'.partial = <<>> /\ Len(spoolFile) > 0 /\ spoolFile[Len(spoolFile)][2] = "head" =>
                 spoolFile[Len(spoolFile)][1] <= feed.from
<1> DEFINE chunk == ReadNow
           end == LastEnd(chunk)
           n == Len(chunk)
           L == Len(spoolFile)
<1>1. feed.on /\ feed'.partial = SubSeq(chunk, end + 1, n)
    BY PumpIs DEF FeedIInv
<1>2. FileHolds /\ FeedTyped
    BY DEF FeedIInv
<1>3. PICK from \in Nat : SuffixOf(chunk, from) /\ Covers(from)
    BY <1>1, ReadsInStep
<1>4. chunk \in Seq(Half) /\ n \in Nat /\ L \in Nat /\ n = L - from /\ from <= L
      /\ \A i \in 1..n : chunk[i] = spoolFile[from + i]
    <2>1. spoolFile \in Seq(Half)
        BY <1>2, TailsOfFile
    <2>2. chunk \in Seq(Half)
        BY <1>2, ReadIsHalves
    <2> HIDE DEF chunk
    <2>3. n \in Nat /\ L \in Nat
        BY <2>1, <2>2
    <2>4. n = L - from /\ from <= L /\ \A i \in 1..n : chunk[i] = spoolFile[from + i]
        BY <1>3, <2>3 DEF SuffixOf
    <2> QED BY <2>2, <2>3, <2>4
<1>5. EndUpTo(chunk, n, end)
    BY <1>4, LastEndIs
<1>6. /\ \A i \in 1..L : spoolFile[i][2] \in {"head", "tail"}
      /\ \A i \in 1..L : spoolFile[i][2] = "head" /\ i > 1 => spoolFile[i - 1][2] = "tail"
    BY <1>2, TailsOfFile
<1>7. from = L /\ L > 0 /\ spoolFile[L][2] = "head" => spoolFile[L][1] <= feed.from
    BY <1>3 DEF Covers
<1> HIDE DEF chunk, end, n
<1>8. end \in 0..n /\ (end > 0 => chunk[end][2] = "tail") /\ \A i \in end + 1..n : chunk[i][2] # "tail"
    BY <1>5 DEF EndUpTo
<1>9. CASE n = 0
    <2>1. end = 0 /\ from = L
        BY <1>4, <1>8, <1>9
    <2>2. SubSeq(chunk, end + 1, n) = <<>>
        BY <1>4, <1>9, <2>1
    <2> QED BY <1>1, <1>7, <2>1, <2>2
<1>10. CASE n > 0
    <2>1. n \in 1..n /\ from + n = L /\ L \in 1..L /\ chunk[n] = spoolFile[L]
        <3>1. n \in 1..n /\ from + n = L /\ L \in 1..L
            BY <1>4, <1>10
        <3>2. chunk[n] = spoolFile[from + n]
            BY <1>4, <3>1
        <3> HIDE DEF L
        <3> QED BY <3>1, <3>2
    <2>2. CASE spoolFile[L][2] = "tail"
        <3>1. end = n
            BY <1>4, <1>8, <2>1, <2>2
        <3>2. SubSeq(chunk, end + 1, n) = <<>>
            BY <1>4, <3>1
        <3>3. spoolFile[L][2] # "head"
            BY <2>2
        <3> QED BY <1>1, <3>2, <3>3
    <2>3. CASE spoolFile[L][2] = "head"
        <3>1. end + 1 = n
            <4>1. end # n
                <5>1. end = n => chunk[n][2] = "tail"
                    BY <1>8, <1>10
                <5> QED BY <5>1, <2>1, <2>3
            <4>2. ASSUME end + 1 < n PROVE FALSE
                <5> DEFINE m == n - 1
                <5>1. m \in end + 1..n /\ m \in 1..n /\ from + m = L - 1 /\ L > 1
                    BY <1>4, <1>8, <2>1, <4>2
                <5> HIDE DEF m
                <5>2. spoolFile[L - 1][2] = "tail"
                    BY <1>6, <2>1, <2>3, <5>1
                <5>3. chunk[m] = spoolFile[L - 1]
                    <6>1. chunk[m] = spoolFile[from + m]
                        BY <1>4, <5>1
                    <6> QED BY <6>1, <5>1
                <5> QED BY <1>8, <5>1, <5>2, <5>3
            <4> QED BY <1>4, <1>8, <4>1, <4>2
        <3>2. SubSeq(chunk, n, n) = <<chunk[n]>>
            <4> DEFINE last == SubSeq(chunk, n, n)
            <4>1. chunk[n] \in Half
                <5>1. spoolFile \in Seq(Half)
                    BY <1>2, TailsOfFile
                <5> QED BY <2>1, <5>1
            <4>2. n \in Int /\ \A i \in n..n : chunk[i] \in Half
                BY <1>4, <4>1
            <4>3. last \in Seq(Half) /\ Len(last) = 1 /\ last[1] = chunk[n]
                <5>1. last \in Seq(Half) /\ Len(last) = (IF n <= n THEN n - n + 1 ELSE 0) /\ \A i \in 1..n - n + 1 : last[i] = chunk[n + i - 1]
                    <6> HIDE DEF n
                    <6> QED BY <4>2, SubSeqProperties
                <5>2. n - n + 1 = 1 /\ n <= n /\ n + 1 - 1 = n /\ 1 \in 1..1
                    BY <1>4
                <5> HIDE DEF last
                <5> QED BY <5>1, <5>2
            <4> HIDE DEF last
            <4>4. last = <<chunk[n]>>
                BY <4>1, <4>3, SeqEqual
            <4> QED BY <4>4 DEF last
        <3>3. feed'.partial = <<spoolFile[L]>> /\ L > 0
            <4>1. feed'.partial = <<chunk[n]>>
                BY <1>1, <3>1, <3>2
            <4>2. L > 0
                BY <2>1
            <4> HIDE DEF L
            <4> QED BY <2>1, <4>1, <4>2
        <3>4. feed'.partial # <<>>
            BY <3>3
        <3> QED BY <3>3, <3>4
    <2>4. spoolFile[L][2] \in {"head", "tail"}
        BY <1>6, <2>1
    <2> QED BY <2>2, <2>3, <2>4
<1> QED BY <1>4, <1>9, <1>10

\* A pump keeps the feed in step, or knows that it missed a renewal.
LEMMA PumpSteps == FeedIInv /\ Pump => FeedIInv'
<1> SUFFICES ASSUME FeedIInv, Pump PROVE FeedIInv'
    OBVIOUS
<1>1. FileHolds' /\ FeedTyped' /\ PushedSoFar'
    BY PumpPushes DEF FeedIInv
<1>2. /\ feed.on /\ feed'.on /\ feed'.offset = Len(spoolFile) /\ feed'.from = feed.from
      /\ spoolFile' = spoolFile /\ emitted' = emitted
      /\ renewed' = IF renewed = "yes" THEN IF Shrunk THEN "no" ELSE "missed" ELSE renewed
    BY PumpIs DEF FeedIInv
<1>3. FeedTyped /\ FileHolds /\ Len(spoolFile) \in Nat
    BY TailsOfFile DEF FeedIInv
<1>4. renewed \in {"no", "yes", "missed"} /\ feed.from \in Nat
    BY <1>3 DEF FeedTyped
<1>5. CASE renewed = "no" \/ (renewed = "yes" /\ Shrunk)
    <2>1. /\ \A i \in 1..Len(spoolFile) : spoolFile[i][2] = "tail" /\ spoolFile[i][1] > feed.from => Has(pushed', spoolFile[i][1])
          /\ feed'.lastSeq <= emitted /\ (Len(spoolFile) % 2 # 0 => feed'.lastSeq < emitted)
        BY <1>5, PumpCatchesUp
    <2>2. /\ feed'.partial = <<>> \/ (Len(spoolFile) > 0 /\ feed'.partial = <<spoolFile[Len(spoolFile)]>>)
          /\ feed'.partial = <<>> /\ Len(spoolFile) > 0 /\ spoolFile[Len(spoolFile)][2] = "head" =>
                spoolFile[Len(spoolFile)][1] <= feed.from
        BY <1>5, PumpKeepsTheRest
    <2>3. \A i \in 1..Len(spoolFile) : spoolFile[i][1] \in Nat
        BY <1>3, TailsOfFile
    <2>4. InStep'
        <3>1. \A i \in 1..Len(spoolFile) : spoolFile[i][2] = "tail" /\ feed.from < spoolFile[i][1] => Has(pushed', spoolFile[i][1])
            BY <1>4, <2>1, <2>3
        <3> QED BY <1>2, <2>1, <3>1 DEF InStep
    <2>5. ReadSoFar'
        BY <1>2, <1>3, <2>1, <2>2 DEF ReadSoFar
    <2> QED BY <1>1, <2>4, <2>5 DEF FeedIInv
<1>6. CASE ~(renewed = "no" \/ (renewed = "yes" /\ Shrunk))
    <2>1. renewed' = "missed"
        BY <1>2, <1>4, <1>6
    <2> QED BY <1>1, <2>1 DEF FeedIInv, InStep, ReadSoFar
<1> QED BY <1>5, <1>6

\* A line the guest writes is after all that was read and newer than all that was pushed.
LEMMA HeadSteps == FeedIInv /\ GuestWritesHead => FeedIInv'
<1> SUFFICES ASSUME FeedIInv, GuestWritesHead PROVE FeedIInv'
    OBVIOUS
<1> DEFINE half == <<emitted + 1, "head">>
<1>1. FileHolds' /\ FileHolds /\ FeedTyped /\ PushedSoFar /\ InStep /\ ReadSoFar
    BY HeadWritten DEF FeedIInv
<1>2. /\ emitted < Events /\ Len(spoolFile) % 2 = 0 /\ emitted' = emitted + 1 /\ spoolFile' = Append(spoolFile, half)
      /\ feed' = feed /\ pushed' = pushed /\ renewed' = renewed
    BY DEF GuestWritesHead, WholeFile
<1>3. spoolFile \in Seq(Half) /\ emitted \in Nat /\ half \in Half
    <2>1. spoolFile \in Seq(Half) /\ emitted \in Nat
        BY <1>1, TailsOfFile
    <2> QED BY <2>1 DEF Half
<1>4. half[2] # "tail"
    OBVIOUS
<1> HIDE DEF half
<1>5. Len(spoolFile') = Len(spoolFile) + 1 /\ (\A i \in 1..Len(spoolFile) : spoolFile'[i] = spoolFile[i])
      /\ spoolFile'[Len(spoolFile) + 1] = half /\ Len(spoolFile) \in Nat
    BY <1>2, <1>3, AppendProperties
<1>6. FeedTyped'
    BY <1>1, <1>2, <1>3, FeedBounds DEF FeedTyped
<1>7. PushedSoFar'
    BY <1>1, <1>2 DEF PushedSoFar
<1>8. InStep'
    <2> SUFFICES ASSUME feed.on, renewed # "missed"
                 PROVE  /\ feed.lastSeq < emitted'
                        /\ \A i \in 1..Len(spoolFile') : spoolFile'[i][2] = "tail" /\ feed.from < spoolFile'[i][1] /\ spoolFile'[i][1] <= feed.lastSeq
                              => Has(pushed, spoolFile'[i][1])
        <3>1. feed.lastSeq \in Nat /\ emitted' \in Nat
            BY <1>2, <1>3, <1>1 DEF FeedTyped
        <3> QED BY <1>2, <3>1 DEF InStep
    <2>1. feed.lastSeq <= emitted /\ feed.lastSeq \in Nat
        BY <1>1 DEF InStep, FeedTyped
    <2>2. ASSUME NEW i \in 1..Len(spoolFile'), spoolFile'[i][2] = "tail", feed.from < spoolFile'[i][1], spoolFile'[i][1] <= feed.lastSeq
          PROVE  Has(pushed, spoolFile'[i][1])
        <3>1. i \in 1..Len(spoolFile)
            BY <1>4, <1>5, <2>2
        <3>2. spoolFile'[i] = spoolFile[i]
            BY <1>5, <3>1
        <3> QED BY <1>1, <2>2, <3>1, <3>2 DEF InStep
    <2> QED BY <1>2, <1>3, <2>1, <2>2
<1>9. ReadSoFar'
    <2> SUFFICES ASSUME feed.on, renewed = "no"
                 PROVE  /\ feed.offset <= Len(spoolFile')
                        /\ feed.partial = <<>> \/ (feed.offset > 0 /\ feed.partial = <<spoolFile'[feed.offset]>>)
                        /\ feed.partial = <<>> /\ feed.offset > 0 /\ spoolFile'[feed.offset][2] = "head" => spoolFile'[feed.offset][1] <= feed.from
                        /\ \A i \in 1..feed.offset : spoolFile'[i][2] = "tail" /\ spoolFile'[i][1] > feed.from => Has(pushed, spoolFile'[i][1])
        BY <1>2 DEF ReadSoFar
    <2>1. feed.offset \in Nat /\ feed.offset <= Len(spoolFile)
        BY <1>1 DEF ReadSoFar, FeedTyped
    <2>2. \A i \in 1..feed.offset : spoolFile'[i] = spoolFile[i]
        BY <1>5, <2>1
    <2>3. feed.offset > 0 => spoolFile'[feed.offset] = spoolFile[feed.offset]
        BY <2>1, <2>2
    <2> QED BY <1>1, <1>5, <2>1, <2>2, <2>3 DEF ReadSoFar
<1> QED BY <1>1, <1>6, <1>7, <1>8, <1>9 DEF FeedIInv

\* A line that the guest ends after the last read is newer than all that was pushed.
LEMMA TailSteps == FeedIInv /\ GuestWritesTail => FeedIInv'
<1> SUFFICES ASSUME FeedIInv, GuestWritesTail PROVE FeedIInv'
    OBVIOUS
<1> DEFINE half == <<emitted, "tail">>
<1>1. FileHolds' /\ FileHolds /\ FeedTyped /\ PushedSoFar /\ InStep /\ ReadSoFar
    BY TailWritten DEF FeedIInv
<1>2. /\ Len(spoolFile) % 2 # 0 /\ emitted' = emitted /\ spoolFile' = Append(spoolFile, half)
      /\ feed' = feed /\ pushed' = pushed /\ renewed' = renewed
    BY DEF GuestWritesTail, WholeFile
<1>3. spoolFile \in Seq(Half) /\ emitted \in Nat /\ half \in Half
    <2>1. spoolFile \in Seq(Half) /\ emitted \in Nat
        BY <1>1, TailsOfFile
    <2> QED BY <2>1 DEF Half
<1>4. half[1] = emitted
    OBVIOUS
<1> HIDE DEF half
<1>5. Len(spoolFile') = Len(spoolFile) + 1 /\ (\A i \in 1..Len(spoolFile) : spoolFile'[i] = spoolFile[i])
      /\ spoolFile'[Len(spoolFile) + 1] = half /\ Len(spoolFile) \in Nat
    BY <1>2, <1>3, AppendProperties
<1>6. FeedTyped'
    BY <1>1, <1>2 DEF FeedTyped
<1>7. PushedSoFar'
    BY <1>1, <1>2 DEF PushedSoFar
<1>8. InStep'
    <2> SUFFICES ASSUME feed.on, renewed # "missed"
                 PROVE  /\ feed.lastSeq < emitted
                        /\ \A i \in 1..Len(spoolFile') : spoolFile'[i][2] = "tail" /\ feed.from < spoolFile'[i][1] /\ spoolFile'[i][1] <= feed.lastSeq
                              => Has(pushed, spoolFile'[i][1])
        <3>1. feed.lastSeq \in Nat
            BY <1>1 DEF FeedTyped
        <3> QED BY <1>2, <1>3, <3>1 DEF InStep
    <2>1. feed.lastSeq < emitted /\ feed.lastSeq \in Nat
        BY <1>1, <1>2 DEF InStep, FeedTyped
    <2>2. ASSUME NEW i \in 1..Len(spoolFile'), spoolFile'[i][2] = "tail", feed.from < spoolFile'[i][1], spoolFile'[i][1] <= feed.lastSeq
          PROVE  Has(pushed, spoolFile'[i][1])
        <3>1. i \in 1..Len(spoolFile) \/ i = Len(spoolFile) + 1
            BY <1>5
        <3>2. i # Len(spoolFile) + 1
            BY <1>3, <1>4, <1>5, <2>1, <2>2
        <3>3. spoolFile'[i] = spoolFile[i]
            BY <1>5, <3>1, <3>2
        <3> QED BY <1>1, <2>2, <3>1, <3>2, <3>3 DEF InStep
    <2> QED BY <2>1, <2>2
<1>9. ReadSoFar'
    <2> SUFFICES ASSUME feed.on, renewed = "no"
                 PROVE  /\ feed.offset <= Len(spoolFile')
                        /\ feed.partial = <<>> \/ (feed.offset > 0 /\ feed.partial = <<spoolFile'[feed.offset]>>)
                        /\ feed.partial = <<>> /\ feed.offset > 0 /\ spoolFile'[feed.offset][2] = "head" => spoolFile'[feed.offset][1] <= feed.from
                        /\ \A i \in 1..feed.offset : spoolFile'[i][2] = "tail" /\ spoolFile'[i][1] > feed.from => Has(pushed, spoolFile'[i][1])
        BY <1>2 DEF ReadSoFar
    <2>1. feed.offset \in Nat /\ feed.offset <= Len(spoolFile)
        BY <1>1 DEF ReadSoFar, FeedTyped
    <2>2. \A i \in 1..feed.offset : spoolFile'[i] = spoolFile[i]
        BY <1>5, <2>1
    <2>3. feed.offset > 0 => spoolFile'[feed.offset] = spoolFile[feed.offset]
        BY <2>1, <2>2
    <2> QED BY <1>1, <1>5, <2>1, <2>2, <2>3 DEF ReadSoFar
<1> QED BY <1>1, <1>6, <1>7, <1>8, <1>9 DEF FeedIInv

\* A file started anew has no line that the old one did not have.
LEMMA RotationSteps == FeedIInv /\ GuestRotates => FeedIInv'
<1> SUFFICES ASSUME FeedIInv, GuestRotates PROVE FeedIInv'
    OBVIOUS
<1>1. FileHolds /\ FeedTyped /\ PushedSoFar /\ InStep /\ ReadSoFar
    BY DEF FeedIInv
<1>2. FileHolds' /\ \A i \in 1..Len(spoolFile') : \E j \in 1..Len(spoolFile) : spoolFile'[i] = spoolFile[j]
    BY <1>1, RotatedFile
<1>3. /\ renewed' = (IF feed.offset > 0 /\ renewed = "no" THEN "yes" ELSE renewed)
      /\ emitted' = emitted /\ feed' = feed /\ pushed' = pushed
    BY DEF GuestRotates
<1>4. feed.offset \in Nat /\ feed.lastSeq \in Nat /\ renewed \in {"no", "yes", "missed"}
    BY <1>1 DEF FeedTyped
<1>5. Len(spoolFile') % 2 = 0 /\ Len(spoolFile') \in Nat
    <2>1. PICK more \in 0..(Len(spoolFile) \div 2 - 1) : spoolFile' = SubSeq(spoolFile, Len(spoolFile) - 2 * more + 1, Len(spoolFile))
        BY DEF GuestRotates
    <2>2. Len(spoolFile) \in Nat /\ spoolFile \in Seq(Half)
        BY <1>1, TailsOfFile
    <2>3. more \in Nat /\ 2 * more <= Len(spoolFile)
        BY <2>1, <2>2
    <2> DEFINE gone == Len(spoolFile) - 2 * more
    <2>4. gone \in Nat /\ gone <= Len(spoolFile) /\ Len(spoolFile) - gone = 2 * more
        BY <2>2, <2>3
    <2> HIDE DEF gone
    <2>5. spoolFile' = SubSeq(spoolFile, gone + 1, Len(spoolFile))
        BY <2>1 DEF gone
    <2>6. Len(spoolFile') = 2 * more
        BY <2>2, <2>4, <2>5
    <2> QED BY <2>3, <2>6
<1>6. FeedTyped'
    BY <1>1, <1>3 DEF FeedTyped
<1>7. PushedSoFar'
    BY <1>1, <1>3 DEF PushedSoFar
<1>8. InStep'
    <2> SUFFICES ASSUME feed.on, renewed # "missed"
                 PROVE  /\ feed.lastSeq <= emitted
                        /\ \A i \in 1..Len(spoolFile') : spoolFile'[i][2] = "tail" /\ feed.from < spoolFile'[i][1] /\ spoolFile'[i][1] <= feed.lastSeq
                              => Has(pushed, spoolFile'[i][1])
        BY <1>3, <1>5 DEF InStep
    <2> QED BY <1>1, <1>2 DEF InStep
<1>9. ReadSoFar'
    <2> SUFFICES ASSUME feed.on, renewed' = "no"
                 PROVE  /\ feed.offset <= Len(spoolFile')
                        /\ feed.partial = <<>> \/ (feed.offset > 0 /\ feed.partial = <<spoolFile'[feed.offset]>>)
                        /\ feed.partial = <<>> /\ feed.offset > 0 /\ spoolFile'[feed.offset][2] = "head" => spoolFile'[feed.offset][1] <= feed.from
                        /\ \A i \in 1..feed.offset : spoolFile'[i][2] = "tail" /\ spoolFile'[i][1] > feed.from => Has(pushed, spoolFile'[i][1])
        BY <1>3 DEF ReadSoFar
    <2>1. feed.offset = 0 /\ renewed = "no"
        BY <1>3, <1>4
    <2>2. feed.partial = <<>>
        BY <1>1, <2>1 DEF ReadSoFar
    <2> QED BY <1>5, <2>1, <2>2
<1> QED BY <1>2, <1>6, <1>7, <1>8, <1>9 DEF FeedIInv

\* No half of the file is of an event not emitted yet; a line begun is of one that was.
LEMMA FileTops ==
    ASSUME FileHolds
    PROVE  /\ \A i \in 1..Len(spoolFile) : spoolFile[i][1] <= emitted
           /\ Len(spoolFile) % 2 # 0 => 0 < emitted
<1>1. PICK base, count : FileIs(base, count)
    BY DEF FileHolds
<1>2. base \in Nat /\ count \in Nat /\ emitted = base + count /\ Len(spoolFile) \in Nat
      /\ (Len(spoolFile) = 2 * count \/ Len(spoolFile) + 1 = 2 * count)
    BY <1>1 DEF FileIs
<1>3. ASSUME NEW i \in 1..Len(spoolFile) PROVE spoolFile[i][1] <= emitted
    <2>1. PICK j \in 1..count : spoolFile[i][1] = base + j
        BY <1>1, HalfAt
    <2> QED BY <1>2, <2>1
<1>4. ASSUME Len(spoolFile) % 2 # 0 PROVE 0 < emitted
    <2>1. count # 0
        BY <1>2, <1>4
    <2> QED BY <1>2, <2>1
<1> QED BY <1>3, <1>4

\* A watch begins with nothing pushed and nothing due; a watch that ends has nothing.
LEMMA WatchSteps == FeedIInv /\ (StartFeedWatch \/ StopFeedWatch) => FeedIInv'
<1> SUFFICES ASSUME FeedIInv, StartFeedWatch \/ StopFeedWatch PROVE FeedIInv'
    OBVIOUS
<1>1. FileHolds /\ FeedTyped
    BY DEF FeedIInv
<1>2. emitted \in 0..Events /\ feed.nth \in 0..MaxWatch /\ Len(spoolFile) \in Nat /\ spoolFile \in Seq(Half) /\ MaxWatch \in Nat /\ Events \in Nat
    BY <1>1, TailsOfFile, FeedBounds DEF FeedTyped
<1>3. pushed' = <<>> /\ renewed' = "no" /\ spoolFile' = spoolFile /\ emitted' = emitted
    BY DEF StartFeedWatch, StopFeedWatch, guestVars
<1>4. FileHolds'
    BY <1>1, <1>3 DEF FileHolds, FileIs
<1>5. <<>> \in Seq(Half)
    OBVIOUS
<1>6. /\ \A i \in 1..Len(spoolFile) : spoolFile[i][1] \in Nat /\ spoolFile[i][2] \in {"head", "tail"}
      /\ \A i \in 1..Len(spoolFile) : spoolFile[i][2] = "tail" => spoolFile[i][1] <= emitted
    BY <1>1, TailsOfFile
<1>7. \A i \in 1..Len(spoolFile) : spoolFile[i][1] <= emitted
    BY <1>1, FileTops
<1>8. CASE StartFeedWatch
    <2>1. feed.nth < MaxWatch /\ feed' = [on |-> TRUE, nth |-> feed.nth + 1, offset |-> Len(spoolFile), partial |-> <<>>, lastSeq |-> 0, from |-> emitted]
        BY <1>8 DEF StartFeedWatch, NoWatch
    <2>2. feed.nth + 1 \in 0..MaxWatch
        BY <1>2, <2>1
    <2>3. FeedTyped'
        BY <1>2, <1>3, <1>5, <2>1, <2>2 DEF FeedTyped
    <2>4. PushedSoFar'
        BY <1>3 DEF PushedSoFar, Rising
    <2>5. InStep'
        <3> SUFFICES ASSUME NEW i \in 1..Len(spoolFile), spoolFile[i][2] = "tail", emitted < spoolFile[i][1] PROVE FALSE
            <4>1. Len(spoolFile) % 2 # 0 => 0 < emitted
                BY <1>1, FileTops
            <4> QED BY <1>2, <1>3, <2>1, <4>1 DEF InStep
        <3> QED BY <1>2, <1>6
    <2>6. ReadSoFar'
        <3>1. \A i \in 1..Len(spoolFile) : ~(spoolFile[i][1] > emitted)
            BY <1>2, <1>6, <1>7
        <3> QED BY <1>2, <1>3, <1>7, <2>1, <3>1 DEF ReadSoFar
    <2> QED BY <1>4, <2>3, <2>4, <2>5, <2>6 DEF FeedIInv
<1>9. CASE StopFeedWatch
    <2>1. feed' = [on |-> FALSE, nth |-> feed.nth, offset |-> 0, partial |-> <<>>, lastSeq |-> 0, from |-> 0]
        BY <1>9 DEF StopFeedWatch, NoWatch
    <2>2. FeedTyped'
        BY <1>2, <1>3, <1>5, <2>1 DEF FeedTyped
    <2>3. PushedSoFar'
        BY <1>3 DEF PushedSoFar, Rising
    <2> QED BY <1>4, <2>1, <2>2, <2>3 DEF FeedIInv, InStep, ReadSoFar
<1> QED BY <1>8, <1>9

\* Each step of the guest and of the watch.
LEMMA FeedSteps == FeedIInv /\ FeedNext => FeedIInv'
BY HeadSteps, TailSteps, RotationSteps, PumpSteps, WatchSteps DEF FeedNext

\* Nothing changes while neither the guest nor the watch moves.
LEMMA FeedRests == FeedIInv /\ UNCHANGED feedVars => FeedIInv'
BY DEF feedVars, FeedIInv, FileHolds, FileIs, FeedTyped, PushedSoFar, InStep, ReadSoFar

\* What the invariant says of the events of a watch.
LEMMA FeedSafe == FeedIInv => FeedInv
<1> SUFFICES ASSUME FeedIInv PROVE FeedInv
    OBVIOUS
<1>1. FileHolds /\ FeedTyped /\ PushedSoFar /\ ReadSoFar
    BY DEF FeedIInv
<1>2. DOMAIN pushed = 1..Len(pushed)
    BY <1>1 DEF PushedSoFar
<1>3. FeedTypeOK
    BY <1>1 DEF FeedTyped, FeedTypeOK
<1>4. PushedInOrder
    BY <1>1, <1>2 DEF PushedInOrder, PushedSoFar, Rising
<1>5. ReadIsPushed
    BY <1>1, <1>2 DEF ReadIsPushed, ReadSoFar, Has
<1> QED BY <1>3, <1>4, <1>5 DEF FeedInv

-----------------------------------------------------------------------------
(* FileCalls: a text that is split in lines and joined again is the same     *)
(* text, so what an edit writes has the lines it kept; a git add stages what *)
(* it may.                                                                   *)

\* A line has no line end in it; a text that was split has a line at least.
Plain == Nat \ {0}
Line == Seq(Plain)
TextLines == {lines \in Seq(Line) : lines # <<>>}

\* What one character more does to the lines.
Put(lines, ch) == IF ch = 0 THEN Append(lines, <<>>) ELSE [lines EXCEPT ![Len(lines)] = Append(@, ch)]

\* The lines after one character more, and the last of them.
LEMMA PutIs ==
    ASSUME NEW lines \in TextLines, NEW ch \in Nat
    PROVE  Put(lines, ch) \in TextLines
<1>1. lines \in Seq(Line) /\ Len(lines) \in Nat /\ Len(lines) \in 1..Len(lines)
    BY DEF TextLines
<1>2. CASE ch = 0
    <2> DEFINE more == Append(lines, <<>>)
    <2>1. <<>> \in Line
        BY DEF Line
    <2>2. more \in Seq(Line) /\ more # <<>>
        <3> HIDE DEF more
        <3>1. Append(lines, <<>>) \in Seq(Line) /\ Append(lines, <<>>) # <<>>
            BY <1>1, <2>1, AppendProperties
        <3> QED BY <3>1 DEF more
    <2> QED BY <1>2, <2>2 DEF Put, TextLines
<1>3. CASE ch # 0
    <2> DEFINE last == Append(lines[Len(lines)], ch)
    <2>1. last \in Line
        <3>1. lines[Len(lines)] \in Seq(Plain) /\ ch \in Plain
            BY <1>1, <1>3 DEF Line, Plain
        <3> QED BY <3>1, AppendProperties DEF Line
    <2> HIDE DEF last
    <2>2. [lines EXCEPT ![Len(lines)] = last] \in Seq(Line)
        BY <1>1, <2>1
    <2>3. Len([lines EXCEPT ![Len(lines)] = last]) = Len(lines)
        BY <1>1, <2>1
    <2>4. [lines EXCEPT ![Len(lines)] = last] # <<>>
        BY <1>1, <2>2, <2>3
    <2>5. Put(lines, ch) = [lines EXCEPT ![Len(lines)] = last]
        BY <1>3 DEF Put, last
    <2> QED BY <2>2, <2>4, <2>5 DEF TextLines
<1> QED BY <1>2, <1>3

\* split, character by character.
LEMMA SplitSteps ==
    ASSUME NEW t \in Seq(Nat)
    PROVE  \E f \in [0..Len(t) -> TextLines] :
              /\ f[0] = <<<<>>>>
              /\ \A k \in 1..Len(t) : f[k] = Put(f[k - 1], t[k])
              /\ Split(t) = f[Len(t)]
<1> DEFINE n == Len(t)
           base == <<<<>>>>
           step == [p \in Nat \X TextLines |-> IF p[1] \in 1..n THEN Put(p[2], t[p[1]]) ELSE p[2]]
           splitting[w \in SUBSET DOMAIN t] == IF w = {} THEN base ELSE LET top == Max(w) IN Put(splitting[w \ {top}], t[top])
<1>1. Split(t) = splitting[DOMAIN t]
    BY DEF Split, FoldLeft, MapThenFoldSet, Put
<1>2. DOMAIN t = 1..n /\ n \in Nat /\ \A k \in 1..n : t[k] \in Nat
    OBVIOUS
<1>3. base \in TextLines
    <2>1. <<>> \in Line
        BY DEF Line
    <2> QED BY <2>1 DEF TextLines
<1>4. step \in [Nat \X TextLines -> TextLines]
    <2> HIDE DEF n
    <2>1. \A p \in Nat \X TextLines : (IF p[1] \in 1..n THEN Put(p[2], t[p[1]]) ELSE p[2]) \in TextLines
        BY <1>2, PutIs
    <2> QED BY <2>1
<1>5. PICK g \in [SUBSET (1..n) -> TextLines] : FoldOf(g, n, base, step)
    <2> HIDE DEF n, step, base
    <2> QED BY <1>2, <1>3, <1>4, FoldsExist
<1>6. g = [w \in SUBSET DOMAIN t |-> IF w = {} THEN base ELSE LET top == Max(w) IN Put(g[w \ {top}], t[top])]
    <2>1. ASSUME NEW w \in SUBSET (1..n), w # {} PROVE step[<<Max(w), g[w \ {Max(w)}]>>] = Put(g[w \ {Max(w)}], t[Max(w)])
        <3>1. Max(w) \in 1..n
            <4>1. w \in SUBSET (0..n)
                BY <1>2
            <4> QED BY <1>2, <2>1, <4>1, MaxOf
        <3>2. g[w \ {Max(w)}] \in TextLines
            OBVIOUS
        <3> HIDE DEF n
        <3> QED BY <3>1, <3>2, <1>2
    <2> HIDE DEF n, step, base
    <2> QED BY <1>2, <1>5, <2>1 DEF FoldOf
<1>7. splitting = [w \in SUBSET DOMAIN t |-> IF w = {} THEN base ELSE LET top == Max(w) IN Put(splitting[w \ {top}], t[top])]
    <2> HIDE DEF step, base
    <2> QED BY <1>6
<1> DEFINE f == [k \in 0..n |-> splitting[1..k]]
<1>8. f[0] = base /\ \A k \in 1..n : f[k] = Put(f[k - 1], t[k])
    <2>1. splitting[1..0] = base
        <3>1. 1..0 = {} /\ {} \in SUBSET (1..n)
            OBVIOUS
        <3> HIDE DEF splitting, n, base
        <3> QED BY <1>2, <1>7, <3>1
    <2>2. ASSUME NEW k \in 1..n PROVE splitting[1..k] = Put(splitting[1..(k - 1)], t[k])
        <3> HIDE DEF splitting, n, base
        <3>1. 1..k \in SUBSET (1..n) /\ 1..k # {} /\ Max(1..k) = k /\ (1..k) \ {k} = 1..(k - 1)
            BY <1>2, MaxUpTo
        <3> QED BY <1>2, <1>7, <3>1
    <2>3. 0 \in 0..n /\ \A k \in 1..n : k \in 0..n /\ k - 1 \in 0..n
        BY <1>2
    <2> HIDE DEF splitting, n, base
    <2> QED BY <2>1, <2>2, <2>3
<1>9. \A k \in 0..n : f[k] \in TextLines
    <2> DEFINE S == {k \in 0..n : f[k] \in TextLines}
    <2> HIDE DEF f
    <2>1. 0 \in S
        <3> HIDE DEF base
        <3> QED BY <1>2, <1>3, <1>8
    <2>2. ASSUME NEW k \in 1..n, k - 1 \in S PROVE k \in S
        <3>1. k \in 0..n /\ t[k] \in Nat /\ f[k - 1] \in TextLines
            BY <1>2, <2>2
        <3> QED BY <1>8, <3>1, PutIs
    <2>3. \A k \in 0..n : k \in S
        <3> HIDE DEF S, n
        <3> QED BY <1>2, <2>1, <2>2, UpTo
    <2> QED BY <2>3
<1>10. Split(t) = f[n] /\ f \in [0..n -> TextLines]
    <2>1. n \in 0..n
        BY <1>2
    <2>2. f[n] = splitting[1..n]
        <3> HIDE DEF splitting, n
        <3> QED BY <2>1
    <2> HIDE DEF splitting, n
    <2> QED BY <1>1, <1>2, <1>9, <2>2
<1> HIDE DEF f
<1> QED BY <1>8, <1>10

\* A text that is split is a list of lines, one at least.
LEMMA SplitIs ==
    ASSUME NEW t \in Seq(Nat)
    PROVE  Split(t) \in TextLines
<1>1. PICK f \in [0..Len(t) -> TextLines] : Split(t) = f[Len(t)]
    BY SplitSteps
<1>2. Len(t) \in 0..Len(t)
    OBVIOUS
<1> QED BY <1>1, <1>2

\* The empty text is one empty line.
LEMMA SplitNone == Split(<<>>) = <<<<>>>>
<1>1. <<>> \in Seq(Nat) /\ Len(<<>>) = 0
    OBVIOUS
<1>2. PICK f \in [0..Len(<<>>) -> TextLines] : f[0] = <<<<>>>> /\ Split(<<>>) = f[Len(<<>>)]
    BY <1>1, SplitSteps
<1> QED BY <1>1, <1>2

\* One character more.
LEMMA SplitMore ==
    ASSUME NEW t \in Seq(Nat), NEW ch \in Nat
    PROVE  Split(Append(t, ch)) = Put(Split(t), ch)
<1> DEFINE n == Len(t)
           more == Append(t, ch)
<1>1. n \in Nat /\ more \in Seq(Nat) /\ Len(more) = n + 1 /\ more[n + 1] = ch /\ \A k \in 1..n : more[k] = t[k]
    BY AppendProperties
<1> HIDE DEF more
<1>2. PICK f \in [0..n -> TextLines] : f[0] = <<<<>>>> /\ (\A k \in 1..n : f[k] = Put(f[k - 1], t[k])) /\ Split(t) = f[n]
    BY SplitSteps
<1>3. PICK g \in [0..n + 1 -> TextLines] :
         g[0] = <<<<>>>> /\ (\A k \in 1..n + 1 : g[k] = Put(g[k - 1], more[k])) /\ Split(more) = g[n + 1]
    <2>1. \E g \in [0..Len(more) -> TextLines] :
             g[0] = <<<<>>>> /\ (\A k \in 1..Len(more) : g[k] = Put(g[k - 1], more[k])) /\ Split(more) = g[Len(more)]
        BY <1>1, SplitSteps
    <2> HIDE DEF n
    <2> QED BY <1>1, <2>1
<1>4. \A k \in 0..n : f[k] = g[k]
    <2> DEFINE S == {k \in 0..n : f[k] = g[k]}
    <2>1. 0 \in S
        <3>1. f[0] = g[0]
            BY <1>2, <1>3
        <3>2. 0 \in 0..n
            BY <1>1
        <3> QED BY <3>1, <3>2
    <2>2. ASSUME NEW k \in 1..n, k - 1 \in S PROVE k \in S
        <3> HIDE DEF n
        <3>1. k \in 0..n /\ k \in 1..n + 1
            BY <1>1
        <3> QED BY <1>1, <1>2, <1>3, <2>2, <3>1
    <2>3. \A k \in 0..n : k \in S
        <3> HIDE DEF S, n
        <3> QED BY <1>1, <2>1, <2>2, UpTo
    <2> QED BY <2>3
<1>5. f[n] = g[n] /\ g[n + 1] = Put(g[n], ch)
    <2>1. n \in 0..n /\ n + 1 \in 1..n + 1 /\ (n + 1) - 1 = n
        BY <1>1
    <2> HIDE DEF n
    <2> QED BY <1>1, <1>3, <1>4, <2>1
<1> HIDE DEF n
<1> QED BY <1>2, <1>3, <1>5 DEF more

\* A line is a text.
LEMMA LinesAreTexts == ASSUME NEW l \in Line PROVE l \in Seq(Nat) /\ l \in Seq(Plain)
<1>1. l \in Seq(Plain)
    BY DEF Line
<1>2. Len(l) \in Nat /\ \A i \in 1..Len(l) : l[i] \in Nat
    BY <1>1 DEF Plain
<1>3. l = [i \in 1..Len(l) |-> l[i]]
    BY <1>1
<1> QED BY <1>1, <1>2, <1>3

\* A line end opens a line, and the characters after it are in that line.
LEMMA SplitLine ==
    ASSUME NEW t \in Seq(Nat), NEW lines, NEW l \in Line, lines \in Seq(Line), Split(t) = Append(lines, <<>>)
    PROVE  Split(t \o l) = Append(lines, l)
<1> DEFINE n == Len(l)
           part(k) == SubSeq(l, 1, k)
<1>1. n \in Nat /\ l \in Seq(Plain) /\ Plain \subseteq Nat
    BY DEF Line, Plain
<1>2. \A k \in 0..n : part(k) \in Seq(Plain) /\ part(k) \in Line /\ part(k) \in Seq(Nat)
    <2> SUFFICES ASSUME NEW k \in 0..n PROVE part(k) \in Seq(Plain) /\ part(k) \in Line /\ part(k) \in Seq(Nat)
        OBVIOUS
    <2>1. part(k) \in Seq(Plain)
        <3>1. \A i \in 1..k : l[i] \in Plain
            BY <1>1
        <3> QED BY <1>1, <3>1, SubSeqProperties
    <2>2. part(k) \in Line
        BY <2>1 DEF Line
    <2> HIDE DEF part
    <2> QED BY <2>1, <2>2, LinesAreTexts
<1>3. part(0) = <<>> /\ part(n) = l
    <2>1. part(0) = <<>>
        BY SubSeqEmpty
    <2>2. part(n) = l
        BY <1>1, SubSeqFull
    <2> QED BY <2>1, <2>2
<1>4. \A k \in 1..n : part(k) = Append(part(k - 1), l[k]) /\ l[k] \in Plain
    <2> SUFFICES ASSUME NEW k \in 1..n PROVE part(k) = Append(part(k - 1), l[k]) /\ l[k] \in Plain
        OBVIOUS
    <2>1. k - 1 \in 0..n /\ l[k] \in Plain /\ 1 \in 1..Len(l) /\ k \in 1..Len(l)
        BY <1>1
    <2>2. SubSeq(l, 1, k) = SubSeq(l, 1, k - 1) \o <<l[k]>>
        BY <1>1, <2>1, SubSeqRecursiveSecond
    <2>3. Append(part(k - 1), l[k]) = part(k - 1) \o <<l[k]>>
        <3>1. part(k - 1) \in Seq(Plain)
            BY <1>2, <2>1
        <3> HIDE DEF part
        <3> QED BY <2>1, <3>1, AppendIsConcat
    <2> QED BY <2>1, <2>2, <2>3
<1> HIDE DEF part
<1>5. \A k \in 0..n : Split(t \o part(k)) = Append(lines, part(k))
    <2> DEFINE S == {k \in 0..n : Split(t \o part(k)) = Append(lines, part(k))}
    <2>1. 0 \in S
        <3>1. t \o <<>> = t /\ 0 \in 0..n
            BY <1>1, ConcatEmptySeq
        <3>2. t \o part(0) = t /\ Append(lines, part(0)) = Split(t)
            BY <1>3, <3>1
        <3> QED BY <3>1, <3>2
    <2>2. ASSUME NEW k \in 1..n, k - 1 \in S PROVE k \in S
        <3> DEFINE old == part(k - 1)
        <3>1. k \in 0..n /\ old \in Seq(Nat) /\ old \in Line /\ part(k) = Append(old, l[k]) /\ l[k] \in Plain
              /\ Split(t \o old) = Append(lines, old)
            <4>1. k - 1 \in 0..n /\ k \in 0..n
                BY <1>1
            <4> HIDE DEF n
            <4> QED BY <1>2, <1>4, <2>2, <4>1
        <3> HIDE DEF old
        <3> DEFINE ch == l[k]
        <3>2. ch \in Nat /\ ch # 0 /\ part(k) = Append(old, ch)
            BY <3>1 DEF Plain
        <3> HIDE DEF ch
        <3>3. t \o Append(old, ch) = Append(t \o old, ch)
            <4>1. Append(old, ch) = old \o <<ch>> /\ <<ch>> \in Seq(Nat) /\ t \o old \in Seq(Nat)
                BY <3>1, <3>2, AppendIsConcat
            <4>2. Append(t \o old, ch) = (t \o old) \o <<ch>>
                BY <3>2, <4>1, AppendIsConcat
            <4>3. (t \o old) \o <<ch>> = t \o (old \o <<ch>>)
                BY <3>1, <4>1, ConcatAssociative
            <4> QED BY <4>1, <4>2, <4>3
        <3>4. Split(t \o part(k)) = Put(Append(lines, old), ch)
            <4>1. t \o old \in Seq(Nat)
                BY <3>1
            <4> QED BY <3>1, <3>2, <3>3, <4>1, SplitMore
        <3>5. Put(Append(lines, old), ch) = Append(lines, Append(old, ch))
            <4> DEFINE list == Append(lines, old)
                       m == Len(lines)
            <4>1. list \in Seq(Line) /\ Len(list) = m + 1 /\ list[m + 1] = old /\ (\A i \in 1..m : list[i] = lines[i]) /\ m \in Nat
                BY <3>1, AppendProperties
            <4> DEFINE line == Append(old, ch)
            <4>2. line \in Line
                <5>1. old \in Seq(Plain) /\ ch \in Plain
                    BY <3>1, <3>2 DEF Line, Plain
                <5> QED BY <5>1, AppendProperties DEF Line
            <4> HIDE DEF list
            <4>3. Put(list, ch) = [list EXCEPT ![Len(list)] = line]
                BY <3>2, <4>1 DEF Put
            <4> HIDE DEF line
            <4> DEFINE left == [list EXCEPT ![Len(list)] = line]
                       right == Append(lines, line)
            <4>4. right \in Seq(Line) /\ Len(right) = m + 1 /\ right[m + 1] = line /\ \A i \in 1..m : right[i] = lines[i]
                BY <4>2, AppendProperties
            <4>5. left \in Seq(Line) /\ Len(left) = m + 1 /\ left[m + 1] = line /\ \A i \in 1..m : left[i] = list[i]
                <5> HIDE DEF m
                <5> QED BY <4>1, <4>2
            <4> HIDE DEF left, right
            <4>6. \A i \in 1..Len(left) : left[i] = right[i]
                <5> SUFFICES ASSUME NEW i \in 1..Len(left) PROVE left[i] = right[i]
                    OBVIOUS
                <5>1. i \in 1..m \/ i = m + 1
                    BY <4>1, <4>5
                <5> QED BY <4>1, <4>4, <4>5, <5>1
            <4>7. left = right
                BY <4>4, <4>5, <4>6, SeqEqual
            <4> QED BY <4>3, <4>7 DEF left, right, list, line
        <3> QED BY <3>1, <3>2, <3>4, <3>5
    <2>3. \A k \in 0..n : k \in S
        <3> HIDE DEF S, n
        <3> QED BY <1>1, <2>1, <2>2, UpTo
    <2> QED BY <2>3
<1>6. n \in 0..n
    BY <1>1
<1> HIDE DEF n
<1> QED BY <1>3, <1>5, <1>6

\* The lines that are joined are split again.
LEMMA SplitJoined ==
    ASSUME NEW t \in Seq(Nat), NEW l \in Line
    PROVE  Split(t \o <<0>> \o l) = Append(Split(t), l)
<1>1. Split(t) \in Seq(Line) /\ l \in Seq(Nat)
    <2>1. Split(t) \in TextLines
        BY SplitIs
    <2> QED BY <2>1, LinesAreTexts DEF TextLines
<1> DEFINE more == Append(t, 0)
<1>2. more \in Seq(Nat) /\ more = t \o <<0>>
    BY AppendProperties, AppendIsConcat
<1>3. Split(more) = Append(Split(t), <<>>)
    BY SplitMore DEF Put
<1> HIDE DEF more
<1>4. Split(more \o l) = Append(Split(t), l)
    <2> DEFINE lines == Split(t)
    <2>1. lines \in Seq(Line) /\ Split(more) = Append(lines, <<>>)
        BY <1>1, <1>3
    <2> HIDE DEF lines
    <2>2. Split(more \o l) = Append(lines, l)
        BY <1>2, <2>1, SplitLine
    <2> QED BY <2>2 DEF lines
<1> QED BY <1>2, <1>4

\* A text without a line end is one line.
LEMMA SplitPlain ==
    ASSUME NEW l \in Line
    PROVE  Split(l) = <<l>>
<1> DEFINE none == <<>>
<1>1. none \in Seq(Nat) /\ none \in Seq(Line) /\ l \in Seq(Nat)
    BY LinesAreTexts
<1>2. Split(none) = Append(none, <<>>)
    BY SplitNone
<1>3. Split(none \o l) = Append(none, l)
    <2> HIDE DEF none
    <2> QED BY <1>1, <1>2, SplitLine
<1>4. none \o l = l
    BY <1>1, ConcatEmptySeq
<1> QED BY <1>3, <1>4

\* A line put after a text.
Knit(t, line) == t \o <<0>> \o line

\* It is a text.
LEMMA KnitIs == ASSUME NEW t \in Seq(Nat), NEW l \in Line PROVE Knit(t, l) \in Seq(Nat)
<1>1. l \in Seq(Nat) /\ <<0>> \in Seq(Nat)
    BY LinesAreTexts
<1> QED BY <1>1, ConcatProperties DEF Knit

\* join, line by line.
LEMMA JoinSteps ==
    ASSUME NEW lines, lines # <<>>, Head(lines) \in Line, Tail(lines) \in Seq(Line)
    PROVE  \E f \in [0..Len(Tail(lines)) -> Seq(Nat)] :
              /\ f[0] = Head(lines)
              /\ \A k \in 1..Len(Tail(lines)) : f[k] = Knit(f[k - 1], Tail(lines)[k])
              /\ JoinLines(lines) = f[Len(Tail(lines))]
<1> DEFINE first == Head(lines)
           rest == Tail(lines)
           n == Len(rest)
           T == Seq(Nat)
           step == [p \in Nat \X T |-> IF p[1] \in 1..n THEN Knit(p[2], rest[p[1]]) ELSE p[2]]
           knitting[w \in SUBSET DOMAIN rest] == IF w = {} THEN first ELSE LET top == Max(w) IN Knit(knitting[w \ {top}], rest[top])
<1>1. JoinLines(lines) = knitting[DOMAIN rest]
    BY DEF JoinLines, FoldLeft, MapThenFoldSet, Knit
<1>0. first \in Line /\ rest \in Seq(Line)
    OBVIOUS
<1> HIDE DEF first, rest
<1>2. DOMAIN rest = 1..n /\ n \in Nat /\ \A k \in 1..n : rest[k] \in Line
    BY <1>0
<1>3. first \in T
    BY <1>0, LinesAreTexts
<1>4. step \in [Nat \X T -> T]
    <2> HIDE DEF n
    <2>1. \A p \in Nat \X T : (IF p[1] \in 1..n THEN Knit(p[2], rest[p[1]]) ELSE p[2]) \in T
        BY <1>2, KnitIs
    <2> HIDE DEF T
    <2> QED BY <2>1
<1>5. PICK g \in [SUBSET (1..n) -> T] : FoldOf(g, n, first, step)
    <2> HIDE DEF n, step, T
    <2> QED BY <1>2, <1>3, <1>4, FoldsExist
<1>6. g = [w \in SUBSET DOMAIN rest |-> IF w = {} THEN first ELSE LET top == Max(w) IN Knit(g[w \ {top}], rest[top])]
    <2>1. ASSUME NEW w \in SUBSET (1..n), w # {} PROVE step[<<Max(w), g[w \ {Max(w)}]>>] = Knit(g[w \ {Max(w)}], rest[Max(w)])
        <3>1. Max(w) \in 1..n
            <4>1. w \in SUBSET (0..n)
                BY <1>2
            <4> QED BY <1>2, <2>1, <4>1, MaxOf
        <3> HIDE DEF T
        <3>2. g[w \ {Max(w)}] \in T
            OBVIOUS
        <3> HIDE DEF n
        <3> QED BY <3>1, <3>2, <1>2
    <2> HIDE DEF n, step, T
    <2> QED BY <1>2, <1>5, <2>1 DEF FoldOf
<1>7. knitting = [w \in SUBSET DOMAIN rest |-> IF w = {} THEN first ELSE LET top == Max(w) IN Knit(knitting[w \ {top}], rest[top])]
    <2> HIDE DEF step
    <2> QED BY <1>6
<1> DEFINE f == [k \in 0..n |-> knitting[1..k]]
<1>8. f[0] = first /\ \A k \in 1..n : f[k] = Knit(f[k - 1], rest[k])
    <2>1. knitting[1..0] = first
        <3>1. 1..0 = {} /\ {} \in SUBSET (1..n)
            OBVIOUS
        <3> HIDE DEF knitting, n
        <3> QED BY <1>2, <1>7, <3>1
    <2>2. ASSUME NEW k \in 1..n PROVE knitting[1..k] = Knit(knitting[1..(k - 1)], rest[k])
        <3> HIDE DEF knitting, n
        <3>1. 1..k \in SUBSET (1..n) /\ 1..k # {} /\ Max(1..k) = k /\ (1..k) \ {k} = 1..(k - 1)
            BY <1>2, MaxUpTo
        <3> QED BY <1>2, <1>7, <3>1
    <2>3. 0 \in 0..n /\ \A k \in 1..n : k \in 0..n /\ k - 1 \in 0..n
        BY <1>2
    <2> HIDE DEF knitting, n
    <2> QED BY <2>1, <2>2, <2>3
<1>9. \A k \in 0..n : f[k] \in T
    <2> DEFINE S == {k \in 0..n : f[k] \in T}
    <2> HIDE DEF f, T
    <2>1. 0 \in S
        BY <1>2, <1>3, <1>8
    <2>2. ASSUME NEW k \in 1..n, k - 1 \in S PROVE k \in S
        <3>1. k \in 0..n /\ rest[k] \in Line /\ f[k - 1] \in T
            BY <1>2, <2>2
        <3> QED BY <1>8, <3>1, KnitIs DEF T
    <2>3. \A k \in 0..n : k \in S
        <3> HIDE DEF S, n
        <3> QED BY <1>2, <2>1, <2>2, UpTo
    <2> QED BY <2>3
<1>10. knitting[DOMAIN rest] = f[n] /\ f \in [0..n -> T]
    <2>1. n \in 0..n
        BY <1>2
    <2>2. f[n] = knitting[1..n]
        <3> HIDE DEF knitting, n
        <3> QED BY <2>1
    <2> HIDE DEF knitting, n, T
    <2> QED BY <1>2, <1>9, <2>2
<1> HIDE DEF f, knitting
<1> QED BY <1>1, <1>8, <1>10 DEF first, rest

\* The lines of what was joined are those that were joined.
LEMMA SplitOfJoin ==
    ASSUME NEW lines \in TextLines
    PROVE  JoinLines(lines) \in Seq(Nat) /\ Split(JoinLines(lines)) = lines
<1> DEFINE first == Head(lines)
           rest == Tail(lines)
           n == Len(rest)
           upto(k) == SubSeq(lines, 1, k + 1)
<1>1. lines \in Seq(Line) /\ lines # <<>> /\ Len(lines) \in Nat
    BY DEF TextLines
<1>2. first \in Line /\ rest \in Seq(Line) /\ n + 1 = Len(lines) /\ n \in Nat /\ (\A i \in 1..n : rest[i] = lines[i + 1]) /\ first = lines[1]
    BY <1>1, HeadTailProperties
<1>4. PICK f \in [0..n -> Seq(Nat)] :
         /\ f[0] = first
         /\ \A k \in 1..n : f[k] = Knit(f[k - 1], rest[k])
         /\ JoinLines(lines) = f[n]
    BY <1>1, <1>2, JoinSteps
<1> HIDE DEF first, rest
<1>5. \A k \in 0..n : Split(f[k]) = upto(k)
    <2> DEFINE S == {k \in 0..n : Split(f[k]) = upto(k)}
    <2> HIDE DEF n
    <2>1. 0 \in S
        <3>1. Split(f[0]) = <<first>>
            BY <1>2, <1>4, SplitPlain
        <3>2. upto(0) = <<lines[1]>>
            <4> DEFINE one == SubSeq(lines, 1, 1)
            <4>1. \A i \in 1..1 : lines[i] \in Line
                BY <1>1, <1>2
            <4>2. one \in Seq(Line) /\ Len(one) = (IF 1 <= 1 THEN 1 - 1 + 1 ELSE 0) /\ \A i \in 1..1 - 1 + 1 : one[i] = lines[1 + i - 1]
                BY <4>1, SubSeqProperties
            <4> HIDE DEF one
            <4>3. Len(one) = 1 /\ one[1] = lines[1] /\ lines[1] \in Line
                BY <1>2, <4>2
            <4>4. one = <<lines[1]>>
                BY <4>2, <4>3, SeqEqual
            <4> QED BY <4>4 DEF one
        <3> QED BY <1>2, <3>1, <3>2
    <2>2. ASSUME NEW k \in 1..n, k - 1 \in S PROVE k \in S
        <3>1. k \in 0..n /\ k - 1 \in 0..n /\ k \in 1..n /\ (k - 1) + 1 = k /\ k + 1 \in 1..Len(lines) /\ k \in Nat /\ 1 \in 1..Len(lines)
            BY <1>1, <1>2
        <3>2. f[k - 1] \in Seq(Nat) /\ rest[k] = lines[k + 1] /\ rest[k] \in Line
            <4>1. lines[k + 1] \in Line
                BY <1>1, <3>1
            <4> QED BY <1>2, <3>1, <4>1
        <3>3. Split(f[k - 1]) = SubSeq(lines, 1, k)
            BY <2>2, <3>1
        <3>4. Split(f[k]) = Append(SubSeq(lines, 1, k), lines[k + 1])
            BY <1>4, <3>2, <3>3, SplitJoined DEF Knit
        <3>5. SubSeq(lines, 1, k + 1) = SubSeq(lines, 1, k) \o <<lines[k + 1]>>
            <4> DEFINE m == k + 1
            <4>1. m \in 1..Len(lines) /\ m - 1 = k
                BY <3>1
            <4> HIDE DEF m
            <4>2. SubSeq(lines, 1, m) = SubSeq(lines, 1, m - 1) \o <<lines[m]>>
                BY <1>1, <3>1, <4>1, SubSeqRecursiveSecond
            <4> QED BY <4>1, <4>2 DEF m
        <3>6. Append(SubSeq(lines, 1, k), lines[k + 1]) = SubSeq(lines, 1, k) \o <<lines[k + 1]>>
            <4>1. SubSeq(lines, 1, k) \in Seq(Line)
                <5>1. \A i \in 1..k : lines[i] \in Line
                    BY <1>1, <3>1
                <5> QED BY <3>1, <5>1, SubSeqProperties
            <4>2. lines[k + 1] \in Line
                BY <1>1, <3>1
            <4> QED BY <4>1, <4>2, AppendIsConcat
        <3> QED BY <3>1, <3>4, <3>5, <3>6
    <2>3. \A k \in 0..n : k \in S
        <3> HIDE DEF S
        <3> QED BY <1>2, <2>1, <2>2, UpTo
    <2> QED BY <2>3
<1> HIDE DEF n
<1>6. n \in 0..n
    BY <1>2
<1>7. upto(n) = lines
    BY <1>1, <1>2, SubSeqFull
<1> HIDE DEF upto
<1> QED BY <1>4, <1>5, <1>6, <1>7

\* The two parts of a list put together.
LEMMA ConcatParts ==
    ASSUME NEW S, NEW p \in Seq(S), NEW q \in Seq(S)
    PROVE  SubSeq(p \o q, 1, Len(p)) = p /\ SubSeq(p \o q, Len(p) + 1, Len(p) + Len(q)) = q
<1> DEFINE m == Len(p)
           n == Len(q)
           all == p \o q
<1>1. /\ all \in Seq(S) /\ Len(all) = m + n /\ m \in Nat /\ n \in Nat
      /\ \A i \in 1..m + n : all[i] = IF i <= m THEN p[i] ELSE q[i - m]
    BY ConcatProperties
<1> HIDE DEF all
<1>2. \A i \in 1..m + n : all[i] \in S
    <2> HIDE DEF m, n
    <2> QED BY <1>1
<1>3. SubSeq(all, 1, m) = p
    <2> DEFINE left == SubSeq(all, 1, m)
    <2>1. \A i \in 1..m : all[i] \in S
        <3> HIDE DEF m, n
        <3> QED BY <1>1, <1>2
    <2>2. left \in Seq(S) /\ Len(left) = (IF 1 <= m THEN m - 1 + 1 ELSE 0) /\ \A i \in 1..m - 1 + 1 : left[i] = all[1 + i - 1]
        <3> HIDE DEF m
        <3> QED BY <1>1, <2>1, SubSeqProperties
    <2> HIDE DEF left
    <2>3. Len(left) = m /\ \A i \in 1..m : left[i] = p[i]
        <3> HIDE DEF m, n
        <3> QED BY <1>1, <2>2
    <2>4. left = p
        BY <2>2, <2>3, SeqEqual
    <2> QED BY <2>4 DEF left
<1>4. SubSeq(all, m + 1, m + n) = q
    <2> DEFINE right == SubSeq(all, m + 1, m + n)
    <2>1. \A i \in m + 1..m + n : all[i] \in S
        <3> HIDE DEF m, n
        <3> QED BY <1>1, <1>2
    <2>2. right \in Seq(S) /\ Len(right) = (IF m + 1 <= m + n THEN (m + n) - (m + 1) + 1 ELSE 0)
          /\ \A i \in 1..(m + n) - (m + 1) + 1 : right[i] = all[(m + 1) + i - 1]
        <3>1. m + 1 \in Int /\ m + n \in Int
            BY <1>1
        <3> HIDE DEF m, n
        <3> QED BY <2>1, <3>1, SubSeqProperties
    <2> HIDE DEF right
    <2>3. Len(right) = n /\ \A i \in 1..n : right[i] = q[i]
        <3> HIDE DEF m, n
        <3>1. Len(right) = n
            BY <1>1, <2>2
        <3>2. ASSUME NEW i \in 1..n PROVE right[i] = q[i]
            <4>1. right[i] = all[m + i] /\ m + i \in 1..m + n /\ ~(m + i <= m) /\ (m + i) - m = i
                <5>1. (m + 1) + i - 1 = m + i /\ i \in 1..(m + n) - (m + 1) + 1
                    BY <1>1
                <5> QED BY <1>1, <2>2, <5>1
            <4> DEFINE j == m + i
            <4>2. all[j] = q[j - m]
                <5>1. j \in 1..m + n /\ ~(j <= m)
                    BY <4>1
                <5> HIDE DEF j
                <5> QED BY <1>1, <5>1
            <4> QED BY <4>1, <4>2
        <3> QED BY <3>1, <3>2
    <2>4. right = q
        BY <2>2, <2>3, SeqEqual
    <2> QED BY <2>4 DEF right
<1> QED BY <1>3, <1>4 DEF all

\* A text that does not end with a line end has something in its last line.
LEMMA LastLineHas ==
    ASSUME NEW t \in Seq(Nat), t # <<>>
    PROVE  /\ EndsLine(t) => \E lines \in TextLines : Split(t) = Append(lines, <<>>)
           /\ ~EndsLine(t) => Split(t)[Len(Split(t))] # <<>>
<1>1. PICK u \in Seq(Nat), ch \in Nat : t = Append(u, ch)
    BY SequenceEmptyOrAppend
<1>2. Last(t) = ch
    BY <1>1 DEF Last
<1>3. Split(t) = Put(Split(u), ch) /\ Split(u) \in TextLines
    BY <1>1, SplitMore, SplitIs
<1> DEFINE lines == Split(u)
<1>4. lines \in Seq(Line) /\ Len(lines) \in 1..Len(lines)
    BY <1>3 DEF TextLines
<1>5. CASE ch = 0
    <2>1. Split(t) = Append(lines, <<>>)
        BY <1>3, <1>5 DEF Put
    <2>2. EndsLine(t)
        BY <1>2, <1>5 DEF EndsLine
    <2> QED BY <1>3, <2>1, <2>2
<1>6. CASE ch # 0
    <2>1. ~EndsLine(t)
        BY <1>2, <1>6 DEF EndsLine
    <2> DEFINE line == Append(lines[Len(lines)], ch)
    <2>2. Split(t) = [lines EXCEPT ![Len(lines)] = line]
        BY <1>3, <1>6 DEF Put
    <2>3. line # <<>> /\ line \in Line
        <3> DEFINE old == lines[Len(lines)]
        <3>1. old \in Line /\ ch \in Plain
            BY <1>4, <1>6 DEF Plain
        <3> HIDE DEF old
        <3>2. old \in Seq(Plain)
            BY <3>1, LinesAreTexts
        <3>3. Append(old, ch) # <<>> /\ Append(old, ch) \in Seq(Plain)
            BY <3>1, <3>2, AppendProperties
        <3> QED BY <3>3 DEF old, Line
    <2> HIDE DEF lines, line
    <2>4. Len(Split(t)) = Len(lines) /\ Split(t)[Len(lines)] = line
        BY <1>4, <2>2, <2>3
    <2> QED BY <2>1, <2>3, <2>4
<1> QED BY <1>5, <1>6

\* A list without the element put last.
LEMMA FrontOfAppend ==
    ASSUME NEW S, NEW s \in Seq(S), NEW e \in S
    PROVE  Front(Append(s, e)) = s
<1>1. Append(s, e) = s \o <<e>> /\ Len(Append(s, e)) - 1 = Len(s)
    BY AppendIsConcat, AppendProperties
<1>2. SubSeq(s \o <<e>>, 1, Len(s)) = s
    <2>1. <<e>> \in Seq(S)
        OBVIOUS
    <2> QED BY <2>1, ConcatParts
<1> QED BY <1>1, <1>2 DEF Front

\* The lines of a text are lines.
LEMMA LinesAreLines ==
    ASSUME NEW t \in Seq(Nat)
    PROVE  LinesOfText(t) \in Seq(Line) /\ Len(LinesOfText(t)) \in Nat
<1>1. Split(t) \in Seq(Line)
    BY SplitIs DEF TextLines
<1>2. LinesOfText(t) \in Seq(Line)
    <2>1. CASE t = <<>>
        BY <2>1 DEF LinesOfText
    <2>2. CASE t # <<>> /\ EndsLine(t)
        <3>1. PICK lines \in TextLines : Split(t) = Append(lines, <<>>)
            BY <2>2, LastLineHas
        <3>2. lines \in Seq(Line) /\ <<>> \in Line
            BY DEF TextLines, Line
        <3>3. Front(Split(t)) = lines
            BY <3>1, <3>2, FrontOfAppend
        <3> QED BY <2>2, <3>2, <3>3 DEF LinesOfText
    <2>3. CASE t # <<>> /\ ~EndsLine(t)
        BY <1>1, <2>3 DEF LinesOfText
    <2> QED BY <2>1, <2>2, <2>3
<1> QED BY <1>2

\* The lines of the text that is written are the lines that were kept.
LEMMA KeptIsWritten ==
    ASSUME NEW given \in Seq(Line), NEW trailing \in BOOLEAN
    PROVE  LET content == JoinLines(given) \o (IF trailing /\ given # <<>> THEN <<0>> ELSE <<>>)
           IN  /\ content \in Seq(Nat)
               /\ trailing \/ given = <<>> \/ given[Len(given)] # <<>> => LinesOfText(content) = given
<1> DEFINE knit == JoinLines(given)
           content == knit \o (IF trailing /\ given # <<>> THEN <<0>> ELSE <<>>)
<1>1. CASE given = <<>>
    <2>1. knit = <<>> /\ content = <<>> \o <<>>
        BY <1>1 DEF JoinLines
    <2>2. content = <<>>
        BY <2>1
    <2> HIDE DEF content
    <2>3. content \in Seq(Nat) /\ LinesOfText(content) = given
        BY <1>1, <2>2 DEF LinesOfText
    <2> QED BY <2>3 DEF content
<1>2. CASE given # <<>>
    <2>1. given \in TextLines /\ knit \in Seq(Nat) /\ Split(knit) = given
        BY <1>2, SplitOfJoin DEF TextLines
    <2> HIDE DEF knit
    <2>2. CASE trailing
        <3>1. content = Append(knit, 0)
            BY <1>2, <2>1, <2>2, AppendIsConcat
        <3>2. content \in Seq(Nat) /\ content # <<>> /\ EndsLine(content)
            <4>1. Append(knit, 0) \in Seq(Nat) /\ Append(knit, 0) # <<>> /\ Last(Append(knit, 0)) = 0
                BY <2>1 DEF Last
            <4> HIDE DEF content
            <4> QED BY <3>1, <4>1 DEF EndsLine
        <3>3. Split(content) = Append(given, <<>>)
            <4>1. Split(Append(knit, 0)) = Put(Split(knit), 0)
                BY <2>1, SplitMore
            <4> QED BY <2>1, <3>1, <4>1 DEF Put
        <3>4. Front(Split(content)) = given
            <4>1. <<>> \in Line
                BY DEF Line
            <4> QED BY <3>3, <4>1, FrontOfAppend
        <3> HIDE DEF content
        <3>5. LinesOfText(content) = given
            BY <3>2, <3>4 DEF LinesOfText
        <3> QED BY <3>2, <3>5 DEF content, knit
    <2>3. CASE ~trailing
        <3>1. content = knit
            BY <2>1, <2>3, ConcatEmptySeq
        <3>2. ASSUME given[Len(given)] # <<>> PROVE LinesOfText(knit) = given
            <4>1. knit # <<>>
                <5>1. ASSUME knit = <<>> PROVE FALSE
                    <6>1. given = <<<<>>>>
                        BY <2>1, <5>1, SplitNone
                    <6> QED BY <3>2, <6>1
                <5> QED BY <5>1
            <4>2. ~EndsLine(knit)
                <5>1. ASSUME EndsLine(knit) PROVE FALSE
                    <6>1. PICK lines \in TextLines : Split(knit) = Append(lines, <<>>)
                        BY <2>1, <4>1, <5>1, LastLineHas
                    <6>2. lines \in Seq(Line) /\ given = Append(lines, <<>>)
                        BY <2>1, <6>1 DEF TextLines
                    <6>3. Append(lines, <<>>)[Len(Append(lines, <<>>))] = <<>>
                        BY <6>2
                    <6> QED BY <3>2, <6>2, <6>3
                <5> QED BY <5>1
            <4> QED BY <2>1, <4>1, <4>2 DEF LinesOfText
        <3> HIDE DEF content
        <3> QED BY <1>2, <2>1, <2>3, <3>1, <3>2 DEF content, knit
    <2> QED BY <2>2, <2>3
<1> QED BY <1>1, <1>2

\* A range of lines a call may name.
RangeOK(r) == r.first \in Nat \ {0} /\ r.last \in Nat /\ r.delete \in BOOLEAN /\ r.text \in Seq(Nat)

\* What is put in the range is lines.
LEMMA InsertedIs ==
    ASSUME NEW r, RangeOK(r)
    PROVE  Inserted(r) \in Seq(Line)
<1>1. CASE r.delete
    BY <1>1 DEF Inserted
<1>2. CASE ~r.delete
    <2> DEFINE t == r.text
    <2>1. t \in Seq(Nat) /\ Inserted(r) = Split(IF EndsLine(t) THEN Front(t) ELSE t)
        BY <1>2 DEF RangeOK, Inserted
    <2> HIDE DEF t
    <2>2. EndsLine(t) => Front(t) \in Seq(Nat)
        <3> SUFFICES ASSUME EndsLine(t) PROVE Front(t) \in Seq(Nat)
            OBVIOUS
        <3>1. PICK u \in Seq(Nat), ch \in Nat : t = Append(u, ch)
            BY <2>1, SequenceEmptyOrAppend DEF EndsLine
        <3> QED BY <3>1, FrontOfAppend
    <2>3. \A u \in Seq(Nat) : Split(u) \in Seq(Line)
        BY SplitIs DEF TextLines
    <2> QED BY <2>1, <2>2, <2>3
<1> QED BY <1>1, <1>2 DEF RangeOK

\* exactLineEdit: the lines of what is written are those before the range, those
\* put in, and those after it.
LEMMA EditWrites ==
    ASSUME NEW t \in Seq(Nat), NEW r, RangeOK(r), InRange(t, r)
    PROVE  LET lines == LinesOfText(t)
               head == SubSeq(lines, 1, r.first - 1) \o Inserted(r)
               rest == SubSeq(lines, r.last + 1, Len(lines))
           IN  /\ Rewritten(t, r) \in Seq(Nat)
               /\ head \in Seq(Line) /\ rest \in Seq(Line) /\ Len(rest) = Len(lines) - r.last
               /\ EndsLine(t) \/ t = <<>> \/ Len(lines) - r.last > 0 => LinesOfText(Rewritten(t, r)) = head \o rest
<1> DEFINE lines == LinesOfText(t)
           n == Len(lines)
           ins == Inserted(r)
           left == SubSeq(lines, 1, r.first - 1)
           head == left \o ins
           rest == SubSeq(lines, r.last + 1, n)
           all == head \o rest
           trailing == t = <<>> \/ EndsLine(t)
<1>1. lines \in Seq(Line) /\ n \in Nat /\ ins \in Seq(Line)
    BY LinesAreLines, InsertedIs
<1>2. r.first \in Nat /\ r.first > 0 /\ r.last \in Nat /\ r.first <= n + 1 /\ r.last <= n /\ r.last >= r.first - 1
    BY DEF RangeOK, InRange
<1>3. Rewritten(t, r) = JoinLines(all) \o (IF trailing /\ all # <<>> THEN <<0>> ELSE <<>>)
    BY DEF Rewritten, After
<1> HIDE DEF lines, ins
<1>4. left \in Seq(Line)
    <2>1. \A i \in 1..r.first - 1 : lines[i] \in Line
        BY <1>1, <1>2
    <2> HIDE DEF n
    <2>2. r.first - 1 \in Int
        BY <1>2
    <2> QED BY <2>1, <2>2, SubSeqProperties
<1>5. rest \in Seq(Line) /\ Len(rest) = n - r.last /\ \A i \in 1..n - r.last : rest[i] = lines[r.last + i]
    <2>1. \A i \in r.last + 1..n : lines[i] \in Line
        BY <1>1, <1>2
    <2> HIDE DEF n
    <2>2. r.last + 1 \in Int /\ n \in Int
        BY <1>1, <1>2
    <2>3. rest \in Seq(Line) /\ Len(rest) = (IF r.last + 1 <= n THEN n - (r.last + 1) + 1 ELSE 0)
          /\ \A i \in 1..n - (r.last + 1) + 1 : rest[i] = lines[(r.last + 1) + i - 1]
        BY <2>1, <2>2, SubSeqProperties
    <2>4. Len(rest) = n - r.last
        BY <1>1, <1>2, <2>3
    <2>5. ASSUME NEW i \in 1..n - r.last PROVE rest[i] = lines[r.last + i]
        <3>1. i \in 1..n - (r.last + 1) + 1 /\ (r.last + 1) + i - 1 = r.last + i
            BY <1>1, <1>2
        <3> HIDE DEF rest
        <3> QED BY <2>3, <3>1
    <2> QED BY <2>3, <2>4, <2>5
<1> HIDE DEF left, rest
<1>6. head \in Seq(Line)
    BY <1>1, <1>4, ConcatProperties
<1> HIDE DEF head
<1>7. all \in Seq(Line) /\ Len(all) = Len(head) + Len(rest) /\ Len(head) \in Nat /\ Len(rest) \in Nat
      /\ \A i \in 1..Len(head) + Len(rest) : all[i] = IF i <= Len(head) THEN head[i] ELSE rest[i - Len(head)]
    <2>1. Len(head) \in Nat /\ Len(rest) \in Nat /\ rest \in Seq(Line)
        BY <1>5, <1>6
    <2>2. head \o rest \in Seq(Line) /\ Len(head \o rest) = Len(head) + Len(rest)
          /\ \A i \in 1..Len(head) + Len(rest) : (head \o rest)[i] = IF i <= Len(head) THEN head[i] ELSE rest[i - Len(head)]
        BY <1>6, <2>1, ConcatProperties
    <2> QED BY <2>1, <2>2
<1> HIDE DEF all
<1>8. trailing \in BOOLEAN
    BY Zenon DEF EndsLine
<1> HIDE DEF trailing
<1>9. /\ Rewritten(t, r) \in Seq(Nat)
      /\ trailing \/ all = <<>> \/ all[Len(all)] # <<>> => LinesOfText(Rewritten(t, r)) = all
    BY <1>3, <1>7, <1>8, KeptIsWritten
<1>10. ASSUME EndsLine(t) \/ t = <<>> \/ n - r.last > 0 PROVE LinesOfText(Rewritten(t, r)) = all
    <2>1. CASE trailing
        BY <1>9, <2>1
    <2>2. CASE ~trailing
        <3>1. t # <<>> /\ ~EndsLine(t)
            BY <2>2 DEF trailing
        <3>2. n - r.last > 0
            BY <1>10, <3>1
        <3>3. lines = Split(t)
            BY <3>1 DEF LinesOfText, lines
        <3>4. lines[n] # <<>>
            BY <3>1, <3>3, LastLineHas
        <3>5. all[Len(all)] = lines[n]
            <4> HIDE DEF n
            <4>1. n - r.last \in 1..n - r.last /\ r.last + (n - r.last) = n
                BY <1>1, <1>2, <3>2
            <4>2. rest[n - r.last] = lines[n]
                BY <1>5, <4>1
            <4> DEFINE m == Len(head) + Len(rest)
            <4>3. m \in 1..m /\ ~(m <= Len(head)) /\ m - Len(head) = n - r.last
                BY <1>1, <1>2, <1>5, <1>7, <3>2
            <4> HIDE DEF m
            <4>4. all[m] = rest[m - Len(head)]
                <5>1. \A i \in 1..m : all[i] = IF i <= Len(head) THEN head[i] ELSE rest[i - Len(head)]
                    BY <1>7 DEF m
                <5> QED BY <4>3, <5>1
            <4>5. Len(all) = m
                BY <1>7 DEF m
            <4> QED BY <4>2, <4>3, <4>4, <4>5
        <3> QED BY <1>9, <3>4, <3>5
    <2> QED BY <2>1, <2>2
<1> QED BY <1>5, <1>6, <1>9, <1>10 DEF lines, ins, left, head, rest, all

\* What an edit has sent to be written.
WasSent(e) ==
    /\ edit[e].base \in Seq(Nat) /\ RangeOK(edit[e].range) /\ InRange(edit[e].base, edit[e].range)
    /\ edit[e].content = Rewritten(edit[e].base, edit[e].range)

\* What an edit has sent is the rewriting of the text it read; it need not be the text by then.
EditsInv ==
    /\ text \in Seq(Nat)
    /\ edit = [e \in Editor |-> edit[e]]
    /\ \A e \in Editor : edit[e].at \in {"idle", "sent", "written"} /\ (edit[e].at # "idle" => WasSent(e))

\* An excluded path is in a plan only when a call named it.
AddsInv ==
    /\ changed \subseteq File /\ moved \subseteq Sub /\ staged \subseteq File \cup Sub /\ meant \subseteq File
    /\ plan \in [Planner -> [at : {"idle", "diff", "gitlinks", "list", "planned"},
                             named : SUBSET ({Blanket} \cup Directory \cup File \cup Sub),
                             moved : SUBSET Sub, paths : SUBSET (File \cup Sub), blanket : BOOLEAN]]
    /\ \A p \in Planner : plan[p].named \cap File \subseteq meant /\ plan[p].paths \cap Excluded \subseteq meant
    /\ staged \cap Excluded \subseteq meant

\* No edit and no add was called.
LEMMA FilesStart == FileInit => EditsInv /\ AddsInv
<1> SUFFICES ASSUME FileInit PROVE EditsInv /\ AddsInv
    OBVIOUS
<1>1. EditsInv
    <2>1. text \in Seq(Nat)
        BY FileBounds DEF FileInit
    <2>2. edit = [e \in Editor |-> edit[e]] /\ \A e \in Editor : edit[e].at = "idle"
        BY DEF FileInit
    <2> QED BY <2>1, <2>2 DEF EditsInv
<1>2. AddsInv
    BY DEF FileInit, AddsInv, NoPlan
<1> QED BY <1>1, <1>2

\* Each step of an edit: the text it read is split, changed and joined, and written later.
LEMMA EditSteps == EditsInv /\ EditNext => EditsInv' /\ UNCHANGED addVars
<1> SUFFICES ASSUME EditsInv, EditNext PROVE EditsInv' /\ UNCHANGED addVars
    OBVIOUS
<1>1. text \in Seq(Nat) /\ edit = [e \in Editor |-> edit[e]]
      /\ \A e \in Editor : edit[e].at \in {"idle", "sent", "written"} /\ (edit[e].at # "idle" => WasSent(e))
    BY DEF EditsInv
<1>2. MaxLines \in Nat
    <2> DEFINE counts == {Len(LinesOfText(t)) : t \in Texts}
    <2>1. PICK longest \in Texts : \A t \in Texts : Len(LinesOfText(t)) <= Len(LinesOfText(longest))
        BY FileBounds
    <2>2. \A t \in Texts : Len(LinesOfText(t)) \in Nat
        BY FileBounds, LinesAreLines
    <2> DEFINE m == Len(LinesOfText(longest))
    <2>3. m \in Nat /\ counts \in SUBSET (0..m) /\ counts # {}
        BY <2>1, <2>2
    <2>4. Max(counts) \in counts
        <3> HIDE DEF counts, m
        <3> QED BY <2>3, MaxOf
    <2> DEFINE top == Max(counts)
    <2>5. top \in Nat
        <3> HIDE DEF m
        <3> QED BY <2>2, <2>4
    <2>6. MaxLines = top + 1
        BY DEF MaxLines
    <2> HIDE DEF top
    <2> QED BY <2>5, <2>6
<1>3. ASSUME NEW e \in Editor, EditLines(e) PROVE EditsInv' /\ UNCHANGED addVars
    <2>1. PICK first \in 1..MaxLines, last \in 0..MaxLines, delete \in BOOLEAN, t \in Replacements :
             LET r == [first |-> first, last |-> last, delete |-> delete, text |-> t]
             IN /\ InRange(text, r)
                /\ edit' = [edit EXCEPT ![e] = [at |-> "sent", range |-> r, base |-> text, content |-> Rewritten(text, r)]]
        BY <1>3 DEF EditLines
    <2> DEFINE r == [first |-> first, last |-> last, delete |-> delete, text |-> t]
               sent == [at |-> "sent", range |-> r, base |-> text, content |-> Rewritten(text, r)]
    <2>2. RangeOK(r) /\ InRange(text, r)
        <3>1. first \in Nat /\ first # 0 /\ last \in Nat /\ t \in Seq(Nat)
            BY <1>2, FileBounds
        <3> QED BY <2>1, <3>1 DEF RangeOK
    <2>3. edit' = [edit EXCEPT ![e] = sent]
        BY <2>1
    <2> HIDE DEF r
    <2>4. sent.at = "sent" /\ sent.range = r /\ sent.base = text /\ sent.content = Rewritten(text, r)
        OBVIOUS
    <2> HIDE DEF sent
    <2>5. edit'[e] = sent /\ (\A d \in Editor \ {e} : edit'[d] = edit[d]) /\ edit' = [d \in Editor |-> edit'[d]]
        BY <1>1, <2>3
    <2>6. WasSent(e)'
        BY <1>1, <2>2, <2>4, <2>5 DEF WasSent
    <2>7. \A d \in Editor \ {e} : WasSent(d) => WasSent(d)'
        BY <2>5 DEF WasSent
    <2>8. text' = text /\ UNCHANGED addVars
        BY <1>3 DEF EditLines
    <2>9. \A d \in Editor : edit'[d].at \in {"idle", "sent", "written"} /\ (edit'[d].at # "idle" => WasSent(d)')
        BY <1>1, <2>4, <2>5, <2>6, <2>7
    <2> QED BY <1>1, <2>5, <2>8, <2>9 DEF EditsInv
<1>4. ASSUME NEW e \in Editor, EditLands(e) PROVE EditsInv' /\ UNCHANGED addVars
    <2>1. edit[e].at = "sent" /\ text' = edit[e].content /\ edit' = [edit EXCEPT ![e].at = "written"] /\ UNCHANGED addVars
        BY <1>4 DEF EditLands
    <2>2. WasSent(e)
        BY <1>1, <2>1
    <2>3. text' \in Seq(Nat)
        <3> DEFINE range == edit[e].range
                   base == edit[e].base
        <3>1. base \in Seq(Nat) /\ RangeOK(range) /\ InRange(base, range) /\ text' = Rewritten(base, range)
            BY <2>1, <2>2 DEF WasSent
        <3> HIDE DEF range, base
        <3> QED BY <3>1, EditWrites
    <2>4. \A d \in Editor \ {e} : edit'[d] = edit[d]
        BY <1>1, <2>1
    <2>5. edit'[e] = [edit[e] EXCEPT !.at = "written"] /\ edit' = [d \in Editor |-> edit'[d]]
        BY <1>1, <2>1
    <2>6. edit'[e].at = "written" /\ edit'[e].base = edit[e].base /\ edit'[e].range = edit[e].range /\ edit'[e].content = edit[e].content
        BY <2>5
    <2>7. \A d \in Editor : WasSent(d) => WasSent(d)'
        BY <2>4, <2>6 DEF WasSent
    <2>8. \A d \in Editor : edit'[d].at \in {"idle", "sent", "written"} /\ (edit'[d].at # "idle" => WasSent(d)')
        BY <1>1, <2>2, <2>4, <2>6, <2>7
    <2> QED BY <2>1, <2>3, <2>5, <2>8 DEF EditsInv
<1> QED BY <1>3, <1>4 DEF EditNext

\* Each step of an add, and each change of the tree it is planned from.
LEMMA AddSteps == AddsInv /\ AddNext => AddsInv' /\ UNCHANGED editVars
<1> SUFFICES ASSUME AddsInv, AddNext PROVE AddsInv' /\ UNCHANGED editVars
    OBVIOUS
<1> DEFINE Named == SUBSET ({Blanket} \cup Directory \cup File \cup Sub)
           AddPlan == [at : {"idle", "diff", "gitlinks", "list", "planned"}, named : Named, moved : SUBSET Sub,
                     paths : SUBSET (File \cup Sub), blanket : BOOLEAN]
           Means(q, w) == q.named \cap File \subseteq w /\ q.paths \cap Excluded \subseteq w
<1>1. /\ changed \subseteq File /\ moved \subseteq Sub /\ staged \subseteq File \cup Sub /\ meant \subseteq File
      /\ plan \in [Planner -> AddPlan] /\ (\A p \in Planner : Means(plan[p], meant)) /\ staged \cap Excluded \subseteq meant
    BY DEF AddsInv
<1>2. Excluded \subseteq File /\ File \cap Sub = {}
    BY FileBounds
<1>3. NoPlan \in AddPlan /\ NoPlan.named = {} /\ NoPlan.paths = {}
    BY DEF NoPlan
<1> HIDE DEF Named, AddPlan
<1>4. ASSUME NEW p \in Planner, NEW q \in AddPlan, plan' = [plan EXCEPT ![p] = q], meant \subseteq meant', meant' \subseteq File,
             Means(q, meant'), UNCHANGED <<editVars, changed, moved, staged>>
      PROVE  AddsInv' /\ UNCHANGED editVars
    <2>1. plan' \in [Planner -> AddPlan] /\ plan'[p] = q /\ \A d \in Planner \ {p} : plan'[d] = plan[d]
        BY <1>1, <1>4
    <2>2. \A d \in Planner : Means(plan'[d], meant')
        <3>1. \A d \in Planner \ {p} : Means(plan'[d], meant')
            BY <1>1, <1>4, <2>1
        <3> QED BY <1>4, <2>1, <3>1
    <2>3. staged' \cap Excluded \subseteq meant' /\ changed' \subseteq File /\ moved' \subseteq Sub /\ staged' \subseteq File \cup Sub
        BY <1>1, <1>4
    <2> QED BY <1>4, <2>1, <2>2, <2>3 DEF AddsInv, AddPlan, Named
<1>5. ASSUME NEW p \in Planner, PlanAsk(p) PROVE AddsInv' /\ UNCHANGED editVars
    <2>1. PICK named \in Named :
             /\ plan' = [plan EXCEPT ![p] = [NoPlan EXCEPT !.named = named, !.blanket = Blanket \in named,
                                              !.at = IF named \subseteq File THEN "planned" ELSE "diff",
                                              !.paths = named \cap File]]
             /\ meant' = meant \cup (named \cap File)
        BY <1>5 DEF PlanAsk, Named
    <2> DEFINE q == [NoPlan EXCEPT !.named = named, !.blanket = Blanket \in named,
                                   !.at = IF named \subseteq File THEN "planned" ELSE "diff",
                                   !.paths = named \cap File]
               all == Blanket \in named
               stop == IF named \subseteq File THEN "planned" ELSE "diff"
               files == named \cap File
    <2>2. stop \in {"planned", "diff"} /\ all \in BOOLEAN /\ files \in SUBSET (File \cup Sub)
        OBVIOUS
    <2>3. q = [NoPlan EXCEPT !.named = named, !.blanket = all, !.at = stop, !.paths = files]
        OBVIOUS
    <2> HIDE DEF q, all, stop, files
    <2>4. q \in AddPlan /\ q.named = named /\ q.paths = files
        <3> HIDE DEF NoPlan
        <3> QED BY <1>3, <2>2, <2>3 DEF AddPlan
    <2>5. Means(q, meant') /\ meant \subseteq meant' /\ meant' \subseteq File
        BY <1>1, <1>2, <2>1, <2>4 DEF files
    <2>6. plan' = [plan EXCEPT ![p] = q] /\ UNCHANGED <<editVars, changed, moved, staged>>
        BY <1>5, <2>1 DEF PlanAsk, q, all, stop, files
    <2> QED BY <1>4, <2>4, <2>5, <2>6
<1>6. ASSUME NEW p \in Planner, PlanDiff(p) \/ PlanGitlinks(p) PROVE AddsInv' /\ UNCHANGED editVars
    <2> DEFINE r == plan[p]
               stop == IF r.named \cap ({Blanket} \cup Directory) = {} THEN "gitlinks" ELSE "list"
               went == IF r.moved = {} THEN "idle" ELSE "planned"
               d == [r EXCEPT !.moved = r.named \cap moved, !.at = stop]
               g == [r EXCEPT !.paths = r.paths \cup r.moved, !.at = went]
    <2>1. r \in AddPlan /\ Means(r, meant)
        BY <1>1
    <2>2. r.named \in Named /\ r.moved \subseteq Sub /\ r.paths \subseteq File \cup Sub /\ r.blanket \in BOOLEAN
          /\ r = [at |-> r.at, named |-> r.named, moved |-> r.moved, paths |-> r.paths, blanket |-> r.blanket]
        <3> HIDE DEF r
        <3> QED BY <2>1 DEF AddPlan
    <2>3. stop \in {"gitlinks", "list"} /\ went \in {"idle", "planned"}
        OBVIOUS
    <2>4. CASE PlanDiff(p)
        <3>1. plan' = [plan EXCEPT ![p] = d] /\ UNCHANGED <<editVars, changed, moved, staged, meant>>
            BY <1>1, <2>4 DEF PlanDiff
        <3> DEFINE gone == r.named \cap moved
        <3> HIDE DEF r, stop
        <3>2. gone \in SUBSET Sub
            BY <1>1
        <3>3. d = [r EXCEPT !.moved = gone, !.at = stop]
            OBVIOUS
        <3> HIDE DEF gone, d
        <3>4. d \in AddPlan /\ d.named = r.named /\ d.paths = r.paths
            BY <2>1, <2>3, <3>2, <3>3 DEF AddPlan
        <3> QED BY <1>1, <1>4, <2>1, <3>1, <3>4 DEF d
    <2>5. CASE PlanGitlinks(p)
        <3>1. plan' = [plan EXCEPT ![p] = g] /\ UNCHANGED <<editVars, changed, moved, staged, meant>>
            BY <1>1, <2>5 DEF PlanGitlinks
        <3> DEFINE put == r.paths \cup r.moved
        <3> HIDE DEF r, went
        <3>2. put \in SUBSET (File \cup Sub)
            BY <2>2
        <3>3. g = [r EXCEPT !.paths = put, !.at = went]
            OBVIOUS
        <3> HIDE DEF g
        <3>4. g \in AddPlan /\ g.named = r.named /\ g.paths = r.paths \cup r.moved
            <4> HIDE DEF put
            <4>1. g \in AddPlan /\ g.named = r.named /\ g.paths = put
                BY <2>1, <2>3, <3>2, <3>3 DEF AddPlan
            <4> QED BY <4>1 DEF put
        <3>5. Means(g, meant)
            BY <1>2, <2>1, <2>2, <3>4
        <3> QED BY <1>1, <1>4, <3>1, <3>4, <3>5
    <2> QED BY <1>6, <2>4, <2>5
<1>7. ASSUME NEW p \in Planner, PlanList(p) PROVE AddsInv' /\ UNCHANGED editVars
    <2> DEFINE r == plan[p]
               scope == IF r.blanket THEN File \cup Sub ELSE {f \in File : DirOf[f] \in r.named}
               listed == Kept((changed \cup moved) \cap scope)
               found == (r.named \cap File) \cup r.moved \cup listed
               q == [r EXCEPT !.paths = found, !.at = "planned"]
    <2>1. r \in AddPlan /\ Means(r, meant)
        BY <1>1
    <2>2. r.named \in Named /\ r.moved \subseteq Sub /\ r.blanket \in BOOLEAN
          /\ r = [at |-> r.at, named |-> r.named, moved |-> r.moved, paths |-> r.paths, blanket |-> r.blanket]
        <3> HIDE DEF r
        <3> QED BY <2>1 DEF AddPlan
    <2>3. (plan' = [plan EXCEPT ![p] = NoPlan] \/ plan' = [plan EXCEPT ![p] = q]) /\ UNCHANGED <<editVars, changed, moved, staged, meant>>
        BY <1>7 DEF PlanList
    <2>4. listed \cap Excluded = {} /\ listed \subseteq File \cup Sub
        <3> HIDE DEF scope
        <3> QED BY <1>1 DEF Kept
    <2> HIDE DEF r, listed
    <2>5. found \subseteq File \cup Sub /\ found \cap Excluded \subseteq meant
        BY <1>1, <1>2, <2>1, <2>2, <2>4
    <2> HIDE DEF found
    <2>6. q = [r EXCEPT !.paths = found, !.at = "planned"]
        OBVIOUS
    <2> HIDE DEF q
    <2>7. q \in AddPlan /\ q.named = r.named /\ q.paths = found
        BY <2>1, <2>5, <2>6 DEF AddPlan
    <2>8. Means(q, meant) /\ Means(NoPlan, meant)
        BY <1>3, <2>1, <2>5, <2>7
    <2> QED BY <1>1, <1>3, <1>4, <2>3, <2>7, <2>8
<1>8. ASSUME NEW p \in Planner, PlanRuns(p) PROVE AddsInv' /\ UNCHANGED editVars
    <2>1. /\ staged' = staged \cup (plan[p].paths \cap (changed \cup moved)) /\ changed' = changed \ plan[p].paths
          /\ moved' = moved \ plan[p].paths /\ plan' = [plan EXCEPT ![p] = NoPlan] /\ UNCHANGED <<editVars, meant>>
        BY <1>8 DEF PlanRuns
    <2>2. staged' \subseteq File \cup Sub /\ staged' \cap Excluded \subseteq meant /\ changed' \subseteq File /\ moved' \subseteq Sub
        BY <1>1, <2>1
    <2>3. plan' \in [Planner -> AddPlan] /\ \A d \in Planner : Means(plan'[d], meant)
        <3>1. plan'[p] = NoPlan /\ \A d \in Planner \ {p} : plan'[d] = plan[d]
            BY <1>1, <2>1
        <3> QED BY <1>1, <1>3, <2>1, <3>1
    <2> QED BY <1>1, <2>1, <2>2, <2>3 DEF AddsInv, AddPlan, Named
<1>9. ASSUME NEW f \in File, FileChanges(f) PROVE AddsInv' /\ UNCHANGED editVars
    <2>1. changed' \subseteq File /\ UNCHANGED <<editVars, moved, plan, staged, meant>>
        BY <1>1, <1>9 DEF FileChanges
    <2> QED BY <1>1, <2>1 DEF AddsInv, AddPlan, Named
<1>10. ASSUME NEW m \in Sub, SubMoves(m) PROVE AddsInv' /\ UNCHANGED editVars
    <2>1. moved' \subseteq Sub /\ UNCHANGED <<editVars, changed, plan, staged, meant>>
        BY <1>1, <1>10 DEF SubMoves
    <2> QED BY <1>1, <2>1 DEF AddsInv, AddPlan, Named
<1> QED BY <1>5, <1>6, <1>7, <1>8, <1>9, <1>10 DEF AddNext

\* Nothing changes while no edit is called.
LEMMA EditsRest == EditsInv /\ UNCHANGED editVars => EditsInv'
BY DEF editVars, EditsInv, WasSent

\* Nothing changes while no add is called and the tree rests.
LEMMA AddsRest == AddsInv /\ UNCHANGED addVars => AddsInv'
BY DEF addVars, AddsInv

\* The safety properties of both follow.
LEMMA FilesSafe == EditsInv /\ AddsInv => FileCallsInv
<1> SUFFICES ASSUME EditsInv, AddsInv PROVE FileCallsInv
    OBVIOUS
<1>1. FileTypeOK
    <2>1. \A p \in Planner : plan[p].at \in {"idle", "diff", "gitlinks", "list", "planned"} /\ plan[p].paths \subseteq File \cup Sub
        BY DEF AddsInv
    <2> QED BY <2>1 DEF EditsInv, AddsInv, FileTypeOK
<1>2. StagedAsMeant
    BY DEF AddsInv, StagedAsMeant
<1>3. EditKeepsTheRest
    <2> SUFFICES ASSUME NEW e \in Editor, edit[e].at # "idle"
                 PROVE  LET lines == LinesOfText(edit[e].base)
                            wrote == LinesOfText(edit[e].content)
                            rest == Len(lines) - edit[e].range.last
                        IN EndsLine(edit[e].base) \/ edit[e].base = <<>> \/ rest > 0 =>
                             /\ Len(wrote) >= rest
                             /\ SubSeq(lines, 1, edit[e].range.first - 1) \o Inserted(edit[e].range)
                                  = SubSeq(wrote, 1, Len(wrote) - rest)
                             /\ SubSeq(lines, edit[e].range.last + 1, Len(lines)) = SubSeq(wrote, Len(wrote) - rest + 1, Len(wrote))
        BY DEF EditKeepsTheRest
    <2> DEFINE t == edit[e].base
               r == edit[e].range
               lines == LinesOfText(t)
               wrote == LinesOfText(edit[e].content)
               n == Len(lines)
               head == SubSeq(lines, 1, r.first - 1) \o Inserted(r)
               tail == SubSeq(lines, r.last + 1, n)
    <2>1. t \in Seq(Nat) /\ RangeOK(r) /\ InRange(t, r) /\ edit[e].content = Rewritten(t, r)
        BY DEF EditsInv, WasSent
    <2>2. /\ head \in Seq(Line) /\ tail \in Seq(Line) /\ Len(tail) = n - r.last
          /\ EndsLine(t) \/ t = <<>> \/ n - r.last > 0 => wrote = head \o tail
        <3> HIDE DEF t, r
        <3> QED BY <2>1, EditWrites
    <2> SUFFICES ASSUME EndsLine(t) \/ t = <<>> \/ n - r.last > 0
                 PROVE  /\ Len(wrote) >= n - r.last
                        /\ head = SubSeq(wrote, 1, Len(wrote) - (n - r.last))
                        /\ tail = SubSeq(wrote, Len(wrote) - (n - r.last) + 1, Len(wrote))
        OBVIOUS
    <2>3. wrote = head \o tail
        BY <2>2
    <2> HIDE DEF head, tail, wrote
    <2>4. Len(wrote) = Len(head) + Len(tail) /\ Len(head) \in Nat /\ Len(tail) \in Nat
        <3>1. head \in Seq(Line) /\ tail \in Seq(Line) /\ Len(head) \in Nat /\ Len(tail) \in Nat
            BY <2>2
        <3>2. Len(head \o tail) = Len(head) + Len(tail)
            BY <3>1, ConcatProperties
        <3> QED BY <2>3, <3>1, <3>2
    <2>5. SubSeq(wrote, 1, Len(head)) = head /\ SubSeq(wrote, Len(head) + 1, Len(head) + Len(tail)) = tail
        BY <2>2, <2>3, ConcatParts
    <2> DEFINE k == n - r.last
    <2>6. k = Len(tail)
        BY <2>2
    <2> HIDE DEF k
    <2>7. Len(wrote) >= k /\ Len(wrote) - k = Len(head)
        BY <2>4, <2>6
    <2> QED BY <2>4, <2>5, <2>6, <2>7 DEF k
<1> QED BY <1>1, <1>2, <1>3 DEF FileCallsInv

-----------------------------------------------------------------------------
(* The theorems on code mode, on the pages and the feed, and on the calls    *)
(* that are rewritten.                                                       *)

\* Nothing changes while code mode rests.
LEMMA CodeRests == CodeInv /\ UNCHANGED modeVars => CodeInv'
<1> SUFFICES ASSUME CodeInv, UNCHANGED modeVars PROVE CodeInv'
    OBVIOUS
<1>1. script' = script /\ calls' = calls /\ answer' = answer /\ fold' = fold
    BY DEF modeVars
<1> QED BY <1>1 DEF CodeInv, CodeModeInv, ModeTypeOK, FoldKeepsKeys, WithinCap, PartsFit

(* Every key of a folded request is sent or refused, no reply of a script is *)
(* longer than its cap when the notice of a cut has room, and the parts of a *)
(* script that failed leave room for the block after them, whatever its calls *)
(* gave (codemode.js).                                                        *)
THEOREM CodeModeKept == PartsSpec => []CodeModeInv
<1>1. PartsInit => CodeInv
    BY CodeStarts DEF PartsInit
<1>2. CodeInv /\ [PartsNext]_partsVars => CodeInv'
    <2> SUFFICES ASSUME CodeInv, [PartsNext]_partsVars PROVE CodeInv'
        OBVIOUS
    <2>1. ModeNext \/ UNCHANGED modeVars
        BY DEF PartsNext, partsVars, Rest, OthersRest, calling, Usual
    <2> QED BY <2>1, CodeStep, CodeRests
<1>3. CodeInv => CodeModeInv
    BY DEF CodeInv
<1> QED BY <1>1, <1>2, <1>3, PTL DEF PartsSpec

(* What is read while it grows is told whole and once: the pages of a reply  *)
(* link without a gap or a line twice, and a reply that is cut says so       *)
(* (response-compact.js); a watch of the browser feed pushes every event it  *)
(* read to the end, once and in order, also when the guest starts its file   *)
(* anew with fewer halves than were read (browser-feed.js).                  *)
THEOREM TellingKept == PartsSpec => []TellingInv
<1> DEFINE Inv == PagesIInv /\ FeedIInv
<1>1. PartsInit => Inv
    BY PagesStart, FeedStarts DEF PartsInit
<1>2. Inv /\ [PartsNext]_partsVars => Inv'
    <2> SUFFICES ASSUME Inv, [PartsNext]_partsVars PROVE Inv'
        OBVIOUS
    <2>1. PagesNext \/ UNCHANGED pageVars
        BY DEF PartsNext, partsVars, Rest, OthersRest, publishing, Usual
    <2>2. FeedNext \/ UNCHANGED feedVars
        BY DEF PartsNext, partsVars, Rest, OthersRest, besides, Usual
    <2> QED BY <2>1, <2>2, PagesSteps, PagesRest, FeedSteps, FeedRests
<1>3. Inv => TellingInv
    BY PagesSafe, FeedSafe DEF TellingInv
<1> QED BY <1>1, <1>2, <1>3, PTL DEF PartsSpec

(* An edit by lines keeps the lines before and after its range, for every    *)
(* text that ends with a line end, for the empty one, and for any other when *)
(* lines follow the range (exactLineEdit); a git add stages an excluded path *)
(* only when a call named it, whatever changes in the tree between the       *)
(* listing and the add (planGitAdd).                                         *)
THEOREM FileCallsKept == PartsSpec => []FileCallsInv
<1> DEFINE Inv == EditsInv /\ AddsInv
<1>1. PartsInit => Inv
    BY FilesStart DEF PartsInit
<1>2. Inv /\ [PartsNext]_partsVars => Inv'
    <2> SUFFICES ASSUME Inv, [PartsNext]_partsVars PROVE Inv'
        OBVIOUS
    <2>1. EditNext \/ AddNext \/ UNCHANGED fileVars
        BY DEF PartsNext, partsVars, Rest, OthersRest, calling, Usual
    <2>2. CASE EditNext
        BY <2>2, EditSteps, AddsRest
    <2>3. CASE AddNext
        BY <2>3, AddSteps, EditsRest
    <2>4. CASE UNCHANGED fileVars
        BY <2>4, EditsRest, AddsRest DEF fileVars
    <2> QED BY <2>1, <2>2, <2>3, <2>4
<1>3. Inv => FileCallsInv
    BY FilesSafe
<1> QED BY <1>1, <1>2, <1>3, PTL DEF PartsSpec
================================================================================
