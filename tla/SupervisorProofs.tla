---------------------------- MODULE SupervisorProofs ----------------------------
(* For every set of requests and every bound on children, bundles, crashes    *)
(* and failures: the state is typed and no request has two replies. As long   *)
(* as no swap has begun while a restart was due (crossed), each request has   *)
(* one place or one reply, and one child serves what is let through: a swap   *)
(* and a restart do not overlap then, and what is in flight waits on the      *)
(* active child, which gives way to another only with nothing in flight.      *)
(*                                                                            *)
(* And of the server below it, for every set of calls, projects and lines:    *)
(* the rows its sessions are told, the refresh of its skills, and the         *)
(* stream it takes over from the cold path.                                   *)
EXTENDS Supervisor, MCLive, SequenceTheorems, FiniteSetTheorems, WellFoundedInduction, TLAPS

Trying == swap.at \in {"handshake", "drain"}
Replacing == timer \/ restarting # {}

\* Children are born in order.
Born ==
    /\ \A g \in Gen : kid[g] = "unborn" <=> g > generation
    /\ active <= generation
    /\ \A g \in restarting : g <= generation

\* The gate is closed while a child is tried out, for a swap or for a restart;
\* there is one of these at a time.
OneAtATime ==
    /\ Trying \/ Replacing => paused
    /\ Trying => ~Replacing
    /\ timer => restarting = {}
    /\ \A g, h \in restarting : g = h
    /\ active \notin restarting

SwapSound ==
    /\ Trying => swap.old = active /\ swap.fresh \in Gen \ {active} /\ swap.fresh <= generation
    /\ swap.at = "stop" => swap.old \in Gen

\* The children in use are the active one and the one tried out.
InUse(g) == g = active \/ g \in restarting \/ (Trying /\ g = swap.fresh)
Lives ==
    ~stopping =>
        /\ \A g \in Gen : kid[g] = "ending" => ~InUse(g)
        /\ \A g \in Gen : kid[g] = "alive" => InUse(g)
        /\ Replacing => kid[active] = "exited"
        /\ ~paused => kid[active] = "alive" \/ active = relic

\* A request is unsent, queued, in flight or answered; once a swap has crossed a
\* restart it may also have been lost.
Life(r) ==
    /\ r \notin sent => replies[r] = 0 /\ inflight[r] = 0 /\ r \notin hostQueue
    /\ replies[r] \in {0, 1}
    /\ inflight[r] # 0 \/ r \in hostQueue => replies[r] = 0
    /\ ~(inflight[r] # 0 /\ r \in hostQueue)
    /\ r \in sent /\ replies[r] = 0 => crossed \/ inflight[r] # 0 \/ r \in hostQueue

Wire ==
    /\ \A r \in Req : Life(r)
    /\ \A r \in Req : inflight[r] \in {0, active}
    /\ Replacing => \A r \in Req : inflight[r] = 0

-----------------------------------------------------------------------------
\* The type invariant in parts.
Swaps == [at : {"none", "hash", "handshake", "drain", "stop"}, old : Gen \cup {0},
          fresh : Gen \cup {0}, sha : Sha \cup {NoSha}]

KidTyped ==
    /\ generation \in Gen /\ active \in Gen /\ restarting \in SUBSET Gen
    /\ kid \in [Gen -> {"unborn", "alive", "ending", "exited"}]
    /\ loaded \in [Gen -> Sha]
FlagTyped == paused \in BOOLEAN /\ stopping \in BOOLEAN /\ timer \in BOOLEAN
SwapTyped ==
    /\ draining = IF swap.at = "stop" THEN swap.old ELSE 0
    /\ polling <=> swap.at # "none"
    /\ polling \in BOOLEAN /\ swap \in Swaps
    /\ runningSha \in Sha \cup {NoSha} /\ candidateSha \in Sha \cup {NoSha} /\ rejectedSha \in Sha \cup {NoSha}
WireTyped ==
    /\ inflight \in [Req -> Gen \cup {0}] /\ hostQueue \in SUBSET Req
    /\ asked \in [Gen -> SUBSET Req] /\ sent \in SUBSET Req /\ replies \in [Req -> Nat]
    /\ initRequest \in BOOLEAN /\ initResponse \in BOOLEAN
CountTyped ==
    /\ disk \in Sha
    /\ crashes \in 0..MaxCrashes /\ failures \in 0..MaxFailures /\ changes \in 0..MaxChanges

PastTyped == crossed \in BOOLEAN /\ relic \in Gen \cup {0}

\* What holds throughout, and what holds until a swap crosses a restart.
SwapKnown ==
    /\ Trying => swap.old \in Gen /\ swap.fresh \in Gen
    /\ swap.at = "stop" => swap.old \in Gen
Throughout ==
    /\ KidTyped /\ FlagTyped /\ SwapTyped /\ SwapKnown /\ CountTyped
    /\ WireTyped /\ \A r \in Req : Life(r)
SInv ==
    /\ KidTyped /\ FlagTyped /\ SwapTyped /\ WireTyped /\ CountTyped
    /\ Born /\ OneAtATime /\ SwapSound /\ Lives /\ Wire

LEMMA TypeParts == TypeOK <=> KidTyped /\ FlagTyped /\ SwapTyped /\ WireTyped /\ CountTyped /\ PastTyped
<1>1. TypeOK => KidTyped /\ CountTyped /\ PastTyped
    BY DEF TypeOK, KidTyped, CountTyped, PastTyped
<1>2. TypeOK => FlagTyped
    BY DEF TypeOK, FlagTyped
<1>3. TypeOK => SwapTyped
    BY DEF TypeOK, SwapTyped, Swaps
<1>4. TypeOK => WireTyped
    BY DEF TypeOK, WireTyped
<1>5. KidTyped /\ FlagTyped /\ SwapTyped /\ WireTyped /\ CountTyped /\ PastTyped => TypeOK
    BY DEF TypeOK, KidTyped, FlagTyped, SwapTyped, WireTyped, CountTyped, PastTyped, Swaps
<1> QED BY <1>1, <1>2, <1>3, <1>4, <1>5

LEMMA GenFacts == /\ 0 \notin Gen /\ 1 \in Gen /\ Gen \subseteq Nat /\ 0 \in Sha /\ NoSha \notin Sha
                  /\ \A n \in Gen : n < MaxGen => n + 1 \in Gen
BY BoundAssumption DEF Gen, Sha, NoSha

\* A swap that moves on to its next stage.
LEMMA SwapMoves ==
    ASSUME NEW v \in Swaps, NEW s \in {"drain", "stop"}
    PROVE  LET u == [v EXCEPT !.at = s]
           IN u \in Swaps /\ u.at = s /\ u.old = v.old /\ u.fresh = v.fresh
BY DEF Swaps

LEMMA NewSwap ==
    ASSUME NEW s \in {"none", "hash", "handshake"}, NEW old \in Gen \cup {0}, NEW fresh \in Gen \cup {0},
           NEW sha \in Sha \cup {NoSha}
    PROVE  LET u == [at |-> s, old |-> old, fresh |-> fresh, sha |-> sha]
           IN u \in Swaps /\ u.at = s /\ u.old = old /\ u.fresh = fresh
BY DEF Swaps

LEMMA NoSwapTyped == NoSwap \in Swaps /\ NoSwap.at = "none"
BY GenFacts DEF NoSwap, Swaps

LEMMA HashTyped == [NoSwap EXCEPT !.at = "hash"] \in Swaps /\ [NoSwap EXCEPT !.at = "hash"].at = "hash"
<1>1. [NoSwap EXCEPT !.at = "hash"] = [at |-> "hash", old |-> 0, fresh |-> 0, sha |-> NoSha]
    BY DEF NoSwap
<1> QED BY <1>1, NewSwap

-----------------------------------------------------------------------------
\* A request keeps to its life when lines are routed and others answered.
LEMMA RouteLife ==
    ASSUME WireTyped, \A r \in Req : Life(r), crossed => crossed',
           NEW routed \in SUBSET Req, NEW to \in Gen, NEW table \in [Req -> Gen \cup {0}], NEW answered \in SUBSET Req,
           Route(routed, to, table, answered),
           hostQueue' = hostQueue \ routed, sent' = sent \cup routed, initResponse' = initResponse,
           \A r \in routed : replies[r] = 0 /\ inflight[r] = 0,
           \A r \in answered : inflight[r] # 0 /\ table[r] = 0,
           \A r \in Req \ answered : table[r] = inflight[r]
    PROVE  /\ WireTyped' /\ \A r \in Req : Life(r)'
           /\ \A r \in Req : inflight'[r] = IF r \in routed \ Cached(routed) THEN to ELSE table[r]
<1>1. Cached(routed) \subseteq routed
    BY DEF Cached
<1>2. /\ inflight' \in [Req -> Gen \cup {0}]
      /\ \A r \in Req : inflight'[r] = IF r \in routed \ Cached(routed) THEN to ELSE table[r]
    BY DEF Route
<1>3. /\ replies' \in [Req -> Nat]
      /\ \A r \in Req : replies'[r] = replies[r] + (IF r \in Cached(routed) THEN 1 ELSE 0)
                                                 + (IF r \in answered THEN 1 ELSE 0)
    BY DEF Route, WireTyped
<1>4. asked' \in [Gen -> SUBSET Req]
    BY DEF Route, WireTyped
<1>5. initRequest' \in BOOLEAN /\ initResponse' \in BOOLEAN
    BY DEF Route, WireTyped
<1>6. hostQueue' \in SUBSET Req /\ sent' \in SUBSET Req
    BY DEF WireTyped
<1>7. WireTyped'
    BY <1>2, <1>3, <1>4, <1>5, <1>6 DEF WireTyped
<1>8. ASSUME NEW r \in Req PROVE Life(r)'
    <2>1. CASE r \in answered
        <3>1. r \in sent /\ replies[r] = 0 /\ r \notin routed /\ r \notin hostQueue /\ table[r] = 0
            BY <2>1 DEF Life, WireTyped
        <3>2. replies'[r] = 1 /\ inflight'[r] = 0 /\ r \in sent' /\ r \notin hostQueue'
            BY <1>1, <1>2, <1>3, <2>1, <3>1
        <3> QED BY <3>2 DEF Life
    <2>2. CASE r \notin answered /\ r \in Cached(routed)
        <3>1. replies'[r] = 1 /\ inflight'[r] = 0 /\ r \in sent' /\ r \notin hostQueue'
            BY <1>1, <1>2, <1>3, <2>2
        <3> QED BY <3>1 DEF Life
    <2>3. CASE r \notin answered /\ r \in routed \ Cached(routed)
        <3>1. replies'[r] = 0 /\ inflight'[r] # 0 /\ r \in sent' /\ r \notin hostQueue'
            BY <1>1, <1>2, <1>3, <2>3, GenFacts
        <3> QED BY <3>1 DEF Life
    <2>4. CASE r \notin answered /\ r \notin routed
        <3>1. /\ replies'[r] = replies[r] /\ inflight'[r] = inflight[r]
              /\ (r \in sent' <=> r \in sent) /\ (r \in hostQueue' <=> r \in hostQueue)
            BY <1>1, <1>2, <1>3, <2>4 DEF WireTyped
        <3> QED BY <3>1 DEF Life
    <2> QED BY <2>1, <2>2, <2>3, <2>4
<1> QED BY <1>2, <1>7, <1>8

\* The gate opens, or stays as it is, with no request answered.
LEMMA FlushLife ==
    ASSUME WireTyped, \A r \in Req : Life(r), crossed => crossed',
           NEW to \in Gen, Flush(to, inflight, {}), UNCHANGED <<sent, initResponse>>
    PROVE  WireTyped' /\ \A r \in Req : Life(r)' /\ inflight'[r] \in {inflight[r], to}
<1>0. WireTyped /\ \A r \in Req : Life(r)
    OBVIOUS
<1>1. inflight \in [Req -> Gen \cup {0}] /\ hostQueue \subseteq Req
    BY <1>0 DEF WireTyped
<1>2. \A r \in hostQueue : r \in sent /\ replies[r] = 0 /\ inflight[r] = 0
    BY <1>0, <1>1 DEF Life
<1>3. CASE stopping
    <2>1. Route({}, to, inflight, {}) /\ hostQueue' = hostQueue \ {} /\ sent' = sent \cup {}
        BY <1>3 DEF Flush
    <2>2. {} \in SUBSET Req /\ \A r \in Req \ {} : inflight[r] = inflight[r]
        OBVIOUS
    <2>3. initResponse' = initResponse
        OBVIOUS
    <2>4. /\ WireTyped' /\ \A r \in Req : Life(r)'
          /\ \A r \in Req : inflight'[r] = IF r \in {} \ Cached({}) THEN to ELSE inflight[r]
        BY <1>0, <1>1, <2>1, <2>2, <2>3, RouteLife, SMTT(60)
    <2> QED BY <2>4
<1>4. CASE ~stopping
    <2>1. Route(hostQueue, to, inflight, {}) /\ hostQueue' = hostQueue \ hostQueue /\ sent' = sent \cup hostQueue
        BY <1>2, <1>4 DEF Flush
    <2>2. hostQueue \in SUBSET Req /\ {} \in SUBSET Req /\ \A r \in Req \ {} : inflight[r] = inflight[r]
        BY <1>1
    <2>3. initResponse' = initResponse
        OBVIOUS
    <2>4. /\ WireTyped' /\ \A r \in Req : Life(r)'
          /\ \A r \in Req : inflight'[r] = IF r \in hostQueue \ Cached(hostQueue) THEN to ELSE inflight[r]
        BY <1>0, <1>1, <1>2, <2>1, <2>2, <2>3, RouteLife, SMTT(60)
    <2> QED BY <2>4
<1> QED BY <1>3, <1>4

\* Nothing is routed and nothing answered.
LEMMA KeepLife ==
    ASSUME WireTyped, \A r \in Req : Life(r), crossed => crossed', active \in Gen,
           Keep(inflight, {}), UNCHANGED <<sent, initResponse>>
    PROVE  WireTyped' /\ \A r \in Req : Life(r)' /\ inflight'[r] = inflight[r]
<1> DEFINE nobody == {}
<1>1. WireTyped /\ (\A r \in Req : Life(r)) /\ inflight \in [Req -> Gen \cup {0}]
    BY DEF WireTyped
<1>2. Route(nobody, active, inflight, nobody) /\ hostQueue' = hostQueue \ nobody /\ sent' = sent \cup nobody
    BY DEF Keep
<1>3. /\ nobody \in SUBSET Req /\ \A r \in Req \ nobody : inflight[r] = inflight[r]
      /\ \A r \in nobody : replies[r] = 0 /\ inflight[r] = 0 /\ inflight[r] # 0
      /\ \A r \in Req : r \in nobody \ Cached(nobody) => FALSE
    OBVIOUS
<1>4. initResponse' = initResponse /\ (crossed => crossed')
    OBVIOUS
<1> HIDE DEF nobody
<1>5. /\ WireTyped' /\ \A r \in Req : Life(r)'
      /\ \A r \in Req : inflight'[r] = IF r \in nobody \ Cached(nobody) THEN active ELSE inflight[r]
    BY <1>1, <1>2, <1>3, <1>4, RouteLife
<1> QED BY <1>3, <1>5

\* A new request is queued or routed.
LEMMA SendLife ==
    ASSUME WireTyped, \A q \in Req : Life(q), active \in Gen, NEW r \in Req, HostSends(r)
    PROVE  /\ WireTyped' /\ \A q \in Req : Life(q)'
           /\ \A q \in Req : inflight'[q] \in {inflight[q], active} /\ (paused => inflight'[q] = inflight[q])
<1>1. crossed' = crossed
    BY DEF HostSends, pastVars
<1>2. r \notin sent /\ replies[r] = 0 /\ inflight[r] = 0 /\ r \notin hostQueue
    BY DEF HostSends, Life
<1>3. CASE paused
    <2>1. /\ sent' = sent \cup {r} /\ hostQueue' = hostQueue \cup {r} /\ inflight' = inflight
          /\ asked' = asked /\ replies' = replies /\ initRequest' = initRequest /\ initResponse' = initResponse
        BY <1>3 DEF HostSends
    <2>2. WireTyped'
        BY <2>1 DEF WireTyped
    <2>3. \A q \in Req : Life(q)'
        BY <1>1, <1>2, <2>1 DEF Life
    <2> QED BY <2>1, <2>2, <2>3
<1>4. CASE ~paused
    <2>1. /\ Route({r}, active, inflight, {}) /\ hostQueue' = hostQueue \ {r}
          /\ sent' = sent \cup {r} /\ initResponse' = initResponse
        BY <1>2, <1>4 DEF HostSends
    <2>2. /\ {r} \in SUBSET Req /\ {} \in SUBSET Req /\ inflight \in [Req -> Gen \cup {0}]
          /\ \A q \in {r} : replies[q] = 0 /\ inflight[q] = 0
          /\ \A q \in Req \ {} : inflight[q] = inflight[q]
        BY <1>2 DEF WireTyped
    <2>3. /\ WireTyped' /\ \A q \in Req : Life(q)'
          /\ \A q \in Req : inflight'[q] = IF q \in {r} \ Cached({r}) THEN active ELSE inflight[q]
        BY <1>1, <2>1, <2>2, RouteLife
    <2> QED BY <1>4, <2>3
<1> QED BY <1>3, <1>4

\* What waits on a child is answered with an error, and the gate opens or not.
LEMMA FailLife ==
    ASSUME WireTyped, \A r \in Req : Life(r), crossed => crossed',
           NEW g \in Gen, NEW to \in Gen, UNCHANGED <<sent, initResponse>>,
           Flush(to, Failed(g), WaitingOn(g)) \/ (Route({}, to, Failed(g), WaitingOn(g)) /\ UNCHANGED hostQueue)
    PROVE  /\ WireTyped' /\ \A r \in Req : Life(r)'
           /\ Flush(to, Failed(g), WaitingOn(g)) => \A r \in Req : inflight'[r] \in {Failed(g)[r], to}
           /\ Route({}, to, Failed(g), WaitingOn(g)) => \A r \in Req : inflight'[r] = Failed(g)[r]
<1>0. WireTyped /\ \A r \in Req : Life(r)
    OBVIOUS
<1>1. /\ inflight \in [Req -> Gen \cup {0}] /\ hostQueue \subseteq Req
      /\ Failed(g) \in [Req -> Gen \cup {0}] /\ WaitingOn(g) \in SUBSET Req
      /\ \A r \in WaitingOn(g) : inflight[r] # 0 /\ Failed(g)[r] = 0
      /\ \A r \in Req \ WaitingOn(g) : Failed(g)[r] = inflight[r]
    BY <1>0, GenFacts DEF WireTyped, Failed, WaitingOn
<1>2. \A r \in hostQueue : r \in sent /\ replies[r] = 0 /\ inflight[r] = 0
    BY <1>0, <1>1 DEF Life
<1>3. ASSUME Route({}, to, Failed(g), WaitingOn(g)), UNCHANGED hostQueue
      PROVE  WireTyped' /\ \A r \in Req : Life(r)' /\ inflight'[r] = Failed(g)[r]
    <2> DEFINE routed == {}
               table == Failed(g)
               answered == WaitingOn(g)
    <2>1. /\ hostQueue' = hostQueue \ routed /\ sent' = sent \cup routed /\ routed \in SUBSET Req
          /\ \A r \in routed : replies[r] = 0 /\ inflight[r] = 0
        BY <1>3
    <2>2. Route(routed, to, table, answered) /\ initResponse' = initResponse /\ (crossed => crossed')
        BY <1>3
    <2>3. /\ table \in [Req -> Gen \cup {0}] /\ answered \in SUBSET Req
          /\ \A r \in answered : inflight[r] # 0 /\ table[r] = 0
          /\ \A r \in Req \ answered : table[r] = inflight[r]
        BY <1>1
    <2>4. \A r \in Req : r \in routed \ Cached(routed) => FALSE
        OBVIOUS
    <2> HIDE DEF routed, table, answered
    <2>5. /\ WireTyped' /\ \A r \in Req : Life(r)'
          /\ \A r \in Req : inflight'[r] = IF r \in routed \ Cached(routed) THEN to ELSE table[r]
        BY <1>0, <2>1, <2>2, <2>3, RouteLife
    <2> QED BY <2>4, <2>5 DEF table
<1>4. ASSUME Flush(to, Failed(g), WaitingOn(g)), ~stopping
      PROVE  WireTyped' /\ \A r \in Req : Life(r)' /\ inflight'[r] \in {Failed(g)[r], to}
    <2>1. Route(hostQueue, to, Failed(g), WaitingOn(g)) /\ hostQueue' = hostQueue \ hostQueue /\ sent' = sent \cup hostQueue
        BY <1>2, <1>4 DEF Flush
    <2> QED BY <1>0, <1>1, <1>2, <2>1, RouteLife
<1>5. Flush(to, Failed(g), WaitingOn(g)) /\ stopping => Route({}, to, Failed(g), WaitingOn(g)) /\ UNCHANGED hostQueue
    BY DEF Flush
<1>6. Route({}, to, Failed(g), WaitingOn(g)) => \A r \in Req : inflight'[r] = Failed(g)[r]
    BY DEF Route
<1> QED BY <1>3, <1>4, <1>5, <1>6

\* Steps that only move requests leave the children and the swap as they are.
Roles == KidTyped /\ FlagTyped /\ SwapTyped /\ Born /\ OneAtATime /\ SwapSound /\ Lives

LEMMA RolesKept ==
    ASSUME SInv, UNCHANGED <<kidVars, roleVars, stopping, timer, restarting, swapVars, relic>>
    PROVE  Roles'
<1>1. KidTyped' /\ Born'
    BY DEF SInv, KidTyped, Born, kidVars, roleVars
<1>2. FlagTyped' /\ SwapTyped'
    BY DEF SInv, FlagTyped, SwapTyped, roleVars, swapVars
<1>3. OneAtATime' /\ SwapSound'
    BY DEF SInv, OneAtATime, SwapSound, Trying, Replacing, roleVars, swapVars, kidVars
<1>4. Lives'
    BY DEF SInv, Lives, InUse, Trying, Replacing, roleVars, swapVars, kidVars
<1> QED BY <1>1, <1>2, <1>3, <1>4 DEF Roles

LEMMA CountsKept == ASSUME SInv, UNCHANGED envVars PROVE CountTyped'
BY DEF SInv, CountTyped, envVars

LEMMA SInvParts ==
    ASSUME Roles', WireTyped', CountTyped', Wire'
    PROVE  SInv'
BY DEF SInv, Roles

\* Every action keeps the invariant: one lemma for each.
LEMMA HostSendsKeeps == ASSUME SInv, NEW r \in Req, HostSends(r) PROVE SInv'
<1>1. Roles' /\ CountTyped'
    BY RolesKept, CountsKept DEF HostSends, pastVars
<1>2. /\ WireTyped /\ \A q \in Req : Life(q)
      /\ \A q \in Req : inflight[q] \in {0, active}
      /\ Replacing => paused /\ \A q \in Req : inflight[q] = 0
      /\ active \in Gen
    BY DEF SInv, Wire, OneAtATime, KidTyped
<1>3. active' = active /\ (Replacing' <=> Replacing)
    BY DEF HostSends, roleVars, Replacing
<1>4. /\ WireTyped' /\ \A q \in Req : Life(q)'
      /\ \A q \in Req : inflight'[q] \in {inflight[q], active} /\ (paused => inflight'[q] = inflight[q])
    BY <1>2, SendLife
<1>5. Wire'
    BY <1>2, <1>3, <1>4 DEF Wire
<1> QED BY <1>1, <1>4, <1>5, SInvParts

LEMMA ChildAnswersKeeps == ASSUME SInv, NEW g \in Gen, NEW r \in Req, ChildAnswers(g, r) PROVE SInv'
<1>1. Roles' /\ CountTyped'
    BY RolesKept, CountsKept DEF ChildAnswers, pastVars
<1>2. /\ WireTyped /\ \A q \in Req : Life(q)
      /\ \A q \in Req : inflight[q] \in {0, active}
      /\ Replacing => \A q \in Req : inflight[q] = 0
    BY DEF SInv, Wire
<1>3. active' = active /\ (Replacing' <=> Replacing) /\ sent' = sent /\ hostQueue' = hostQueue /\ crossed' = crossed
    BY DEF ChildAnswers, roleVars, Replacing, pastVars
<1>4. WireTyped'
    <2>1. inflight' \in [Req -> Gen \cup {0}] /\ asked' \in [Gen -> SUBSET Req]
        BY <1>2 DEF WireTyped, ChildAnswers
    <2>2. replies' \in [Req -> Nat]
        BY <1>2 DEF WireTyped, ChildAnswers
    <2>3. initRequest' \in BOOLEAN /\ initResponse' \in BOOLEAN
        BY <1>2 DEF WireTyped, ChildAnswers
    <2> QED BY <1>2, <1>3, <2>1, <2>2, <2>3 DEF WireTyped
<1>5. ASSUME NEW q \in Req PROVE Life(q)' /\ inflight'[q] \in {0, inflight[q]}
    <2>1. CASE q = r /\ inflight[r] = g
        <3>1. Heard(g, r)
            BY <1>2, <2>1, GenFacts DEF Heard
        <3>2. inflight'[q] = 0 /\ replies'[q] = replies[q] + 1
            BY <1>2, <2>1, <3>1 DEF ChildAnswers, WireTyped
        <3>3. q \in sent /\ replies[q] = 0 /\ q \notin hostQueue
            BY <1>2, <2>1, GenFacts DEF Life
        <3> QED BY <1>3, <3>2, <3>3 DEF Life
    <2>2. CASE ~(q = r /\ inflight[r] = g)
        <3>1. inflight'[q] = inflight[q] /\ replies'[q] = replies[q]
            BY <1>2, <2>2 DEF ChildAnswers, WireTyped, Heard
        <3> QED BY <1>2, <1>3, <3>1 DEF Life
    <2> QED BY <2>1, <2>2
<1>6. Wire'
    BY <1>2, <1>3, <1>5 DEF Wire
<1> QED BY <1>1, <1>4, <1>6, SInvParts

\* Steps that leave the requests alone: what is in flight still waits on the
\* active child, and no replacement began with something in flight.
LEMMA WireKept ==
    ASSUME SInv, UNCHANGED <<wireVars, active>>, Replacing' => Replacing, crossed => crossed'
    PROVE  WireTyped' /\ Wire'
<1>1. WireTyped'
    BY DEF SInv, WireTyped, wireVars
<1>2. Wire'
    BY DEF SInv, Wire, Life, wireVars
<1> QED BY <1>1, <1>2

\* The children as the swap moves between stages where none is tried out.
LEMMA IdleSwap ==
    ASSUME SInv, UNCHANGED <<kidVars, active, paused, stopping, timer, restarting, relic>>,
           ~Trying, swap' \in Swaps, swap'.at \in {"none", "hash"}
    PROVE  KidTyped' /\ FlagTyped' /\ Born' /\ OneAtATime' /\ SwapSound' /\ Lives'
<1>1. KidTyped' /\ Born'
    BY DEF SInv, KidTyped, Born, kidVars
<1>2. FlagTyped'
    BY DEF SInv, FlagTyped
<1>3. ~Trying' /\ (Replacing' <=> Replacing) /\ swap'.at # "stop"
    BY DEF Trying, Replacing
<1>4. OneAtATime' /\ SwapSound'
    BY <1>3 DEF SInv, OneAtATime, SwapSound
<1>5. \A g : InUse(g)' <=> InUse(g)
    BY <1>3 DEF InUse
<1>6. Lives'
    BY <1>3, <1>5 DEF SInv, Lives, kidVars
<1> QED BY <1>1, <1>2, <1>4, <1>6

LEMMA PollBeginsKeeps == ASSUME SInv, PollBegins PROVE SInv'
<1>1. swap' \in Swaps /\ swap'.at = "hash" /\ ~Trying
    BY HashTyped DEF PollBegins, SInv, SwapTyped, Trying
<1>2. KidTyped' /\ FlagTyped' /\ Born' /\ OneAtATime' /\ SwapSound' /\ Lives'
    BY <1>1, IdleSwap DEF PollBegins, roleVars, pastVars
<1>3. SwapTyped'
    BY <1>1 DEF PollBegins, SInv, SwapTyped, roleVars
<1>4. WireTyped' /\ Wire' /\ CountTyped'
    BY WireKept, CountsKept DEF PollBegins, roleVars, Replacing, pastVars
<1> QED BY <1>2, <1>3, <1>4 DEF SInv

LEMMA PollSettlesKeeps == ASSUME SInv, PollSettles PROVE SInv'
<1>1. swap' \in Swaps /\ swap'.at = "none" /\ ~Trying
    BY NoSwapTyped DEF PollSettles, Trying
<1>2. KidTyped' /\ FlagTyped' /\ Born' /\ OneAtATime' /\ SwapSound' /\ Lives'
    BY <1>1, IdleSwap DEF PollSettles, roleVars, pastVars
<1>3. SwapTyped'
    <2>1. candidateSha' \in Sha \cup {NoSha}
        BY DEF PollSettles, SInv, CountTyped
    <2>2. draining' = 0 /\ polling' = FALSE
        BY DEF PollSettles, roleVars, SInv, SwapTyped
    <2> QED BY <1>1, <2>1, <2>2 DEF PollSettles, SInv, SwapTyped
<1>4. WireTyped' /\ Wire' /\ CountTyped'
    BY WireKept, CountsKept DEF PollSettles, roleVars, Replacing, pastVars
<1> QED BY <1>2, <1>3, <1>4 DEF SInv

LEMMA PollFailsKeeps == ASSUME SInv, PollFails PROVE SInv'
<1>1. swap' \in Swaps /\ swap'.at = "none" /\ ~Trying
    BY NoSwapTyped DEF PollFails, Trying
<1>2. KidTyped' /\ FlagTyped' /\ Born' /\ OneAtATime' /\ SwapSound' /\ Lives'
    BY <1>1, IdleSwap DEF PollFails, roleVars, pastVars
<1>3. SwapTyped'
    BY <1>1 DEF PollFails, roleVars, SInv, SwapTyped
<1>4. WireTyped' /\ Wire'
    BY WireKept DEF PollFails, roleVars, Replacing, pastVars
<1>5. CountTyped'
    BY BoundAssumption DEF PollFails, SInv, CountTyped
<1> QED BY <1>2, <1>3, <1>4, <1>5 DEF SInv

LEMMA SwapEndsKeeps == ASSUME SInv, SwapEnds PROVE SInv'
<1>1. swap' \in Swaps /\ swap'.at = "none" /\ ~Trying
    BY NoSwapTyped DEF SwapEnds, Trying
<1>2. KidTyped' /\ FlagTyped' /\ Born' /\ OneAtATime' /\ SwapSound' /\ Lives'
    BY <1>1, IdleSwap DEF SwapEnds, pastVars
<1>3. SwapTyped'
    BY <1>1 DEF SwapEnds, SInv, SwapTyped
<1>4. WireTyped' /\ Wire' /\ CountTyped'
    BY WireKept, CountsKept DEF SwapEnds, Replacing, pastVars
<1> QED BY <1>2, <1>3, <1>4 DEF SInv

LEMMA BundleChangesKeeps == ASSUME SInv, BundleChanges PROVE SInv'
<1>1. Roles'
    BY RolesKept DEF BundleChanges, pastVars
<1>2. WireTyped' /\ Wire'
    BY WireKept DEF BundleChanges, roleVars, Replacing, pastVars
<1>3. CountTyped'
    BY BoundAssumption DEF BundleChanges, SInv, CountTyped, Sha
<1> QED BY <1>1, <1>2, <1>3, SInvParts

LEMMA ShutdownKeeps == ASSUME SInv, Shutdown PROVE SInv'
<1>1. kid' \in [Gen -> {"unborn", "alive", "ending", "exited"}]
    BY DEF Shutdown, SInv, KidTyped
<1>2. \A g \in Gen : kid'[g] = "unborn" <=> kid[g] = "unborn"
    BY DEF Shutdown, SInv, KidTyped
<1>3. KidTyped' /\ Born'
    BY <1>1, <1>2 DEF Shutdown, SInv, KidTyped, Born, roleVars
<1>4. FlagTyped' /\ SwapTyped'
    BY DEF Shutdown, SInv, FlagTyped, SwapTyped, roleVars, swapVars
<1>5. (Trying' <=> Trying) /\ (Replacing' => Replacing) /\ ~timer' /\ stopping' /\ generation' = generation
    BY DEF Shutdown, Trying, Replacing, swapVars
<1>6. OneAtATime' /\ SwapSound' /\ Lives'
    BY <1>5 DEF Shutdown, SInv, OneAtATime, SwapSound, Lives, roleVars, swapVars
<1>7. WireTyped' /\ Wire' /\ CountTyped'
    BY <1>5, WireKept, CountsKept DEF Shutdown, roleVars, pastVars
<1> QED BY <1>3, <1>4, <1>6, <1>7 DEF SInv

-----------------------------------------------------------------------------
\* Spawn: the new child is alive, the others are as they were.
LEMMA SpawnFacts ==
    ASSUME SInv, Spawn
    PROVE  /\ generation \in Gen /\ generation + 1 \in Gen /\ generation' = generation + 1
           /\ kid' \in [Gen -> {"unborn", "alive", "ending", "exited"}] /\ loaded' \in [Gen -> Sha]
           /\ kid'[generation + 1] = "alive"
           /\ \A g \in Gen : g # generation + 1 => kid'[g] = kid[g]
           /\ \A g \in Gen : kid'[g] = "unborn" <=> g > generation + 1
           /\ active # generation + 1 /\ \A g \in restarting : g # generation + 1
<1>1. generation \in Gen /\ generation + 1 \in Gen /\ Gen \subseteq Nat
    BY GenFacts DEF SInv, KidTyped, Spawn
<1>2. /\ generation' = generation + 1
      /\ kid' \in [Gen -> {"unborn", "alive", "ending", "exited"}] /\ loaded' \in [Gen -> Sha]
      /\ kid'[generation + 1] = "alive"
      /\ \A g \in Gen : g # generation + 1 => kid'[g] = kid[g]
    BY <1>1 DEF SInv, KidTyped, CountTyped, Spawn
<1>3. active \in Gen /\ active <= generation /\ restarting \subseteq Gen /\ \A g \in restarting : g <= generation
    BY DEF SInv, KidTyped, Born
<1>4. active # generation + 1 /\ \A g \in restarting : g # generation + 1
    BY <1>1, <1>3
<1>5. \A g \in Gen : kid'[g] = "unborn" <=> g > generation + 1
    <2>1. TAKE g \in Gen
    <2>2. CASE g = generation + 1
        BY <1>1, <1>2, <2>2
    <2>3. CASE g # generation + 1
        <3>1. kid'[g] = kid[g] /\ (kid[g] = "unborn" <=> g > generation)
            BY <1>2, <2>3 DEF SInv, Born
        <3> QED BY <1>1, <2>3, <3>1
    <2> QED BY <2>2, <2>3
<1> QED BY <1>1, <1>2, <1>4, <1>5

\* A swap that begins with the gate open crosses no restart.
LEMMA SwapBeginsKeeps == ASSUME SInv, SwapBegins, ~crossed' PROVE SInv'
<1>1. /\ generation \in Gen /\ generation + 1 \in Gen /\ generation' = generation + 1
      /\ kid' \in [Gen -> {"unborn", "alive", "ending", "exited"}] /\ loaded' \in [Gen -> Sha]
      /\ kid'[generation + 1] = "alive"
      /\ \A g \in Gen : g # generation + 1 => kid'[g] = kid[g]
      /\ \A g \in Gen : kid'[g] = "unborn" <=> g > generation + 1
      /\ active # generation + 1
    BY SpawnFacts DEF SwapBegins
<1>2. /\ active' = active /\ draining' = draining /\ stopping' = stopping /\ timer' = timer
      /\ restarting' = restarting /\ paused' = TRUE /\ swap.at = "hash" /\ polling' = polling
      /\ relic' = relic /\ ~paused /\ ~crossed
    BY DEF SwapBegins
<1>3. /\ active \in Gen /\ active <= generation /\ restarting \subseteq Gen
      /\ \A g \in restarting : g <= generation
    BY DEF SInv, KidTyped, Born
<1>4. swap' \in Swaps /\ swap'.at = "handshake" /\ swap'.old = active /\ swap'.fresh = generation + 1
    BY <1>1, <1>3, NewSwap DEF SwapBegins, SInv, CountTyped
<1>5. KidTyped' /\ Born'
    BY <1>1, <1>2, <1>3, GenFacts DEF KidTyped, Born
<1>6. FlagTyped'
    BY <1>2 DEF SInv, FlagTyped
<1>7. SwapTyped'
    BY <1>2, <1>4 DEF SwapBegins, SInv, SwapTyped
<1>8. Trying' /\ ~Trying /\ ~Replacing /\ ~Replacing'
    BY <1>2, <1>4 DEF Trying, Replacing, SInv, OneAtATime
<1>9. OneAtATime' /\ SwapSound'
    BY <1>1, <1>2, <1>3, <1>4, <1>8, GenFacts DEF OneAtATime, SwapSound, Replacing
<1>10. Lives'
    <2>1. SUFFICES ASSUME ~stopping PROVE Lives'
        BY <1>2 DEF Lives
    <2>2. /\ restarting = {}
          /\ \A g \in Gen : kid[g] = "ending" => g # active
          /\ \A g \in Gen : kid[g] = "alive" => g = active
        BY <1>2, <1>8, <2>1 DEF SInv, Lives, InUse, Replacing
    <2>3. \A g \in Gen : InUse(g)' <=> g = active \/ g = generation + 1
        BY <1>2, <1>4, <1>8, <2>2 DEF InUse
    <2>4. \A g \in Gen : kid'[g] = "ending" => g # active /\ g # generation + 1
        BY <1>1, <2>2
    <2>5. \A g \in Gen : kid'[g] = "alive" => g = active \/ g = generation + 1
        BY <1>1, <2>2
    <2> QED BY <1>2, <1>8, <2>3, <2>4, <2>5 DEF Lives
<1>11. WireTyped' /\ Wire' /\ CountTyped'
    BY <1>2, <1>8, WireKept, CountsKept DEF SwapBegins
<1> QED BY <1>5, <1>6, <1>7, <1>9, <1>10, <1>11 DEF SInv

LEMMA SwapDrainedKeeps == ASSUME SInv, SwapDrained PROVE SInv'
<1> DEFINE old == swap.old
           fresh == swap.fresh
<1>1. /\ swap.at = "drain" /\ Trying /\ ~Replacing /\ paused = TRUE /\ restarting = {} /\ timer = FALSE
      /\ old = active /\ fresh \in Gen /\ fresh # active /\ fresh <= generation /\ active \in Gen
      /\ generation \in Gen /\ active <= generation
    BY DEF SwapDrained, SInv, Trying, Replacing, OneAtATime, SwapSound, KidTyped, FlagTyped, Born
<1>2. /\ active' = fresh /\ draining' = old /\ stopping' = stopping /\ restarting' = {}
      /\ generation' = generation /\ loaded' = loaded /\ polling' = polling
      /\ sent' = sent /\ initResponse' = initResponse
    BY <1>1 DEF SwapDrained
<1>3. swap' \in Swaps /\ swap'.at = "stop" /\ swap'.old = old /\ swap'.fresh = fresh
    BY SwapMoves DEF SwapDrained, SInv, SwapTyped
<1>4. /\ kid' \in [Gen -> {"unborn", "alive", "ending", "exited"}]
      /\ \A h \in Gen : h # active => kid'[h] = kid[h]
      /\ kid'[active] = IF kid[active] = "alive" THEN "ending" ELSE kid[active]
    BY <1>1 DEF SwapDrained, StopChild, SInv, KidTyped
<1>5. \/ FreshExited /\ timer' = Scheduled /\ paused' = paused /\ Keep(Failed(old), WaitingOn(old))
      \/ ~FreshExited /\ paused' = FALSE /\ timer' = timer /\ Flush(fresh, Failed(old), WaitingOn(old))
    BY DEF SwapDrained
<1>6. KidTyped' /\ Born'
    BY <1>1, <1>2, <1>4 DEF KidTyped, Born, SInv
<1>7. FlagTyped'
    BY <1>1, <1>2, <1>5 DEF FlagTyped, SInv, Scheduled
<1>8. SwapTyped'
    <2>1. runningSha' \in Sha \cup {NoSha} /\ candidateSha' = candidateSha /\ rejectedSha' = rejectedSha
        BY DEF SwapDrained, SInv, SwapTyped, Swaps
    <2> QED BY <1>1, <1>2, <1>3, <2>1 DEF SwapTyped, SInv
<1>9. ~Trying' /\ (Replacing' => FreshExited /\ paused' = TRUE) /\ (FreshExited => paused' = TRUE)
    BY <1>1, <1>2, <1>3, <1>5 DEF Trying, Replacing
<1>10. OneAtATime' /\ SwapSound'
    BY <1>1, <1>2, <1>3, <1>9 DEF OneAtATime, SwapSound
<1>11. Lives'
    <2>1. SUFFICES ASSUME ~stopping PROVE Lives'
        BY <1>2 DEF Lives
    <2>2. /\ \A g \in Gen : kid[g] = "alive" => g = active \/ g = fresh
          /\ kid[fresh] # "ending"
        BY <1>1, <2>1 DEF SInv, Lives, InUse
    <2>3. \A g \in Gen : InUse(g)' <=> g = fresh
        BY <1>2, <1>9 DEF InUse
    <2>4. kid'[fresh] = kid[fresh] /\ kid[fresh] # "unborn"
        <3>0. fresh \in Nat /\ generation \in Nat /\ fresh <= generation
            BY <1>1, GenFacts
        <3>1. ~(fresh > generation)
            BY <3>0
        <3>2. kid[fresh] = "unborn" <=> fresh > generation
            BY <1>1 DEF SInv, Born
        <3>3. kid'[fresh] = kid[fresh]
            BY <1>1, <1>4
        <3> QED BY <3>1, <3>2, <3>3
    <2>5. kid[fresh] \in {"alive", "exited"}
        BY <1>1, <2>2, <2>4 DEF SInv, KidTyped
    <2>6. \A g \in Gen : kid'[g] = "ending" => g # fresh
        BY <2>2, <2>4
    <2>7. \A g \in Gen : kid'[g] = "alive" => g = fresh
        BY <1>4, <2>2
    <2>8. FreshExited => kid'[active'] = "exited"
        BY <1>2, <2>4 DEF FreshExited
    <2>9. paused' # TRUE => kid'[active'] = "alive"
        BY <1>2, <1>9, <2>4, <2>5 DEF FreshExited
    <2>10. ~paused' => kid'[active'] = "alive"
        BY <1>7, <2>9 DEF FlagTyped
    <2> QED BY <1>3, <1>9, <2>3, <2>6, <2>7, <2>8, <2>10 DEF Lives
<1>12. \A r \in Req : Failed(old)[r] = 0
    BY <1>1 DEF Failed, SInv, Wire
<1>0. WireTyped /\ (\A r \in Req : Life(r)) /\ crossed' = crossed
    BY DEF SInv, Wire, SwapDrained, pastVars
<1>13. /\ WireTyped' /\ \A r \in Req : Life(r)' /\ inflight'[r] \in {0, fresh}
       /\ FreshExited => \A r \in Req : inflight'[r] = 0
    <2>1. CASE FreshExited
        <3>1. Route({}, active, Failed(old), WaitingOn(old)) /\ UNCHANGED hostQueue
            BY <1>5, <2>1 DEF Keep
        <3> QED BY <1>0, <1>1, <1>2, <1>12, <3>1, FailLife
    <2>2. CASE ~FreshExited
        <3>1. Flush(fresh, Failed(old), WaitingOn(old))
            BY <1>5, <2>2
        <3> QED BY <1>0, <1>1, <1>2, <1>12, <2>2, <3>1, FailLife
    <2> QED BY <2>1, <2>2
<1>14. Wire'
    BY <1>2, <1>9, <1>13 DEF Wire
<1>15. CountTyped'
    BY CountsKept DEF SwapDrained
<1> QED BY <1>6, <1>7, <1>8, <1>10, <1>11, <1>13, <1>14, <1>15 DEF SInv

\* The requests when none is in flight: the gate opens to a child, or stays as it is.
LEMMA IdleFlush ==
    ASSUME SInv, NEW to \in Gen, \A r \in Req : inflight[r] = 0,
           Flush(to, inflight, {}), UNCHANGED <<sent, initResponse>>, active' = to, ~Replacing', crossed => crossed'
    PROVE  WireTyped' /\ Wire'
<1>1. /\ WireTyped' /\ \A r \in Req : Life(r)' /\ inflight'[r] \in {inflight[r], to}
    BY FlushLife DEF SInv, Wire
<1> QED BY <1>1 DEF Wire

LEMMA RestartFiresKeeps == ASSUME SInv, RestartFires PROVE SInv'
<1> DEFINE new == generation + 1
<1>1. /\ generation \in Gen /\ new \in Gen /\ generation' = new
      /\ kid' \in [Gen -> {"unborn", "alive", "ending", "exited"}] /\ loaded' \in [Gen -> Sha]
      /\ kid'[new] = "alive"
      /\ \A g \in Gen : g # new => kid'[g] = kid[g]
      /\ \A g \in Gen : kid'[g] = "unborn" <=> g > new
      /\ active # new
    BY SpawnFacts DEF RestartFires
<1>2. /\ timer /\ ~stopping /\ timer' = FALSE /\ stopping' = stopping /\ Replacing
      /\ UNCHANGED <<swapVars, envVars>> /\ draining' = draining /\ swap' = swap
      /\ sent' = sent /\ initResponse' = initResponse /\ crossed' = crossed
    BY DEF RestartFires, Replacing, roleVars, wireVars, swapVars, pastVars
<1>3. /\ ~Trying /\ ~Trying' /\ restarting = {} /\ paused
      /\ active \in Gen /\ active <= generation /\ kid[active] = "exited"
      /\ \A g \in Gen : kid[g] # "alive" /\ (kid[g] = "ending" => g # active)
      /\ \A r \in Req : inflight[r] = 0
    BY <1>2 DEF SInv, KidTyped, Born, OneAtATime, Lives, InUse, Trying, Wire
<1>4. \/ /\ restarting' = {new} /\ active' = active /\ paused' = paused /\ UNCHANGED wireVars
      \/ /\ restarting' = {} /\ active' = new /\ paused' = FALSE /\ Flush(new, inflight, {})
    BY <1>3 DEF RestartFires, roleVars
<1>5. SwapTyped' /\ SwapSound'
    <2>1. SwapTyped'
        BY <1>2 DEF SInv, SwapTyped, swapVars
    <2>2. SwapSound'
        BY <1>2, <1>3 DEF SInv, SwapSound
    <2> QED BY <2>1, <2>2
<1>6. FlagTyped' /\ CountTyped'
    <2>1. FlagTyped'
        BY <1>2, <1>4 DEF SInv, FlagTyped
    <2> QED BY <2>1, <1>2, CountsKept
<1>7. KidTyped' /\ Born'
    <2>1. active' \in Gen /\ restarting' \in SUBSET Gen
        BY <1>1, <1>3, <1>4
    <2>2. generation \in Nat /\ active \in Nat
        BY <1>1, <1>3, GenFacts
    <2>3. active' <= new /\ \A g \in restarting' : g <= new
        <3>1. active <= new /\ new <= new
            BY <1>3, <2>2
        <3>2. active' \in {active, new} /\ restarting' \subseteq {new}
            BY <1>4
        <3> QED BY <3>1, <3>2
    <2>4. KidTyped'
        BY <1>1, <2>1 DEF KidTyped
    <2>5. Born'
        BY <1>1, <2>3 DEF Born
    <2> QED BY <2>4, <2>5
<1>8. OneAtATime'
    BY <1>1, <1>2, <1>3, <1>4 DEF OneAtATime, Replacing
<1>9. \A g \in Gen : kid'[g] = "alive" => g = new
    BY <1>1, <1>3
<1>10. CASE restarting' = {new} /\ active' = active /\ paused' = paused /\ UNCHANGED wireVars
    <2>1. \A g \in Gen : InUse(g)' <=> g = active \/ g = new
        BY <1>3, <1>10 DEF InUse
    <2>2. kid'[active] = "exited" /\ \A g \in Gen : kid'[g] = "ending" => g # active /\ g # new
        BY <1>1, <1>3
    <2>3. Lives'
        BY <1>2, <1>3, <1>9, <1>10, <2>1, <2>2 DEF Lives
    <2>4. WireTyped' /\ Wire'
        BY <1>2, <1>10, WireKept
    <2> QED BY <1>5, <1>6, <1>7, <1>8, <2>3, <2>4 DEF SInv
<1>11. CASE restarting' = {} /\ active' = new /\ paused' = FALSE /\ Flush(new, inflight, {})
    <2>1. ~Replacing'
        BY <1>2, <1>11 DEF Replacing
    <2>2. \A g \in Gen : InUse(g)' <=> g = new
        BY <1>3, <1>11 DEF InUse
    <2>3. Lives'
        BY <1>1, <1>9, <1>11, <2>1, <2>2 DEF Lives
    <2>4. WireTyped' /\ Wire'
        BY <1>1, <1>2, <1>3, <1>11, <2>1, IdleFlush
    <2> QED BY <1>5, <1>6, <1>7, <1>8, <2>3, <2>4 DEF SInv
<1> QED BY <1>4, <1>10, <1>11

LEMMA HandshakeAnsweredKeeps == ASSUME SInv, NEW g \in Gen, HandshakeAnswered(g) PROVE SInv'
<1>1. /\ kid' = kid /\ generation' = generation /\ loaded' = loaded
      /\ kid[g] \in {"alive", "ending"} /\ CountTyped'
    BY CountsKept DEF HandshakeAnswered, Running, kidVars
<1>2. CASE g \in restarting
    <2>1. /\ restarting' = restarting \ {g} /\ active' = g /\ paused' = FALSE
          /\ Flush(g, inflight, {}) /\ UNCHANGED <<draining, stopping, timer, swapVars, sent, initResponse, crossed>>
        BY <1>2 DEF HandshakeAnswered, FinishRestart, pastVars
    <2>2. swap' = swap /\ UNCHANGED swapVars
        BY <2>1 DEF swapVars
    <2>3. /\ Replacing /\ ~Trying /\ ~Trying'
          /\ ~timer /\ restarting = {g} /\ restarting' = {} /\ \A r \in Req : inflight[r] = 0
        BY <1>2, <2>1, <2>2 DEF SInv, Replacing, Trying, OneAtATime, Wire
    <2>4. ~Replacing'
        BY <2>1, <2>3 DEF Replacing
    <2>5. KidTyped' /\ Born'
        BY <1>1, <1>2, <2>1, <2>3 DEF SInv, KidTyped, Born
    <2>6. FlagTyped'
        BY <2>1 DEF SInv, FlagTyped
    <2>7. SwapTyped' /\ SwapSound'
        BY <2>1, <2>2, <2>3 DEF SInv, SwapTyped, SwapSound, swapVars
    <2>8. OneAtATime'
        BY <2>1, <2>3, <2>4 DEF OneAtATime
    <2>9. Lives'
        <3>1. SUFFICES ASSUME ~stopping PROVE Lives'
            BY <2>1 DEF Lives
        <3>2. /\ kid[active] = "exited" /\ kid[g] = "alive"
              /\ \A h \in Gen : kid[h] = "alive" => h = g
            BY <1>1, <1>2, <2>3, <3>1 DEF SInv, Lives, InUse
        <3>3. \A h \in Gen : InUse(h)' <=> h = g
            BY <2>1, <2>3 DEF InUse
        <3> QED BY <1>1, <2>1, <2>4, <3>2, <3>3 DEF Lives
    <2>10. WireTyped' /\ Wire'
        BY <2>1, <2>3, <2>4, IdleFlush
    <2> QED BY <1>1, <2>5, <2>6, <2>7, <2>8, <2>9, <2>10 DEF SInv
<1>3. CASE g \notin restarting
    <2>1. /\ swap.at = "handshake" /\ swap' = [swap EXCEPT !.at = "drain"]
          /\ UNCHANGED <<active, draining, paused, stopping, timer, restarting, wireVars, polling,
                         runningSha, candidateSha, rejectedSha, crossed, relic>>
        BY <1>3 DEF HandshakeAnswered, Shaking, roleVars, pastVars
    <2>2. swap' \in Swaps /\ swap'.at = "drain" /\ swap'.old = swap.old /\ swap'.fresh = swap.fresh
        BY <2>1, SwapMoves DEF SInv, SwapTyped
    <2>3. Trying /\ Trying' /\ (Replacing' <=> Replacing)
        BY <2>1, <2>2 DEF Trying, Replacing
    <2>4. KidTyped' /\ Born'
        BY <1>1, <2>1 DEF SInv, KidTyped, Born
    <2>5. FlagTyped' /\ SwapTyped'
        <3>1. FlagTyped'
            BY <2>1 DEF SInv, FlagTyped
        <3>2. SwapTyped'
            BY <2>1, <2>2 DEF SInv, SwapTyped
        <3> QED BY <3>1, <3>2
    <2>6. OneAtATime' /\ SwapSound'
        BY <1>1, <2>1, <2>2, <2>3 DEF SInv, OneAtATime, SwapSound
    <2>7. \A h \in Gen : InUse(h)' <=> InUse(h)
        BY <2>1, <2>2, <2>3 DEF InUse
    <2>8. Lives'
        BY <1>1, <2>1, <2>2, <2>3, <2>7 DEF SInv, Lives
    <2>9. WireTyped' /\ Wire'
        BY <2>1, <2>3, WireKept
    <2> QED BY <1>1, <2>4, <2>5, <2>6, <2>8, <2>9 DEF SInv
<1> QED BY <1>2, <1>3

-----------------------------------------------------------------------------
\* A child goes: it is told to stop, or it exits.
Ended(g, s) == kid' = [kid EXCEPT ![g] = s] /\ UNCHANGED <<generation, loaded>>

LEMMA EndedFacts ==
    ASSUME SInv, NEW g \in Gen, NEW s \in {"ending", "exited"}, kid[g] # "unborn", Ended(g, s)
    PROVE  /\ kid' \in [Gen -> {"unborn", "alive", "ending", "exited"}] /\ loaded' \in [Gen -> Sha]
           /\ generation' = generation
           /\ kid'[g] = s /\ \A h \in Gen : h # g => kid'[h] = kid[h]
           /\ \A h \in Gen : kid'[h] = "unborn" <=> h > generation
<1>1. /\ kid' \in [Gen -> {"unborn", "alive", "ending", "exited"}] /\ loaded' \in [Gen -> Sha]
      /\ generation' = generation
      /\ kid'[g] = s /\ \A h \in Gen : h # g => kid'[h] = kid[h]
    BY DEF Ended, SInv, KidTyped
<1>2. \A h \in Gen : kid'[h] = "unborn" <=> h > generation
    BY <1>1 DEF SInv, Born
<1> QED BY <1>1, <1>2

\* Nothing is routed and nothing answered.
LEMMA KeepNothing ==
    ASSUME SInv, Keep(inflight, {}), UNCHANGED <<sent, initResponse, active>>, Replacing' => Replacing,
           crossed => crossed'
    PROVE  WireTyped' /\ Wire'
<1>1. /\ WireTyped /\ \A q \in Req : Life(q) /\ inflight[q] \in {0, active}
      /\ Replacing => \A q \in Req : inflight[q] = 0
      /\ active \in Gen
    BY DEF SInv, Wire, KidTyped
<1>2. WireTyped' /\ \A q \in Req : Life(q)' /\ inflight'[q] = inflight[q]
    BY <1>1, KeepLife
<1> QED BY <1>1, <1>2 DEF Wire

\* The child a restart waited on goes: the restart is scheduled again.
LEMMA RetryKeeps ==
    ASSUME SInv, NEW g \in Gen, NEW s \in {"ending", "exited"}, kid[g] # "unborn", Ended(g, s),
           g \in restarting, RetryRestart(g), CountTyped'
    PROVE  SInv'
<1>1. /\ kid' \in [Gen -> {"unborn", "alive", "ending", "exited"}] /\ loaded' \in [Gen -> Sha]
      /\ generation' = generation
      /\ kid'[g] = s /\ \A h \in Gen : h # g => kid'[h] = kid[h]
      /\ \A h \in Gen : kid'[h] = "unborn" <=> h > generation
    BY EndedFacts
<1>2. /\ restarting' = restarting \ {g} /\ timer' = Scheduled /\ Keep(inflight, {})
      /\ active' = active /\ draining' = draining /\ paused' = paused /\ stopping' = stopping
      /\ swap' = swap /\ UNCHANGED swapVars /\ sent' = sent /\ initResponse' = initResponse /\ crossed' = crossed
    BY DEF RetryRestart, roleVars, swapVars, pastVars
<1>3. /\ Replacing /\ ~Trying /\ ~Trying'
      /\ paused /\ ~timer /\ restarting = {g} /\ restarting' = {} /\ active # g /\ active \in Gen
    BY <1>2 DEF SInv, Replacing, Trying, OneAtATime, KidTyped
<1>4. KidTyped' /\ Born'
    BY <1>1, <1>2, <1>3 DEF SInv, KidTyped, Born
<1>5. FlagTyped'
    BY <1>2 DEF SInv, FlagTyped, Scheduled
<1>6. SwapTyped' /\ SwapSound'
    BY <1>2, <1>3 DEF SInv, SwapTyped, SwapSound, swapVars
<1>7. OneAtATime'
    BY <1>2, <1>3 DEF OneAtATime
<1>8. Lives'
    <2>1. SUFFICES ASSUME ~stopping PROVE Lives'
        BY <1>2 DEF Lives
    <2>2. /\ kid[active] = "exited"
          /\ \A h \in Gen : kid[h] = "ending" => h # active
          /\ \A h \in Gen : kid[h] = "alive" => h = active \/ h = g
        BY <1>3, <2>1 DEF SInv, Lives, InUse
    <2>3. \A h \in Gen : InUse(h)' <=> h = active
        BY <1>2, <1>3 DEF InUse
    <2>4. kid'[active] = "exited"
        BY <1>1, <1>3, <2>2
    <2>5. \A h \in Gen : kid'[h] # "alive" /\ (kid'[h] = "ending" => h # active)
        BY <1>1, <2>2, <2>4
    <2> QED BY <1>2, <1>3, <2>3, <2>4, <2>5 DEF Lives
<1>9. WireTyped' /\ Wire'
    BY <1>2, <1>3, KeepNothing
<1> QED BY <1>4, <1>5, <1>6, <1>7, <1>8, <1>9 DEF SInv

\* The child a swap tried out goes: the old child serves on.
LEMMA AbandonKeeps ==
    ASSUME SInv, NEW g \in Gen, NEW s \in {"ending", "exited"}, kid[g] # "unborn", Ended(g, s),
           swap.at = "handshake", swap.fresh = g, AbandonSwap, CountTyped'
    PROVE  SInv'
<1>1. /\ kid' \in [Gen -> {"unborn", "alive", "ending", "exited"}] /\ loaded' \in [Gen -> Sha]
      /\ generation' = generation
      /\ kid'[g] = s /\ \A h \in Gen : h # g => kid'[h] = kid[h]
      /\ \A h \in Gen : kid'[h] = "unborn" <=> h > generation
    BY EndedFacts
<1>2. /\ paused' = FALSE /\ Flush(active, inflight, {}) /\ swap' = NoSwap /\ polling' = FALSE
      /\ rejectedSha' = swap.sha /\ runningSha' = runningSha /\ candidateSha' = candidateSha
      /\ active' = active /\ draining' = draining /\ stopping' = stopping /\ timer' = timer
      /\ restarting' = restarting /\ sent' = sent /\ initResponse' = initResponse
      /\ crossed' = crossed /\ (kid[active] = "exited" => relic' = active)
    BY DEF AbandonSwap, GoesBack
<1>3. /\ Trying /\ ~Replacing /\ ~timer /\ restarting = {} /\ active # g /\ active \in Gen
    BY DEF SInv, Replacing, Trying, OneAtATime, SwapSound, KidTyped
<1>4. swap'.at = "none" /\ swap' \in Swaps /\ ~Trying' /\ ~Replacing'
    BY <1>2, <1>3, NoSwapTyped DEF Trying, Replacing
<1>5. KidTyped' /\ Born'
    BY <1>1, <1>2, <1>3 DEF SInv, KidTyped, Born
<1>6. FlagTyped'
    BY <1>2 DEF SInv, FlagTyped
<1>7. SwapTyped' /\ SwapSound'
    <2>1. swap.sha \in Sha \cup {NoSha} /\ draining = 0
        BY DEF SInv, SwapTyped, Swaps
    <2>2. SwapTyped'
        BY <1>2, <1>4, <2>1 DEF SInv, SwapTyped
    <2>3. SwapSound'
        BY <1>4 DEF SwapSound
    <2> QED BY <2>2, <2>3
<1>8. OneAtATime'
    BY <1>2, <1>3, <1>4 DEF OneAtATime
<1>9. Lives'
    <2>1. SUFFICES ASSUME ~stopping PROVE Lives'
        BY <1>2 DEF Lives
    <2>2. /\ kid[active] # "ending"
          /\ \A h \in Gen : kid[h] = "alive" => h = active \/ h = g
        BY <1>3, <2>1 DEF SInv, Lives, InUse
    <2>3. \A h \in Gen : InUse(h)' <=> h = active
        BY <1>2, <1>3, <1>4 DEF InUse
    <2>4. /\ kid'[active] = kid[active] /\ kid'[active] # "ending"
          /\ \A h \in Gen : kid'[h] = "alive" => h = active
        BY <1>1, <1>3, <2>2
    <2>5. kid[active] \in {"alive", "exited"}
        <3>1. active \in Nat /\ generation \in Nat /\ active <= generation
            BY <1>3, GenFacts DEF SInv, KidTyped, Born
        <3>2. ~(active > generation)
            BY <3>1
        <3> QED BY <1>3, <2>2, <3>2 DEF SInv, KidTyped, Born
    <2>6. kid'[active'] = "alive" \/ active' = relic'
        BY <1>2, <2>4, <2>5
    <2> QED BY <1>2, <1>4, <2>3, <2>4, <2>6 DEF Lives
<1>10. WireTyped' /\ Wire'
    <2>1. WireTyped /\ \A r \in Req : Life(r) /\ inflight[r] \in {0, active}
        BY DEF SInv, Wire
    <2>2. WireTyped' /\ \A r \in Req : Life(r)' /\ inflight'[r] \in {inflight[r], active}
        BY <1>2, <1>3, <2>1, FlushLife
    <2>3. Wire'
        BY <1>2, <1>4, <2>1, <2>2 DEF Wire
    <2> QED BY <2>2, <2>3
<1> QED BY <1>5, <1>6, <1>7, <1>8, <1>9, <1>10 DEF SInv

LEMMA HandshakeFailsKeeps == ASSUME SInv, NEW g \in Gen, HandshakeFails(g) PROVE SInv'
<1>1. kid[g] \in {"alive", "ending"} /\ kid \in [Gen -> {"unborn", "alive", "ending", "exited"}]
    BY DEF HandshakeFails, Running, SInv, KidTyped
<1>2. kid' = [kid EXCEPT ![g] = "ending"]
    BY <1>1 DEF HandshakeFails, StopChild
<1>3. kid[g] # "unborn" /\ Ended(g, "ending")
    BY <1>1, <1>2 DEF Ended, HandshakeFails
<1>4. CountTyped'
    BY BoundAssumption DEF HandshakeFails, SInv, CountTyped
<1>5. CASE g \in restarting
    BY <1>3, <1>4, <1>5, RetryKeeps DEF HandshakeFails
<1>6. CASE g \notin restarting
    <2>1. swap.at = "handshake" /\ swap.fresh = g /\ AbandonSwap
        BY <1>6 DEF HandshakeFails, Shaking
    <2> QED BY <1>3, <1>4, <2>1, AbandonKeeps
<1> QED BY <1>5, <1>6

\* What waits on a child that exits gets its error, and nothing else moves.
LEMMA KeepFailed ==
    ASSUME SInv, NEW g \in Gen, Keep(Failed(g), WaitingOn(g)), UNCHANGED <<sent, initResponse, active>>,
           Replacing' => Replacing \/ g = active, crossed => crossed'
    PROVE  WireTyped' /\ Wire'
<1>0. WireTyped /\ \A r \in Req : Life(r)
    BY DEF SInv, Wire
<1>1. /\ inflight \in [Req -> Gen \cup {0}] /\ active \in Gen
      /\ \A q \in Req : inflight[q] \in {0, active}
      /\ Replacing => \A q \in Req : inflight[q] = 0
    BY DEF SInv, Wire, KidTyped, WireTyped
<1>2. Route({}, active, Failed(g), WaitingOn(g)) /\ UNCHANGED hostQueue
    BY DEF Keep
<1>3. WireTyped' /\ \A r \in Req : Life(r)' /\ inflight'[r] = Failed(g)[r]
    BY <1>0, <1>1, <1>2, FailLife
<1>4. \A r \in Req : Failed(g)[r] = IF inflight[r] = g THEN 0 ELSE inflight[r]
    BY DEF Failed
<1>5. /\ \A r \in Req : inflight'[r] \in {0, active'}
      /\ Replacing' => \A r \in Req : inflight'[r] = 0
    BY <1>1, <1>3, <1>4
<1> QED BY <1>3, <1>5 DEF Wire

\* The active child crashes with the gate open: a restart is scheduled.
LEMMA ActiveExitsKeeps ==
    ASSUME SInv, NEW g \in Gen, kid[g] = "alive" \/ kid[g] = "ending", Ended(g, "exited"), CountTyped',
           ActiveExits(g)
    PROVE  SInv'
<1>1. /\ kid' \in [Gen -> {"unborn", "alive", "ending", "exited"}] /\ loaded' \in [Gen -> Sha]
      /\ generation' = generation
      /\ kid'[g] = "exited" /\ \A h \in Gen : h # g => kid'[h] = kid[h]
      /\ \A h \in Gen : kid'[h] = "unborn" <=> h > generation
    BY EndedFacts
<1>2. /\ g = active /\ ~paused /\ ~stopping /\ paused' = TRUE /\ timer' = TRUE
      /\ Keep(Failed(g), WaitingOn(g)) /\ active' = active /\ draining' = draining /\ stopping' = stopping
      /\ restarting' = restarting /\ UNCHANGED swapVars /\ swap' = swap
      /\ sent' = sent /\ initResponse' = initResponse /\ crossed' = crossed
    BY DEF ActiveExits, swapVars, pastVars
<1>3. /\ ~Replacing /\ ~Trying /\ ~Trying' /\ Replacing' /\ restarting = {} /\ kid[g] # "ending"
      /\ \A h \in Gen : InUse(h) <=> h = g
      /\ \A h \in Gen : InUse(h)' <=> h = g
    BY <1>2 DEF SInv, Replacing, Trying, OneAtATime, Lives, InUse
<1>5. KidTyped' /\ Born'
    BY <1>1, <1>2 DEF SInv, KidTyped, Born
<1>6. FlagTyped'
    BY <1>2 DEF SInv, FlagTyped
<1>7. SwapTyped' /\ SwapSound'
    BY <1>2, <1>3 DEF SInv, SwapTyped, SwapSound, swapVars
<1>8. OneAtATime'
    BY <1>2, <1>3 DEF OneAtATime
<1>9. Lives'
    <2>1. \A h \in Gen : kid[h] = "alive" => h = g
        BY <1>2, <1>3 DEF SInv, Lives
    <2>2. \A h \in Gen : kid'[h] # "alive" /\ (kid'[h] = "ending" => h # g)
        BY <1>1, <2>1
    <2> QED BY <1>1, <1>2, <1>3, <2>2 DEF Lives
<1>10. WireTyped' /\ Wire'
    BY <1>2, KeepFailed
<1> QED BY <1>5, <1>6, <1>7, <1>8, <1>9, <1>10 DEF SInv

LEMMA OtherExitsKeeps ==
    ASSUME SInv, NEW g \in Gen, kid[g] = "alive" \/ kid[g] = "ending", Ended(g, "exited"), CountTyped',
           OtherExits(g)
    PROVE  SInv'
<1>0. kid[g] # "unborn"
    OBVIOUS
<1>1. CASE g \in restarting
    BY <1>0, <1>1, RetryKeeps DEF OtherExits
<1>2. CASE g \notin restarting /\ swap.at = "handshake" /\ swap.fresh = g
    <2>1. AbandonSwap
        BY <1>2 DEF OtherExits
    <2> QED BY <1>0, <1>2, <2>1, AbandonKeeps
<1>3. CASE g \notin restarting /\ ~(swap.at = "handshake" /\ swap.fresh = g)
    <2>1. /\ kid' \in [Gen -> {"unborn", "alive", "ending", "exited"}] /\ loaded' \in [Gen -> Sha]
          /\ generation' = generation
          /\ kid'[g] = "exited" /\ \A h \in Gen : h # g => kid'[h] = kid[h]
          /\ \A h \in Gen : kid'[h] = "unborn" <=> h > generation
        BY <1>0, EndedFacts
    <2>2. /\ Keep(Failed(g), WaitingOn(g)) /\ UNCHANGED <<roleVars, stopping, timer, restarting, swapVars>>
          /\ sent' = sent /\ initResponse' = initResponse /\ crossed' = crossed /\ relic' = relic
        BY <1>3 DEF OtherExits, pastVars
    <2>3. /\ active' = active /\ paused' = paused /\ stopping' = stopping /\ swap' = swap
          /\ timer' = timer /\ restarting' = restarting /\ draining' = draining
        BY <2>2 DEF roleVars, swapVars
    <2>4. (Trying' <=> Trying) /\ (Replacing' <=> Replacing) /\ \A h : InUse(h)' <=> InUse(h)
        BY <2>3 DEF Trying, Replacing, InUse
    <2>5. KidTyped' /\ Born'
        BY <2>1, <2>3 DEF SInv, KidTyped, Born
    <2>6. FlagTyped'
        BY <2>3 DEF SInv, FlagTyped
    <2>7. SwapTyped' /\ SwapSound'
        <3>1. SwapTyped'
            BY <2>2, <2>3 DEF SInv, SwapTyped, swapVars
        <3>2. SwapSound'
            BY <2>1, <2>3, <2>4 DEF SInv, SwapSound
        <3> QED BY <3>1, <3>2
    <2>8. OneAtATime'
        BY <2>3, <2>4 DEF SInv, OneAtATime
    <2>9. Lives'
        <3>1. SUFFICES ASSUME ~stopping PROVE Lives'
            BY <2>3 DEF Lives
        <3>2. /\ \A h \in Gen : kid[h] = "ending" => ~InUse(h)
              /\ \A h \in Gen : kid[h] = "alive" => InUse(h)
              /\ Replacing => kid[active] = "exited"
              /\ ~paused => kid[active] = "alive" \/ active = relic
              /\ active \in Gen
            BY <3>1 DEF SInv, Lives, KidTyped
        <3>3. ~paused => g # active
            BY <3>1, <3>2 DEF OtherExits, InUse
        <3>4. \A h \in Gen : (kid'[h] = "ending" => ~InUse(h)) /\ (kid'[h] = "alive" => InUse(h))
            BY <2>1, <3>2
        <3>5. Replacing => kid'[active] = "exited"
            BY <2>1, <3>2
        <3>6. ~paused => kid'[active] = "alive" \/ active = relic
            BY <2>1, <3>2, <3>3
        <3> QED BY <2>2, <2>3, <2>4, <3>4, <3>5, <3>6 DEF Lives
    <2>10. WireTyped' /\ Wire'
        BY <2>2, <2>3, <2>4, KeepFailed
    <2> QED BY <2>5, <2>6, <2>7, <2>8, <2>9, <2>10 DEF SInv
<1> QED BY <1>1, <1>2, <1>3

LEMMA ExitsKeep == ASSUME SInv, NEW g \in Gen, ChildCrashes(g) \/ ChildStops(g) PROVE SInv'
<1>1. CountTyped'
    <2>1. CASE ChildCrashes(g)
        BY <2>1, BoundAssumption DEF ChildCrashes, SInv, CountTyped
    <2>2. CASE ChildStops(g)
        BY <2>2, CountsKept DEF ChildStops
    <2> QED BY <2>1, <2>2
<1>2. /\ kid[g] = "alive" \/ kid[g] = "ending"
      /\ Ended(g, "exited")
      /\ ActiveExits(g) \/ OtherExits(g)
    BY DEF ChildCrashes, ChildStops, Gone, Ended
<1> QED BY <1>1, <1>2, ActiveExitsKeeps, OtherExitsKeeps

LEMMA StutterKeeps == ASSUME SInv, UNCHANGED vars PROVE SInv'
<1>1. UNCHANGED <<kidVars, roleVars, stopping, timer, restarting, swapVars, relic>> /\ UNCHANGED envVars
      /\ UNCHANGED <<wireVars, active>> /\ Replacing' = Replacing /\ crossed' = crossed
    BY DEF vars, roleVars, Replacing, pastVars
<1> QED BY <1>1, RolesKept, WireKept, CountsKept, SInvParts

LEMMA InitKeeps == ASSUME Init PROVE SInv
<1>1. /\ generation = 1 /\ active = 1 /\ draining = 0 /\ ~paused /\ ~stopping /\ ~timer /\ restarting = {}
      /\ swap.at = "none" /\ swap \in Swaps /\ \A g \in Gen : kid[g] = IF g = 1 THEN "alive" ELSE "unborn"
    BY NoSwapTyped DEF Init
<1>2. ~Trying /\ ~Replacing /\ \A g \in Gen : InUse(g) <=> g = 1
    BY <1>1 DEF Trying, Replacing, InUse
<1>3. KidTyped
    BY GenFacts DEF Init, KidTyped
<1>4. FlagTyped
    BY DEF Init, FlagTyped
<1>5. SwapTyped /\ SwapSound
    BY <1>1, <1>2, GenFacts DEF Init, SwapTyped, SwapSound
<1>6. WireTyped
    BY DEF Init, WireTyped
<1>7. CountTyped
    BY BoundAssumption, GenFacts DEF Init, CountTyped
<1>8. Born
    <2>1. \A g \in Gen : g > 1 <=> g # 1
        BY BoundAssumption DEF Gen
    <2> QED BY <1>1, <2>1 DEF Born
<1>9. OneAtATime /\ Lives
    BY <1>1, <1>2, GenFacts DEF OneAtATime, Lives
<1>10. Wire
    BY <1>2 DEF Init, Wire, Life
<1> QED BY <1>3, <1>4, <1>5, <1>6, <1>7, <1>8, <1>9, <1>10 DEF SInv

LEMMA StepKeeps == ASSUME SInv, [Next]_vars, ~crossed' PROVE SInv'
<1>1. ASSUME NEW r \in Req, HostSends(r) PROVE SInv'
    BY <1>1, HostSendsKeeps
<1>2. CASE SwapStep
    BY <1>2, PollBeginsKeeps, PollSettlesKeeps, PollFailsKeeps, SwapBeginsKeeps, SwapDrainedKeeps, SwapEndsKeeps DEF SwapStep
<1>3. CASE RestartFires \/ Shutdown \/ BundleChanges
    BY <1>3, RestartFiresKeeps, ShutdownKeeps, BundleChangesKeeps
<1>4. ASSUME NEW g \in Gen, ChildStep(g) \/ HandshakeFails(g) \/ ChildCrashes(g) PROVE SInv'
    BY <1>4, HandshakeAnsweredKeeps, HandshakeFailsKeeps, ChildAnswersKeeps, ExitsKeep DEF ChildStep
<1>5. CASE UNCHANGED vars
    BY <1>5, StutterKeeps
<1> QED BY <1>1, <1>2, <1>3, <1>4, <1>5 DEF Next

-----------------------------------------------------------------------------
\* What holds throughout, whatever a swap has crossed.
LEMMA PastSteps ==
    ASSUME PastTyped, KidTyped, [Next]_vars
    PROVE  PastTyped' /\ (crossed => crossed')
<1>1. ASSUME NEW r \in Req, HostSends(r) PROVE PastTyped' /\ (crossed => crossed')
    BY <1>1 DEF HostSends, PastTyped, pastVars
<1>2. CASE SwapStep
    <2>1. CASE SwapBegins
        BY <2>1 DEF SwapBegins, PastTyped
    <2> QED BY <1>2, <2>1 DEF SwapStep, PollBegins, PollSettles, PollFails, SwapDrained, SwapEnds, PastTyped, pastVars
<1>3. CASE RestartFires \/ Shutdown \/ BundleChanges
    BY <1>3 DEF RestartFires, Shutdown, BundleChanges, PastTyped, pastVars
<1>4. AbandonSwap => PastTyped' /\ (crossed => crossed')
    BY DEF AbandonSwap, GoesBack, PastTyped, KidTyped
<1>5. ASSUME NEW g \in Gen, RetryRestart(g) \/ FinishRestart(g) PROVE PastTyped' /\ (crossed => crossed')
    BY <1>5 DEF RetryRestart, FinishRestart, PastTyped, pastVars
<1>6. ASSUME NEW g \in Gen, ChildStep(g) \/ HandshakeFails(g) \/ ChildCrashes(g)
      PROVE  PastTyped' /\ (crossed => crossed')
    <2>1. CASE ActiveExits(g) \/ OtherExits(g)
        BY <1>4, <1>5, <2>1 DEF ActiveExits, OtherExits, PastTyped, pastVars
    <2>2. CASE HandshakeAnswered(g) \/ HandshakeFails(g)
        BY <1>4, <1>5, <2>2 DEF HandshakeAnswered, HandshakeFails, PastTyped, pastVars
    <2>3. ASSUME NEW r \in Req, ChildAnswers(g, r) PROVE PastTyped' /\ (crossed => crossed')
        BY <2>3 DEF ChildAnswers, PastTyped, pastVars
    <2> QED BY <1>6, <2>1, <2>2, <2>3 DEF ChildStep, ChildStops, ChildCrashes
<1>7. CASE UNCHANGED vars
    BY <1>7 DEF vars, PastTyped, pastVars
<1> QED BY <1>1, <1>2, <1>3, <1>6, <1>7 DEF Next

\* The children, the flags and the counts are typed whatever a swap has crossed.
LEMMA KidSteps ==
    ASSUME Throughout, [Next]_vars
    PROVE  KidTyped'
<1>0. KidTyped /\ disk \in Sha /\ (swap.at = "drain" => swap.fresh \in Gen /\ swap.old \in Gen)
    BY DEF Throughout, CountTyped, SwapKnown, Trying
<1>1. UNCHANGED <<kidVars, active, restarting>> => KidTyped'
    BY <1>0 DEF KidTyped, kidVars
<1>2. Spawn => /\ generation + 1 \in Gen /\ generation' = generation + 1
               /\ kid' \in [Gen -> {"unborn", "alive", "ending", "exited"}] /\ loaded' \in [Gen -> Sha]
    BY <1>0, GenFacts DEF Spawn, KidTyped
<1>3. ASSUME NEW g \in Gen, generation' = generation, loaded' = loaded, StopChild(g) \/ kid' = [kid EXCEPT ![g] = "exited"] \/ kid' = kid,
             active' \in Gen, restarting' \in SUBSET Gen
      PROVE  KidTyped'
    BY <1>0, <1>3 DEF KidTyped, StopChild
<1>4. ASSUME NEW g \in Gen, RetryRestart(g) \/ FinishRestart(g) \/ AbandonSwap \/ ActiveExits(g) \/ OtherExits(g)
      PROVE  active' \in Gen /\ restarting' \in SUBSET Gen
    BY <1>0, <1>4 DEF KidTyped, RetryRestart, FinishRestart, AbandonSwap, ActiveExits, OtherExits, roleVars
<1>5. ASSUME NEW r \in Req, HostSends(r) PROVE KidTyped'
    BY <1>1, <1>5 DEF HostSends, roleVars
<1>6. CASE SwapStep
    <2>1. CASE SwapBegins
        BY <1>0, <1>2, <2>1 DEF SwapBegins, KidTyped
    <2>2. CASE SwapDrained
        BY <1>0, <1>3, <2>2 DEF SwapDrained, KidTyped
    <2> QED BY <1>1, <1>6, <2>1, <2>2 DEF SwapStep, PollBegins, PollSettles, PollFails, SwapEnds, roleVars, kidVars
<1>7. CASE RestartFires
    <2>1. active' \in Gen /\ restarting' \in SUBSET Gen
        BY <1>0, <1>2, <1>7 DEF RestartFires, KidTyped, roleVars
    <2> QED BY <1>2, <1>7, <2>1 DEF RestartFires, KidTyped
<1>8. CASE Shutdown
    BY <1>0, <1>8 DEF Shutdown, KidTyped, roleVars
<1>9. CASE BundleChanges \/ UNCHANGED vars
    BY <1>1, <1>9 DEF BundleChanges, vars, roleVars
<1>10. ASSUME NEW g \in Gen, ChildStep(g) \/ HandshakeFails(g) \/ ChildCrashes(g) PROVE KidTyped'
    <2>1. CASE HandshakeAnswered(g)
        BY <1>0, <1>3, <1>4, <2>1 DEF HandshakeAnswered, kidVars, roleVars, KidTyped
    <2>2. ASSUME NEW r \in Req, ChildAnswers(g, r) PROVE KidTyped'
        BY <1>1, <2>2 DEF ChildAnswers, roleVars
    <2>3. CASE HandshakeFails(g)
        BY <1>3, <1>4, <2>3 DEF HandshakeFails
    <2>4. CASE ChildCrashes(g) \/ ChildStops(g)
        BY <1>3, <1>4, <2>4 DEF ChildCrashes, ChildStops, Gone
    <2> QED BY <1>10, <2>1, <2>2, <2>3, <2>4 DEF ChildStep
<1> QED BY <1>5, <1>6, <1>7, <1>8, <1>9, <1>10 DEF Next

LEMMA FlagSteps ==
    ASSUME Throughout, [Next]_vars
    PROVE  FlagTyped'
<1>0. FlagTyped
    BY DEF Throughout
<1>1. UNCHANGED <<paused, stopping, timer>> => FlagTyped'
    BY <1>0 DEF FlagTyped
<1>2. ASSUME NEW r \in Req, HostSends(r) PROVE FlagTyped'
    BY <1>1, <1>2 DEF HostSends, roleVars
<1>3. CASE SwapStep
    BY <1>0, <1>1, <1>3
    DEF SwapStep, PollBegins, PollSettles, PollFails, SwapBegins, SwapDrained, SwapEnds, FlagTyped, Scheduled, roleVars
<1>4. CASE RestartFires \/ Shutdown \/ BundleChanges \/ UNCHANGED vars
    BY <1>0, <1>4 DEF RestartFires, Shutdown, BundleChanges, vars, FlagTyped, roleVars
<1>5. ASSUME NEW g \in Gen, ActiveExits(g) \/ OtherExits(g) \/ RetryRestart(g) \/ FinishRestart(g) \/ AbandonSwap
      PROVE  FlagTyped'
    BY <1>0, <1>5 DEF ActiveExits, OtherExits, RetryRestart, FinishRestart, AbandonSwap, FlagTyped, Scheduled, roleVars
<1>6. ASSUME NEW g \in Gen, ChildStep(g) \/ HandshakeFails(g) \/ ChildCrashes(g) PROVE FlagTyped'
    BY <1>1, <1>5, <1>6
    DEF ChildStep, HandshakeFails, ChildCrashes, ChildStops, ChildAnswers, HandshakeAnswered, roleVars
<1> QED BY <1>2, <1>3, <1>4, <1>6 DEF Next

LEMMA CountSteps ==
    ASSUME Throughout, [Next]_vars
    PROVE  CountTyped'
<1>0. CountTyped
    BY DEF Throughout
<1>1. UNCHANGED envVars => CountTyped'
    BY <1>0 DEF CountTyped, envVars
<1>2. UNCHANGED <<disk, crashes, changes>> /\ failures < MaxFailures /\ failures' = failures + 1 => CountTyped'
    BY <1>0, BoundAssumption DEF CountTyped
<1>3. ASSUME NEW r \in Req, HostSends(r) PROVE CountTyped'
    BY <1>1, <1>3 DEF HostSends
<1>4. CASE SwapStep
    BY <1>1, <1>2, <1>4 DEF SwapStep, PollBegins, PollSettles, PollFails, SwapBegins, SwapDrained, SwapEnds
<1>5. CASE RestartFires \/ Shutdown \/ UNCHANGED vars
    BY <1>1, <1>5 DEF RestartFires, Shutdown, vars
<1>6. CASE BundleChanges
    BY <1>0, <1>6, BoundAssumption DEF BundleChanges, CountTyped, Sha
<1>7. ASSUME NEW g \in Gen, ChildStep(g) \/ HandshakeFails(g) \/ ChildCrashes(g) PROVE CountTyped'
    <2>1. CASE ChildCrashes(g)
        BY <1>0, <2>1, BoundAssumption DEF ChildCrashes, CountTyped
    <2> QED BY <1>1, <1>2, <1>7, <2>1 DEF ChildStep, HandshakeFails, ChildStops, ChildAnswers, HandshakeAnswered
<1> QED BY <1>3, <1>4, <1>5, <1>6, <1>7 DEF Next

\* A swap knows its two children until it is over.
LEMMA SwapSteps ==
    ASSUME Throughout, [Next]_vars
    PROVE  SwapTyped' /\ SwapKnown'
<1>0. SwapTyped /\ SwapKnown /\ KidTyped /\ disk \in Sha /\ swap \in Swaps /\ swap.sha \in Sha \cup {NoSha}
    BY DEF Throughout, CountTyped, SwapTyped, Swaps
<1>1. UNCHANGED <<draining, swapVars>> => SwapTyped' /\ SwapKnown'
    BY <1>0 DEF SwapTyped, SwapKnown, Trying, swapVars
<1>2. ASSUME swap' = NoSwap, polling' = FALSE, draining' = 0,
             runningSha' = runningSha, candidateSha' \in Sha \cup {NoSha}, rejectedSha' \in Sha \cup {NoSha}
      PROVE  SwapTyped' /\ SwapKnown'
    BY <1>0, <1>2, NoSwapTyped DEF SwapTyped, SwapKnown, Trying
<1>3. AbandonSwap /\ swap.at = "handshake" => SwapTyped' /\ SwapKnown'
    BY <1>0, <1>2 DEF AbandonSwap, SwapTyped
<1>4. ASSUME NEW r \in Req, HostSends(r) PROVE SwapTyped' /\ SwapKnown'
    BY <1>1, <1>4 DEF HostSends, roleVars
<1>5. CASE SwapStep
    <2>1. CASE PollBegins
        <3>1. swap' \in Swaps /\ swap'.at = "hash"
            BY <2>1, HashTyped DEF PollBegins
        <3> QED BY <1>0, <2>1, <3>1 DEF PollBegins, SwapTyped, SwapKnown, Trying, roleVars
    <2>2. CASE PollSettles \/ PollFails \/ SwapEnds
        BY <1>0, <1>2, <2>2 DEF PollSettles, PollFails, SwapEnds, SwapTyped, roleVars
    <2>3. CASE SwapBegins
        <3>1. active \in Gen /\ generation + 1 \in Gen
            BY <1>0, <2>3, GenFacts DEF SwapBegins, Spawn, KidTyped
        <3>2. swap' \in Swaps /\ swap'.at = "handshake" /\ swap'.old = active /\ swap'.fresh = generation + 1
            BY <1>0, <2>3, <3>1, NewSwap DEF SwapBegins
        <3> QED BY <1>0, <2>3, <3>1, <3>2 DEF SwapBegins, SwapTyped, SwapKnown, Trying
    <2>4. CASE SwapDrained
        <3>1. swap' \in Swaps /\ swap'.at = "stop" /\ swap'.old = swap.old /\ swap'.fresh = swap.fresh
            BY <1>0, <2>4, SwapMoves DEF SwapDrained
        <3>2. swap.old \in Gen /\ swap.at # "stop" /\ draining' = swap.old /\ polling' = polling
            BY <1>0, <2>4 DEF SwapDrained, SwapKnown, Trying
        <3> QED BY <1>0, <2>4, <3>1, <3>2 DEF SwapDrained, SwapTyped, SwapKnown, Trying
    <2> QED BY <1>5, <2>1, <2>2, <2>3, <2>4 DEF SwapStep
<1>6. CASE RestartFires \/ Shutdown \/ BundleChanges \/ UNCHANGED vars
    BY <1>1, <1>6 DEF RestartFires, Shutdown, BundleChanges, vars, roleVars, swapVars
<1>7. ASSUME NEW g \in Gen, ActiveExits(g) \/ OtherExits(g) PROVE SwapTyped' /\ SwapKnown'
    BY <1>1, <1>3, <1>7 DEF ActiveExits, OtherExits, RetryRestart, roleVars
<1>8. ASSUME NEW g \in Gen, ChildStep(g) \/ HandshakeFails(g) \/ ChildCrashes(g) PROVE SwapTyped' /\ SwapKnown'
    <2>1. CASE HandshakeAnswered(g) /\ g \in restarting
        BY <1>1, <2>1 DEF HandshakeAnswered, FinishRestart
    <2>2. CASE HandshakeAnswered(g) /\ g \notin restarting
        <3>1. swap' = [swap EXCEPT !.at = "drain"] /\ swap.at = "handshake"
            BY <2>2 DEF HandshakeAnswered, Shaking
        <3>2. swap' \in Swaps /\ swap'.at = "drain" /\ swap'.old = swap.old /\ swap'.fresh = swap.fresh
            BY <1>0, <3>1, SwapMoves
        <3> QED BY <1>0, <2>2, <3>1, <3>2 DEF HandshakeAnswered, SwapTyped, SwapKnown, Trying, roleVars
    <2>3. ASSUME NEW r \in Req, ChildAnswers(g, r) PROVE SwapTyped' /\ SwapKnown'
        BY <1>1, <2>3 DEF ChildAnswers, roleVars
    <2>4. CASE HandshakeFails(g)
        BY <1>1, <1>3, <2>4 DEF HandshakeFails, Shaking, RetryRestart, roleVars
    <2>5. CASE ChildCrashes(g) \/ ChildStops(g)
        BY <1>7, <2>5 DEF ChildCrashes, ChildStops
    <2> QED BY <1>8, <2>1, <2>2, <2>3, <2>4, <2>5 DEF ChildStep
<1> QED BY <1>4, <1>5, <1>6, <1>8 DEF Next

\* No step answers a request twice; a request may be lost once a swap has crossed a restart.
LEMMA LifeSteps ==
    ASSUME Throughout, [Next]_vars, crossed => crossed', crossed'
    PROVE  WireTyped' /\ \A r \in Req : Life(r)'
<1>0. /\ WireTyped /\ \A r \in Req : Life(r)
      /\ active \in Gen /\ (swap.at = "drain" => swap.fresh \in Gen /\ swap.old \in Gen)
    BY DEF Throughout, KidTyped, SwapKnown, Trying
<1>1. UNCHANGED wireVars => WireTyped' /\ \A r \in Req : Life(r)'
    BY <1>0 DEF WireTyped, Life, wireVars
<1>2. ASSUME NEW r \in Req, HostSends(r) PROVE WireTyped' /\ \A q \in Req : Life(q)'
    BY <1>0, <1>2, SendLife
<1>3. AbandonSwap => WireTyped' /\ \A r \in Req : Life(r)'
    BY <1>0, FlushLife DEF AbandonSwap
<1>4. ASSUME NEW g \in Gen, RetryRestart(g) PROVE WireTyped' /\ \A r \in Req : Life(r)'
    BY <1>0, <1>4, KeepLife DEF RetryRestart
<1>5. ASSUME NEW g \in Gen, FinishRestart(g) PROVE WireTyped' /\ \A r \in Req : Life(r)'
    BY <1>0, <1>5, FlushLife DEF FinishRestart
<1>6. CASE SwapStep
    <2>1. CASE SwapDrained
        BY <1>0, <2>1, FailLife DEF SwapDrained, Keep
    <2> QED BY <1>1, <1>6, <2>1 DEF SwapStep, PollBegins, PollSettles, PollFails, SwapBegins, SwapEnds
<1>7. CASE RestartFires
    <2>1. generation + 1 \in Gen
        BY <1>7, GenFacts DEF RestartFires, Spawn, Throughout, KidTyped
    <2> QED BY <1>0, <1>1, <1>7, <2>1, FlushLife DEF RestartFires
<1>8. CASE Shutdown \/ BundleChanges \/ UNCHANGED vars
    BY <1>1, <1>8 DEF Shutdown, BundleChanges, vars
<1>9. ASSUME NEW g \in Gen, ActiveExits(g) \/ OtherExits(g) PROVE WireTyped' /\ \A r \in Req : Life(r)'
    <2>1. CASE Keep(Failed(g), WaitingOn(g)) /\ UNCHANGED <<sent, initResponse>>
        BY <1>0, <2>1, FailLife DEF Keep
    <2> QED BY <1>3, <1>4, <1>9, <2>1 DEF ActiveExits, OtherExits
<1>10. ASSUME NEW g \in Gen, ChildStep(g) \/ HandshakeFails(g) \/ ChildCrashes(g)
       PROVE  WireTyped' /\ \A r \in Req : Life(r)'
    <2>1. CASE HandshakeAnswered(g) \/ HandshakeFails(g)
        BY <1>1, <1>3, <1>4, <1>5, <2>1 DEF HandshakeAnswered, HandshakeFails
    <2>2. ASSUME NEW r \in Req, ChildAnswers(g, r) PROVE WireTyped' /\ \A q \in Req : Life(q)'
        <3>1. inflight' \in [Req -> Gen \cup {0}] /\ asked' \in [Gen -> SUBSET Req]
            BY <1>0, <2>2 DEF WireTyped, ChildAnswers
        <3>2. replies' \in [Req -> Nat] /\ sent' = sent /\ hostQueue' = hostQueue
            BY <1>0, <2>2 DEF WireTyped, ChildAnswers
        <3>3. initRequest' \in BOOLEAN /\ initResponse' \in BOOLEAN
            BY <1>0, <2>2 DEF WireTyped, ChildAnswers
        <3>4. WireTyped'
            BY <1>0, <3>1, <3>2, <3>3 DEF WireTyped
        <3>5. ASSUME NEW q \in Req PROVE Life(q)'
            <4>1. /\ inflight'[q] = IF q = r /\ inflight[r] = g THEN 0 ELSE inflight[q]
                  /\ replies'[q] = IF q = r /\ Heard(g, r) THEN replies[q] + 1 ELSE replies[q]
                BY <1>0, <2>2 DEF ChildAnswers, WireTyped
            <4>2. Heard(g, r) => inflight[r] = g /\ inflight[r] # 0
                BY GenFacts DEF Heard
            <4> QED BY <1>0, <3>2, <4>1, <4>2 DEF Life
        <3> QED BY <3>4, <3>5
    <2>3. CASE ChildCrashes(g) \/ ChildStops(g)
        BY <1>9, <2>3 DEF ChildCrashes, ChildStops
    <2> QED BY <1>10, <2>1, <2>2, <2>3 DEF ChildStep
<1> QED BY <1>2, <1>6, <1>7, <1>8, <1>10 DEF Next

\* The invariant: what holds throughout, and the rest until a swap crosses a restart.
SupInv == Throughout /\ PastTyped /\ (crossed \/ SInv)

LEMMA SInvThroughout == SInv => Throughout
BY DEF SInv, Throughout, Wire, SwapKnown, SwapSound, KidTyped

LEMMA SupSteps == ASSUME SupInv, [Next]_vars PROVE SupInv'
<1>1. PastTyped' /\ (crossed => crossed')
    BY PastSteps DEF SupInv, Throughout
<1>2. CASE crossed'
    <2>1. KidTyped' /\ FlagTyped' /\ CountTyped' /\ SwapTyped' /\ SwapKnown'
        BY KidSteps, FlagSteps, CountSteps, SwapSteps DEF SupInv
    <2>2. WireTyped' /\ \A r \in Req : Life(r)'
        BY <1>1, <1>2, LifeSteps DEF SupInv
    <2> QED BY <1>1, <1>2, <2>1, <2>2 DEF SupInv, Throughout
<1>3. CASE ~crossed'
    <2>1. SInv'
        BY <1>1, <1>3, StepKeeps DEF SupInv
    <2>2. Throughout'
        BY <2>1, SInvThroughout, PTL
    <2> QED BY <1>1, <2>1, <2>2 DEF SupInv
<1> QED BY <1>2, <1>3

LEMMA SupInvHolds == Spec => []SupInv
<1>1. Init => SupInv
    <2>1. Init => PastTyped
        BY DEF Init, PastTyped
    <2> QED BY <2>1, InitKeeps, SInvThroughout DEF SupInv
<1>2. SupInv /\ [Next]_vars => SupInv'
    BY SupSteps
<1> QED BY <1>1, <1>2, PTL DEF Spec

-----------------------------------------------------------------------------
\* What the invariant says of the properties.
LEMMA SupReplies == SupInv => RepliesInv
<1> SUFFICES ASSUME SupInv PROVE AtMostOneReply /\ (~crossed => NoRequestForgotten)
    BY DEF RepliesInv
<1>1. WireTyped /\ \A r \in Req : Life(r)
    BY DEF SupInv, Throughout
<1>2. AtMostOneReply
    BY <1>1 DEF Life, AtMostOneReply
<1>3. ~crossed => NoRequestForgotten
    BY <1>1 DEF Life, NoRequestForgotten, WireTyped
<1> QED BY <1>2, <1>3

LEMMA SupChildren == SupInv => ChildrenInv
<1> SUFFICES ASSUME SupInv
             PROVE  TypeOK /\ (~crossed => OnlyOneChild /\ (active # relic => OpenMeansServed))
    BY DEF ChildrenInv
<1>1. TypeOK
    BY TypeParts DEF SupInv, Throughout
<1>2. ~crossed => SInv
    BY DEF SupInv
<1>3. ~crossed /\ active # relic => OpenMeansServed
    BY <1>2 DEF SInv, Lives, OpenMeansServed
<1>4. ASSUME ~crossed PROVE OnlyOneChild
    <2>1. SUFFICES ASSUME Settled, NEW g \in Gen, kid[g] = "alive" PROVE g = active
        BY DEF OnlyOneChild
    <2>2. InUse(g)
        BY <1>2, <1>4, <2>1 DEF SInv, Lives, Settled
    <2> QED BY <2>1, <2>2 DEF InUse, Settled, Trying
<1> QED BY <1>1, <1>3, <1>4

(* No request the host sent gets two replies: crashes, failed handshakes, the *)
(* drain deadline, late answers of a replaced child and shutdown, in any      *)
(* order and number, also of the children of a swap while it hashes and tries *)
(* a bundle (bin/gm-supervise.js routeHost, onChildLine, failInflight,        *)
(* flushHost). And none falls between the queue, the in-flight table and the  *)
(* replies, until a swap has begun while a restart was due.                   *)
THEOREM RepliesKept == Spec => []RepliesInv
BY SupInvHolds, SupReplies, PTL

(* Until a swap has begun while a restart was due: what is let through has a  *)
(* live child to read it, but for the dead child that a failed swap went back *)
(* to, and one child is left once a swap or a restart has settled             *)
(* (bin/gm-supervise.js swapTo, restartChild, onChildExit), whatever the      *)
(* sequence of bundles and crashes. The state is typed throughout.            *)
THEOREM ChildrenServed == Spec => []ChildrenInv
BY SupInvHolds, SupChildren, PTL

-----------------------------------------------------------------------------
(* What one session is told of its rows.                                      *)

RowOrNone == Row \cup {NoRow}
Use == {"feed", "boot"}
Steps == {"idle", "sent", "ran", "looking", "ready", "boot", "done"}
Stamps == {<<>>} \cup ({"stopped", "done", "running"} \X ({Unknown} \cup 0..MaxRow) \X {"stop", "none", "continue"})
Calls == [kind : Kind, step : Steps, count : {Unknown} \cup 0..MaxRow, feed : {NoFeed, Missed} \cup RowOrNone]
Lookups == [at : {"none", "asked", "read", "landed"}, row : RowOrNone, total : 0..MaxRow]
Entries == [pending_rows : {Unknown} \cup 0..MaxRow, stopped : BOOLEAN, emitted : Stamps,
            bootstrapped : BOOLEAN, notified : BOOLEAN]
FeedsTyped ==
    /\ rows \subseteq Row /\ call \in [Call -> Calls] /\ lookup \in [Call \X Use -> Lookups]
    /\ entry \in Entries /\ cached \in {Unknown} \cup RowOrNone /\ warning \in {"none", "due", "sent"}
    /\ since \in [Call -> SUBSET RowOrNone]
    /\ boots \subseteq [call : Call, next : RowOrNone, stale : BOOLEAN]

\* Nothing is looked up or fed before the call ran, and then the first row is always noted.
SinceIsKept ==
    \A c \in Call :
        /\ since[c] # {} => FirstRow \in since[c]
        /\ since[c] = {} => /\ call[c].step \in {"idle", "sent", "done"} /\ call[c].feed = NoFeed
                            /\ \A use \in Use : lookup[<<c, use>>].at = "none"
                            /\ \A b \in boots : b.call # c
        /\ call[c].step \in {"idle", "sent"} => since[c] = {}

\* What is found, fed and delivered was the first row since then.
FoundIsFresh ==
    /\ \A c \in Call, use \in Use : lookup[<<c, use>>].at \in {"read", "landed"} => lookup[<<c, use>>].row \in since[c]
    /\ \A c \in Call : call[c].feed \in RowOrNone => call[c].feed \in since[c]
    /\ \A b \in boots : b.stale \/ b.next \in since[b.call]

\* One call brings the bootstrap, or has brought it.
OneBootstrap ==
    /\ \A c, d \in Call : call[c].step = "boot" /\ call[d].step = "boot" => c = d
    /\ \A c \in Call : call[c].step = "boot" => entry.bootstrapped /\ boots = {}
    /\ \A b, d \in boots : b = d
    /\ boots # {} => entry.bootstrapped

FInv == FeedsTyped /\ SinceIsKept /\ FoundIsFresh /\ OneBootstrap


-----------------------------------------------------------------------------
\* A set of naturals has a least element.
LEMMA FirstOf ==
    ASSUME NEW S \in SUBSET Nat, S # {}
    PROVE  \E n \in S : \A m \in S : n <= m
<1> DEFINE Less == {p \in Nat \X Nat : p[1] < p[2]}
<1>1. IsWellFoundedOn(Less, Nat)
    BY NatLessThanWellFounded DEF OpToRel
<1>2. PICK n \in S : \A m \in S : ~ (<<m, n>> \in Less)
    <2> HIDE DEF Less
    <2> QED BY <1>1, WFMin
<1>3. \A m \in S : ~(m < n)
    BY <1>2
<1> QED BY <1>3

\* The marks are no rows.
LEMMA RowFacts ==
    /\ MaxRow \in Nat \ {0} /\ Row = 1..MaxRow /\ RowOrNone = 0..MaxRow
    /\ Unknown \notin RowOrNone /\ Missed \notin RowOrNone /\ NoFeed \notin RowOrNone
    /\ Unknown = -1 /\ Missed = -2 /\ NoFeed = -3 /\ NoRow = 0
<1>1. MaxRow \in Nat \ {0} /\ Row = 1..MaxRow
    BY KindsGiven DEF Row
<1>2. RowOrNone = 0..MaxRow
    BY <1>1 DEF RowOrNone, NoRow
<1> QED BY <1>1, <1>2 DEF Unknown, Missed, NoFeed, NoRow

\* The first of some rows is one of them, and so is the last.
LEMMA FirstIs ==
    ASSUME NEW S \in SUBSET Row
    PROVE  /\ (IF S = {} THEN NoRow ELSE Min(S)) \in RowOrNone
           /\ S # {} => Max(S) \in S
<1>1. S \subseteq Nat /\ S \subseteq 1..MaxRow /\ MaxRow \in Nat
    BY RowFacts
<1>2. CASE S = {}
    BY <1>2 DEF RowOrNone
<1>3. CASE S # {}
    <2>1. \E x \in S : \A y \in S : x <= y
        BY <1>1, <1>3, FirstOf
    <2>2. Min(S) \in S
        BY <2>1 DEF Min
    <2> DEFINE D == {MaxRow - x : x \in S}
    <2>3. D \in SUBSET Nat /\ D # {}
        <3>1. \A x \in S : MaxRow - x \in Nat
            BY <1>1
        <3>2. PICK x \in S : TRUE
            BY <1>3
        <3>3. MaxRow - x \in D
            OBVIOUS
        <3> QED BY <3>1, <3>3
    <2>4. PICK n \in D : \A m \in D : n <= m
        <3> HIDE DEF D
        <3> QED BY <2>3, FirstOf
    <2>5. PICK x \in S : n = MaxRow - x
        BY <2>4
    <2>6. \A y \in S : x >= y
        BY <1>1, <2>4, <2>5
    <2>7. Max(S) \in S
        BY <2>6 DEF Max
    <2> QED BY <2>2, <2>7 DEF RowOrNone
<1> QED BY <1>2, <1>3

\* Rows are counted within the bound.
LEMMA RowsAreFew ==
    ASSUME NEW S \in SUBSET Row
    PROVE  Cardinality(S) \in 0..MaxRow
<1>1. 1 \in Int /\ MaxRow \in Int /\ 1..MaxRow = Row /\ MaxRow \in Nat \ {0}
    BY RowFacts
<1>2. IsFiniteSet(Row) /\ Cardinality(Row) = MaxRow
    BY <1>1, FS_Interval
<1>3. IsFiniteSet(S) /\ Cardinality(S) <= Cardinality(Row)
    BY <1>2, FS_Subset
<1>4. Cardinality(S) \in Nat
    BY <1>3, FS_CardinalityType
<1> QED BY <1>1, <1>2, <1>3, <1>4

\* A call's record after a step of its own.
Becomes(c, s, n, f) == call' = [call EXCEPT ![c] = [kind |-> call[c].kind, step |-> s, count |-> n, feed |-> f]]

LEMMA CallBecomes ==
    ASSUME call \in [Call -> Calls], NEW c \in Call, NEW s \in Steps, NEW n \in {Unknown} \cup 0..MaxRow,
           NEW f \in {NoFeed, Missed} \cup RowOrNone, Becomes(c, s, n, f)
    PROVE  /\ call' \in [Call -> Calls] /\ \A d \in Call \ {c} : call'[d] = call[d]
           /\ call'[c].kind = call[c].kind /\ call'[c].step = s /\ call'[c].count = n /\ call'[c].feed = f
<1> DEFINE r == [kind |-> call[c].kind, step |-> s, count |-> n, feed |-> f]
<1>1. call[c] \in Calls
    OBVIOUS
<1>2. r \in Calls /\ r.kind = call[c].kind /\ r.step = s /\ r.count = n /\ r.feed = f
    BY <1>1 DEF Calls
<1>3. call' = [call EXCEPT ![c] = r]
    BY DEF Becomes
<1> HIDE DEF r
<1> QED BY <1>2, <1>3

\* What a session keeps when one call, its lookups or the entry move on while
\* the rows stay.
LEMMA LocalSteps ==
    ASSUME FInv, FeedsTyped', UNCHANGED <<rows, since, boots>>, NEW c \in Call,
           \A d \in Call \ {c} : call'[d] = call[d] /\ \A use \in Use : lookup'[<<d, use>>] = lookup[<<d, use>>],
           since[c] = {} => /\ call'[c].step \in {"idle", "sent", "done"} /\ call'[c].feed = NoFeed
                            /\ \A use \in Use : lookup'[<<c, use>>] = lookup[<<c, use>>],
           call'[c].step \in {"idle", "sent"} => since[c] = {},
           \A use \in Use : lookup'[<<c, use>>].at \in {"read", "landed"} => lookup'[<<c, use>>].row \in since[c],
           call'[c].feed \in RowOrNone => call'[c].feed \in since[c],
           call'[c].step = "boot" => entry'.bootstrapped /\ (call[c].step = "boot" \/ ~entry.bootstrapped),
           entry.bootstrapped => entry'.bootstrapped
    PROVE  FInv'
<1>0. FeedsTyped /\ SinceIsKept /\ FoundIsFresh /\ OneBootstrap
    BY DEF FInv
<1>1. SinceIsKept'
    <2> SUFFICES ASSUME NEW d \in Call
                 PROVE  /\ since[d] # {} => FirstRow \in since[d]
                        /\ since[d] = {} => /\ call'[d].step \in {"idle", "sent", "done"} /\ call'[d].feed = NoFeed
                                            /\ \A use \in Use : lookup'[<<d, use>>].at = "none"
                                            /\ \A b \in boots : b.call # d
                        /\ call'[d].step \in {"idle", "sent"} => since[d] = {}
        BY DEF SinceIsKept, FirstRow
    <2>1. CASE d = c
        BY <1>0, <2>1 DEF SinceIsKept
    <2>2. CASE d # c
        BY <1>0, <2>2 DEF SinceIsKept
    <2> QED BY <2>1, <2>2
<1>2. FoundIsFresh'
    <2>1. \A d \in Call, use \in Use : lookup'[<<d, use>>].at \in {"read", "landed"} => lookup'[<<d, use>>].row \in since[d]
        BY <1>0 DEF FoundIsFresh
    <2>2. \A d \in Call : call'[d].feed \in RowOrNone => call'[d].feed \in since[d]
        BY <1>0 DEF FoundIsFresh
    <2> QED BY <1>0, <2>1, <2>2 DEF FoundIsFresh
<1>3. OneBootstrap'
    <2>1. \A d \in Call : call'[d].step = "boot" => entry'.bootstrapped /\ (call[d].step = "boot" \/ (d = c /\ ~entry.bootstrapped))
        BY <1>0 DEF OneBootstrap
    <2>2. \A d, e \in Call : call'[d].step = "boot" /\ call'[e].step = "boot" => d = e
        BY <1>0, <2>1 DEF OneBootstrap
    <2>3. \A d \in Call : call'[d].step = "boot" => boots = {}
        BY <1>0, <2>1 DEF OneBootstrap
    <2> QED BY <1>0, <2>1, <2>2, <2>3 DEF OneBootstrap
<1> QED BY <1>1, <1>2, <1>3 DEF FInv

\* What it keeps when the rows change and every call that ran notes the first.
LEMMA SinceGrows ==
    ASSUME FInv, FeedsTyped', UNCHANGED <<lookup, boots, entry>>,
           \A d \in Call : /\ since[d] \subseteq since'[d]
                           /\ since'[d] # {} => FirstRow' \in since'[d]
                           /\ call'[d].feed = call[d].feed
                           /\ since'[d] = {} => call'[d].step = call[d].step
                           /\ call'[d].step \in {"idle", "sent"} => since'[d] = {}
                           /\ call'[d].step = "boot" => call[d].step = "boot"
    PROVE  FInv'
<1>0. FeedsTyped /\ SinceIsKept /\ FoundIsFresh /\ OneBootstrap
    BY DEF FInv
<1>1. SinceIsKept'
    <2> SUFFICES ASSUME NEW d \in Call
                 PROVE  /\ since'[d] # {} => FirstRow' \in since'[d]
                        /\ since'[d] = {} => /\ call'[d].step \in {"idle", "sent", "done"} /\ call'[d].feed = NoFeed
                                             /\ \A use \in Use : lookup[<<d, use>>].at = "none"
                                             /\ \A b \in boots : b.call # d
                        /\ call'[d].step \in {"idle", "sent"} => since'[d] = {}
        BY DEF SinceIsKept
    <2>1. since'[d] = {} => since[d] = {}
        OBVIOUS
    <2> QED BY <1>0, <2>1 DEF SinceIsKept
<1>2. FoundIsFresh'
    <2>1. \A b \in boots : b.call \in Call
        BY <1>0 DEF FeedsTyped
    <2> QED BY <1>0, <2>1 DEF FoundIsFresh
<1>3. OneBootstrap'
    BY <1>0 DEF OneBootstrap
<1> QED BY <1>1, <1>2, <1>3 DEF FInv

\* A session before its first call.
LEMMA FeedsStarts == FeedsInit => FInv
<1> SUFFICES ASSUME FeedsInit PROVE FInv
    OBVIOUS
<1>1. PICK kindOf \in Sessions :
          call = [c \in Call |-> [kind |-> kindOf[c], step |-> "idle", count |-> Unknown, feed |-> NoFeed]]
    BY DEF FeedsInit
<1>2. kindOf \in [Call -> Kind]
    BY KindsGiven
<1>3. call \in [Call -> Calls] /\ \A c \in Call : call[c].step = "idle" /\ call[c].feed = NoFeed
    BY <1>1, <1>2 DEF Calls, Steps
<1>4. lookup \in [Call \X Use -> Lookups] /\ \A c \in Call, use \in Use : lookup[<<c, use>>].at = "none"
    <2>1. [at |-> "none", row |-> NoRow, total |-> 0] \in Lookups
        <3>1. 0 \in 0..MaxRow /\ NoRow \in RowOrNone
            BY RowFacts
        <3> QED BY <3>1 DEF Lookups
    <2>2. lookup = [q \in Call \X Use |-> [at |-> "none", row |-> NoRow, total |-> 0]]
        BY DEF FeedsInit, Use
    <2> QED BY <2>1, <2>2
<1>5. entry \in Entries
    BY DEF FeedsInit, Entries, Stamps
<1>6. FeedsTyped
    BY <1>3, <1>4, <1>5 DEF FeedsInit, FeedsTyped
<1>7. SinceIsKept
    BY <1>3, <1>4 DEF FeedsInit, SinceIsKept
<1>8. FoundIsFresh
    BY <1>3, <1>4, RowFacts DEF FeedsInit, FoundIsFresh
<1>9. OneBootstrap
    BY <1>3 DEF FeedsInit, OneBootstrap
<1> QED BY <1>6, <1>7, <1>8, <1>9 DEF FInv

\* A record of a call whose step and feed are set.
LEMMA StepAndFeed ==
    ASSUME NEW r \in Calls, NEW s, NEW f
    PROVE  [[r EXCEPT !.step = s] EXCEPT !.feed = f]
           = [kind |-> r.kind, step |-> s, count |-> r.count, feed |-> f]
<1>1. PICK k \in Kind, t \in Steps, m \in {Unknown} \cup 0..MaxRow, g \in {NoFeed, Missed} \cup RowOrNone :
          r = [kind |-> k, step |-> t, count |-> m, feed |-> g]
    BY DEF Calls
<1> DEFINE a == [r EXCEPT !.step = s]
<1>2. r.kind = k /\ r.count = m /\ r.feed = g /\ a = [kind |-> k, step |-> s, count |-> m, feed |-> g]
    BY <1>1
<1> HIDE DEF a
<1>3. [a EXCEPT !.feed = f] = [kind |-> k, step |-> s, count |-> m, feed |-> f]
    BY <1>2
<1> QED BY <1>2, <1>3 DEF a

\* A record of a call whose step and count are set.
LEMMA StepAndCount ==
    ASSUME NEW r \in Calls, NEW s, NEW n
    PROVE  [[r EXCEPT !.step = s] EXCEPT !.count = n]
           = [kind |-> r.kind, step |-> s, count |-> n, feed |-> r.feed]
<1>1. PICK k \in Kind, t \in Steps, m \in {Unknown} \cup 0..MaxRow, g \in {NoFeed, Missed} \cup RowOrNone :
          r = [kind |-> k, step |-> t, count |-> m, feed |-> g]
    BY DEF Calls
<1> DEFINE a == [r EXCEPT !.step = s]
<1>2. r.kind = k /\ r.count = m /\ r.feed = g /\ a = [kind |-> k, step |-> s, count |-> m, feed |-> g]
    BY <1>1
<1> HIDE DEF a
<1>3. [a EXCEPT !.count = n] = [kind |-> k, step |-> s, count |-> n, feed |-> g]
    BY <1>2
<1> QED BY <1>2, <1>3 DEF a

\* A record of a call of which only the step, or only the feed, is set.
LEMMA OneField ==
    ASSUME NEW r \in Calls, NEW s
    PROVE  /\ [r EXCEPT !.step = s] = [kind |-> r.kind, step |-> s, count |-> r.count, feed |-> r.feed]
           /\ [r EXCEPT !.feed = s] = [kind |-> r.kind, step |-> r.step, count |-> r.count, feed |-> s]
<1>1. PICK k \in Kind, t \in Steps, m \in {Unknown} \cup 0..MaxRow, g \in {NoFeed, Missed} \cup RowOrNone :
          r = [kind |-> k, step |-> t, count |-> m, feed |-> g]
    BY DEF Calls
<1> QED BY <1>1

\* A record of the entry whose count, block or warning is noted anew.
LEMMA EntryFields ==
    ASSUME NEW e \in Entries
    PROVE  /\ \A n \in {Unknown} \cup 0..MaxRow :
                  [e EXCEPT !.pending_rows = n] \in Entries /\ [e EXCEPT !.pending_rows = n].bootstrapped = e.bootstrapped
           /\ \A s \in Stamps : [e EXCEPT !.emitted = s] \in Entries /\ [e EXCEPT !.emitted = s].bootstrapped = e.bootstrapped
           /\ \A b \in BOOLEAN : /\ [e EXCEPT !.notified = b] \in Entries /\ [e EXCEPT !.notified = b].bootstrapped = e.bootstrapped
                                 /\ [e EXCEPT !.stopped = b] \in Entries /\ [e EXCEPT !.stopped = b].bootstrapped = e.bootstrapped
                                 /\ [e EXCEPT !.bootstrapped = b] \in Entries /\ [e EXCEPT !.bootstrapped = b].bootstrapped = b
BY DEF Entries

\* A block's stamp.
LEMMA StampIs ==
    ASSUME NEW e \in Entries, NEW done \in BOOLEAN
    PROVE  Stamp(e, done) \in Stamps
<1> DEFINE a == IF e.stopped THEN "stopped" ELSE IF done \/ e.pending_rows = Unknown THEN "done" ELSE "running"
<1>1. a \in {"stopped", "done", "running"}
    OBVIOUS
<1>2. Action(e) \in {"stop", "none", "continue"}
    BY DEF Action
<1>3. e.pending_rows \in {Unknown} \cup 0..MaxRow
    BY DEF Entries
<1>4. Stamp(e, done) = <<a, e.pending_rows, Action(e)>>
    BY DEF Stamp
<1> HIDE DEF a
<1> QED BY <1>1, <1>2, <1>3, <1>4 DEF Stamps

\* What continuedReply and bootstrapReply leave behind, with or without a bootstrap begun.
ContinuedTo(c, e, feed, boot) ==
    /\ boot => ~e.bootstrapped /\ call[c].kind # "stop"
    /\ entry' \in Entries /\ (entry'.bootstrapped <=> e.bootstrapped \/ boot)
    /\ warning' \in {"none", "due", "sent"}
    /\ Becomes(c, IF boot THEN "boot" ELSE "done", call[c].count, feed)
    /\ lookup' \in [Call \X Use -> Lookups]
    /\ \A q \in Call \X Use : lookup'[q] = lookup[q] \/ (boot /\ q[1] = c /\ lookup'[q].at = "asked")

\* They leave one of the two behind.
LEMMA ContinuedIs ==
    ASSUME FeedsTyped, NEW c \in Call, NEW e \in Entries, NEW feed \in {NoFeed, Missed} \cup RowOrNone,
           NEW forced \in BOOLEAN, Continued(c, e, feed, forced)
    PROVE  \E boot \in BOOLEAN : ContinuedTo(c, e, feed, boot)
<1> DEFINE done == call[c].kind = "complete"
           counted == IF call[c].count = Unknown THEN e ELSE [e EXCEPT !.pending_rows = call[c].count]
           quiet == Rearm(counted)
           stamp == Stamp(quiet, done)
           block == Action(quiet) # "none" /\ (forced \/ stamp # quiet.emitted)
           told == IF block THEN [quiet EXCEPT !.emitted = stamp] ELSE quiet
           first == call[c].kind \notin {"array", "no_cwd", "failed", "stop"} /\ ~e.bootstrapped
<1>1. call[c] \in Calls /\ call[c].count \in {Unknown} \cup 0..MaxRow /\ done \in BOOLEAN
    BY DEF FeedsTyped, Calls
<1>2. PICK stale \in BOOLEAN :
          /\ entry' = [told EXCEPT !.bootstrapped = @ \/ (first /\ stale)]
          /\ call' = [call EXCEPT ![c].step = IF first /\ stale THEN "boot" ELSE "done", ![c].feed = feed]
          /\ lookup' = IF first /\ stale /\ feed \in {NoFeed, Missed}
                       THEN [lookup EXCEPT ![<<c, "boot">>].at = "asked"] ELSE lookup
    BY DEF Continued
<1>3. warning' = IF warning = "sent" THEN "none" ELSE warning
    BY DEF Continued
<1>4. counted \in Entries /\ counted.bootstrapped = e.bootstrapped
    BY <1>1, EntryFields
<1>5. quiet \in Entries /\ quiet.bootstrapped = e.bootstrapped
    <2> HIDE DEF counted
    <2> QED BY <1>4, EntryFields DEF Rearm
<1>6. told \in Entries /\ told.bootstrapped = e.bootstrapped
    <2>1. stamp \in Stamps
        <3> HIDE DEF quiet, done
        <3> QED BY <1>1, <1>5, StampIs
    <2> HIDE DEF quiet, stamp, block
    <2> QED BY <1>5, <2>1, EntryFields
<1> DEFINE boot == first /\ stale
<1>7. boot \in BOOLEAN /\ e.bootstrapped \in BOOLEAN
    BY DEF Entries
<1>8. entry' \in Entries /\ (entry'.bootstrapped <=> e.bootstrapped \/ boot)
    <2>1. (told.bootstrapped \/ boot) \in BOOLEAN
        OBVIOUS
    <2>2. entry' = [told EXCEPT !.bootstrapped = told.bootstrapped \/ boot]
        BY <1>2
    <2> HIDE DEF told, boot
    <2> QED BY <1>6, <1>7, <2>1, <2>2, EntryFields
<1>9. warning' \in {"none", "due", "sent"}
    BY <1>3 DEF FeedsTyped
<1>10. Becomes(c, IF boot THEN "boot" ELSE "done", call[c].count, feed)
    <2> DEFINE s == IF boot THEN "boot" ELSE "done"
    <2>1. call' = [call EXCEPT ![c].step = s, ![c].feed = feed]
        BY <1>2
    <2> HIDE DEF s, boot
    <2>2. [[call[c] EXCEPT !.step = s] EXCEPT !.feed = feed] = [kind |-> call[c].kind, step |-> s, count |-> call[c].count, feed |-> feed]
        <3>1. \A r \in Calls : [[r EXCEPT !.step = s] EXCEPT !.feed = feed] = [kind |-> r.kind, step |-> s, count |-> r.count, feed |-> feed]
            BY StepAndFeed, Zenon
        <3> QED BY <1>1, <3>1, Zenon
    <2>3. Becomes(c, s, call[c].count, feed)
        BY <2>1, <2>2 DEF Becomes, FeedsTyped
    <2> QED BY <2>3 DEF s
<1>11. /\ lookup' \in [Call \X Use -> Lookups]
       /\ \A q \in Call \X Use : lookup'[q] = lookup[q] \/ (boot /\ q[1] = c /\ lookup'[q].at = "asked")
    <2>1. CASE lookup' = lookup
        BY <2>1 DEF FeedsTyped
    <2>2. CASE boot /\ lookup' = [lookup EXCEPT ![<<c, "boot">>].at = "asked"]
        <3> DEFINE p == <<c, "boot">>
                   l == [lookup[p] EXCEPT !.at = "asked"]
        <3>1. p \in Call \X Use /\ p[1] = c /\ lookup \in [Call \X Use -> Lookups]
            BY DEF Use, FeedsTyped
        <3>2. l \in Lookups /\ l.at = "asked"
            BY <3>1 DEF Lookups
        <3>3. lookup' = [lookup EXCEPT ![p] = l]
            BY <2>2
        <3> HIDE DEF p, l, boot
        <3> QED BY <2>2, <3>1, <3>2, <3>3
    <2> QED BY <1>2, <2>1, <2>2
<1>12. boot => ~e.bootstrapped /\ call[c].kind # "stop"
    OBVIOUS
<1> HIDE DEF boot
<1> QED BY <1>7, <1>8, <1>9, <1>10, <1>11, <1>12 DEF ContinuedTo

\* The forms in which the steps update a call.
LEMMA UpdatesAre ==
    ASSUME FeedsTyped, NEW c \in Call, NEW s, NEW x
    PROVE  /\ call' = [call EXCEPT ![c].step = s] => Becomes(c, s, call[c].count, call[c].feed)
           /\ call' = [call EXCEPT ![c].feed = s] => Becomes(c, call[c].step, call[c].count, s)
           /\ call' = [call EXCEPT ![c].step = s, ![c].feed = x] => Becomes(c, s, call[c].count, x)
           /\ call' = [call EXCEPT ![c].step = s, ![c].count = x] => Becomes(c, s, x, call[c].feed)
<1>1. call[c] \in Calls /\ call \in [Call -> Calls]
    BY DEF FeedsTyped
<1>2. [call[c] EXCEPT !.step = s] = [kind |-> call[c].kind, step |-> s, count |-> call[c].count, feed |-> call[c].feed]
    BY <1>1, OneField, Zenon
<1>3. [call[c] EXCEPT !.feed = s] = [kind |-> call[c].kind, step |-> call[c].step, count |-> call[c].count, feed |-> s]
    BY <1>1, OneField, Zenon
<1>4. [[call[c] EXCEPT !.step = s] EXCEPT !.feed = x] = [kind |-> call[c].kind, step |-> s, count |-> call[c].count, feed |-> x]
    BY <1>1, StepAndFeed, Zenon
<1>5. [[call[c] EXCEPT !.step = s] EXCEPT !.count = x] = [kind |-> call[c].kind, step |-> s, count |-> x, feed |-> call[c].feed]
    BY <1>1, StepAndCount, Zenon
<1>6. call' = [call EXCEPT ![c].step = s] => Becomes(c, s, call[c].count, call[c].feed)
    BY <1>1, <1>2 DEF Becomes
<1>7. call' = [call EXCEPT ![c].feed = s] => Becomes(c, call[c].step, call[c].count, s)
    BY <1>1, <1>3 DEF Becomes
<1>8. call' = [call EXCEPT ![c].step = s, ![c].feed = x] => Becomes(c, s, call[c].count, x)
    BY <1>1, <1>4 DEF Becomes
<1>9. call' = [call EXCEPT ![c].step = s, ![c].count = x] => Becomes(c, s, x, call[c].feed)
    BY <1>1, <1>5 DEF Becomes
<1> QED BY <1>6, <1>7, <1>8, <1>9

\* The forms in which they update a lookup.
LEMMA LookupsAre ==
    ASSUME FeedsTyped, NEW q \in Call \X Use, NEW at \in {"none", "asked", "read", "landed"}, NEW l \in Lookups
    PROVE  /\ lookup' = [lookup EXCEPT ![q] = l] => lookup' \in [Call \X Use -> Lookups] /\ lookup'[q] = l
           /\ lookup' = [lookup EXCEPT ![q].at = at] => /\ lookup' \in [Call \X Use -> Lookups]
                                                       /\ lookup'[q].at = at /\ lookup'[q].row = lookup[q].row
           /\ lookup' = [lookup EXCEPT ![q] = l] \/ lookup' = [lookup EXCEPT ![q].at = at]
              => \A p \in Call \X Use : p # q => lookup'[p] = lookup[p]
<1> DEFINE m == [lookup[q] EXCEPT !.at = at]
<1>1. lookup \in [Call \X Use -> Lookups] /\ lookup[q] \in Lookups
    BY DEF FeedsTyped
<1>2. m \in Lookups /\ m.at = at /\ m.row = lookup[q].row
    BY <1>1 DEF Lookups
<1>3. lookup' = [lookup EXCEPT ![q].at = at] => lookup' = [lookup EXCEPT ![q] = m]
    OBVIOUS
<1>4. [lookup EXCEPT ![q].at = at] = [lookup EXCEPT ![q] = m]
    OBVIOUS
<1> HIDE DEF m
<1> QED BY <1>1, <1>2, <1>3, <1>4

\* A reply whose call ran, or that is the stop, ends with what was fresh for it.
LEMMA ContinuedSteps ==
    ASSUME FInv, NEW c \in Call, NEW e \in Entries, NEW feed \in {NoFeed, Missed} \cup RowOrNone, NEW forced \in BOOLEAN,
           e.bootstrapped = entry.bootstrapped, Continued(c, e, feed, forced),
           since[c] = {} => call[c].kind = "stop" /\ feed = NoFeed,
           feed \in RowOrNone => feed \in since[c],
           UNCHANGED <<rows, others, cached, since, boots>>
    PROVE  FInv'
<1>0. FeedsTyped /\ SinceIsKept /\ FoundIsFresh /\ OneBootstrap
    BY DEF FInv
<1>1. PICK boot \in BOOLEAN : ContinuedTo(c, e, feed, boot)
    BY <1>0, ContinuedIs, Zenon
<1> DEFINE s == IF boot THEN "boot" ELSE "done"
<1>2. s \in Steps /\ call \in [Call -> Calls] /\ call[c].count \in {Unknown} \cup 0..MaxRow
    BY <1>0 DEF Steps, FeedsTyped, Calls
<1>3. /\ call' \in [Call -> Calls] /\ \A d \in Call \ {c} : call'[d] = call[d]
      /\ call'[c].step = s /\ call'[c].feed = feed
    <2> HIDE DEF s
    <2>1. Becomes(c, s, call[c].count, feed)
        BY <1>1 DEF s, ContinuedTo
    <2> QED BY <1>2, <2>1, CallBecomes
<1>4. FeedsTyped'
    BY <1>0, <1>1, <1>3 DEF FeedsTyped, ContinuedTo
<1>5. /\ \A d \in Call \ {c}, use \in Use : lookup'[<<d, use>>] = lookup[<<d, use>>]
      /\ \A use \in Use : lookup'[<<c, use>>] = lookup[<<c, use>>] \/ (boot /\ lookup'[<<c, use>>].at = "asked")
    BY <1>1 DEF ContinuedTo
<1>6. since[c] = {} => ~boot
    BY <1>1 DEF ContinuedTo
<1>7. \A use \in Use : lookup'[<<c, use>>].at \in {"read", "landed"} => lookup'[<<c, use>>].row \in since[c]
    BY <1>0, <1>5 DEF FoundIsFresh
<1>8. since[c] = {} => call'[c].step = "done" /\ call'[c].feed = NoFeed /\ \A use \in Use : lookup'[<<c, use>>] = lookup[<<c, use>>]
    BY <1>3, <1>5, <1>6
<1>9. call'[c].step \notin {"idle", "sent"}
    BY <1>3
<1>10. call'[c].step = "boot" => entry'.bootstrapped /\ ~entry.bootstrapped
    BY <1>1, <1>3 DEF ContinuedTo
<1>11. entry.bootstrapped => entry'.bootstrapped
    BY <1>1 DEF ContinuedTo
<1>12. call'[c].feed \in RowOrNone => call'[c].feed \in since[c]
    BY <1>3
<1> HIDE DEF s
<1> QED BY <1>3, <1>4, <1>5, <1>7, <1>8, <1>9, <1>10, <1>11, <1>12, LocalSteps

\* Somebody else takes or adds a row: every call that ran notes the first.
LEMMA OtherClientSteps == FInv /\ OtherClient => FInv'
<1> SUFFICES ASSUME FInv, OtherClient PROVE FInv'
    OBVIOUS
<1>0. FeedsTyped /\ SinceIsKept
    BY DEF FInv
<1>1. PICK r \in Row : rows' = IF r \in rows THEN rows \ {r} ELSE rows \cup {r}
    BY DEF OtherClient
<1>2. rows' \in SUBSET Row
    BY <1>0, <1>1 DEF FeedsTyped
<1>3. FirstRow' \in RowOrNone
    BY <1>2, FirstIs DEF FirstRow
<1>4. /\ since' = [c \in Call |-> IF since[c] = {} THEN {} ELSE since[c] \cup {FirstRow'}]
      /\ UNCHANGED <<call, lookup, entry, cached, heard, warning, boots>>
    BY DEF OtherClient
<1>5. FeedsTyped'
    <2>1. since' \in [Call -> SUBSET RowOrNone]
        <3> HIDE DEF FirstRow
        <3> QED BY <1>0, <1>3, <1>4 DEF FeedsTyped
    <2> QED BY <1>0, <1>2, <1>4, <2>1 DEF FeedsTyped
<1>6. \A d \in Call : /\ since[d] \subseteq since'[d]
                      /\ since'[d] # {} => FirstRow' \in since'[d]
                      /\ since'[d] = {} => since[d] = {}
                      /\ since[d] = {} => since'[d] = {}
    BY <1>4
<1>7. \A d \in Call : call'[d].step \in {"idle", "sent"} => since'[d] = {}
    BY <1>0, <1>4, <1>6 DEF SinceIsKept
<1> QED BY <1>4, <1>5, <1>6, <1>7, SinceGrows

\* The guest runs a call: what is fresh for it begins here.
LEMMA RunSteps ==
    ASSUME FInv, NEW c \in Call, Run(c)
    PROVE  FInv'
<1>0. FeedsTyped /\ SinceIsKept
    BY DEF FInv
<1> DEFINE n == IF Counts(call[c].kind) THEN Cardinality(rows') ELSE Unknown
<1>1. /\ call[c].step = "sent"
      /\ rows' = CASE call[c].kind = "resolve" -> rows \ {FirstRow}
                   [] call[c].kind = "add" -> rows \cup (IF Row = rows THEN {} ELSE {Max(Row \ rows)})
                   [] OTHER -> rows
      /\ call' = [call EXCEPT ![c].step = "ran", ![c].count = n]
      /\ since' = [d \in Call |-> IF d = c THEN {FirstRow'} ELSE IF since[d] = {} THEN {} ELSE since[d] \cup {FirstRow'}]
      /\ UNCHANGED <<others, lookup, entry, cached, heard, warning, boots>>
    BY DEF Run
<1>2. rows' \in SUBSET Row
    <2>1. rows \subseteq Row
        BY <1>0 DEF FeedsTyped
    <2>2. Row \ rows # {} => Max(Row \ rows) \in Row
        <3>1. Row \ rows \in SUBSET Row
            OBVIOUS
        <3> QED BY <3>1, FirstIs
    <2>3. Row # rows => Row \ rows # {}
        BY <2>1
    <2> QED BY <1>1, <2>1, <2>2, <2>3
<1>3. FirstRow' \in RowOrNone
    BY <1>2, FirstIs DEF FirstRow
<1>4. n \in {Unknown} \cup 0..MaxRow
    BY <1>2, RowsAreFew
<1>5. /\ call' \in [Call -> Calls] /\ \A d \in Call \ {c} : call'[d] = call[d]
      /\ call'[c].step = "ran" /\ call'[c].feed = call[c].feed
    <2> HIDE DEF n
    <2>1. Becomes(c, "ran", n, call[c].feed)
        BY <1>0, <1>1, UpdatesAre
    <2>2. call \in [Call -> Calls] /\ call[c].feed \in {NoFeed, Missed} \cup RowOrNone /\ "ran" \in Steps
        BY <1>0 DEF FeedsTyped, Calls, Steps
    <2> QED BY <1>4, <2>1, <2>2, CallBecomes
<1>6. FeedsTyped'
    <2>1. since' \in [Call -> SUBSET RowOrNone]
        <3> HIDE DEF FirstRow
        <3> QED BY <1>0, <1>1, <1>3 DEF FeedsTyped
    <2> QED BY <1>0, <1>1, <1>2, <1>5, <2>1 DEF FeedsTyped
<1>7. since[c] = {}
    BY <1>0, <1>1 DEF SinceIsKept
<1>8. \A d \in Call : /\ since[d] \subseteq since'[d]
                      /\ since'[d] # {} => FirstRow' \in since'[d]
                      /\ since'[d] = {} => d # c
                      /\ d # c /\ since[d] = {} => since'[d] = {}
    BY <1>1, <1>7
<1>9. \A d \in Call : /\ call'[d].feed = call[d].feed
                      /\ since'[d] = {} => call'[d].step = call[d].step
                      /\ call'[d].step \in {"idle", "sent"} => since'[d] = {}
                      /\ call'[d].step = "boot" => call[d].step = "boot"
    <2> SUFFICES ASSUME NEW d \in Call
                 PROVE  /\ call'[d].feed = call[d].feed
                        /\ since'[d] = {} => call'[d].step = call[d].step
                        /\ call'[d].step \in {"idle", "sent"} => since'[d] = {}
                        /\ call'[d].step = "boot" => call[d].step = "boot"
        OBVIOUS
    <2>1. CASE d = c
        BY <1>5, <1>8, <2>1
    <2>2. CASE d # c
        BY <1>0, <1>5, <1>8, <2>2 DEF SinceIsKept
    <2> QED BY <2>1, <2>2
<1> QED BY <1>1, <1>6, <1>8, <1>9, SinceGrows

\* A call is sent.
LEMMA BeginSteps ==
    ASSUME FInv, NEW c \in Call, Begin(c)
    PROVE  FInv'
<1>0. FeedsTyped /\ SinceIsKept /\ FoundIsFresh
    BY DEF FInv
<1>1. /\ call[c].step = "idle" /\ call' = [call EXCEPT ![c].step = "sent"]
      /\ entry' = [entry EXCEPT !.stopped = entry.stopped /\ call[c].kind # "instruction"]
      /\ UNCHANGED <<rows, others, lookup, cached, heard, warning, since, boots>>
    BY DEF Begin
<1>2. /\ call' \in [Call -> Calls] /\ \A d \in Call \ {c} : call'[d] = call[d]
      /\ call'[c].step = "sent" /\ call'[c].feed = call[c].feed
    <2>1. Becomes(c, "sent", call[c].count, call[c].feed)
        BY <1>0, <1>1, UpdatesAre
    <2>2. /\ call \in [Call -> Calls] /\ call[c].feed \in {NoFeed, Missed} \cup RowOrNone /\ "sent" \in Steps
          /\ call[c].count \in {Unknown} \cup 0..MaxRow
        BY <1>0 DEF FeedsTyped, Calls, Steps
    <2> QED BY <2>1, <2>2, CallBecomes
<1>3. entry' \in Entries /\ entry'.bootstrapped = entry.bootstrapped
    <2>1. entry \in Entries /\ (entry.stopped /\ call[c].kind # "instruction") \in BOOLEAN
        BY <1>0 DEF FeedsTyped
    <2> QED BY <1>1, <2>1, EntryFields
<1>4. FeedsTyped'
    BY <1>0, <1>1, <1>2, <1>3 DEF FeedsTyped
<1>5. since[c] = {} /\ call[c].feed = NoFeed
    BY <1>0, <1>1 DEF SinceIsKept
<1>6. \A use \in Use : lookup[<<c, use>>].at = "none"
    BY <1>0, <1>5 DEF SinceIsKept
<1> QED BY <1>1, <1>2, <1>3, <1>4, <1>5, <1>6, LocalSteps, RowFacts

\* A reply that moves the PRD asks for the next row.
LEMMA AskSteps ==
    ASSUME FInv, NEW c \in Call, call[c].step = "ran",
           call' = [call EXCEPT ![c].step = "looking"], lookup' = [lookup EXCEPT ![<<c, "feed">>].at = "asked"],
           UNCHANGED <<entry, heard, warning, rows, others, cached, since, boots>>
    PROVE  FInv'
<1>0. FeedsTyped /\ SinceIsKept /\ FoundIsFresh
    BY DEF FInv
<1>2. /\ call' \in [Call -> Calls] /\ \A d \in Call \ {c} : call'[d] = call[d]
      /\ call'[c].step = "looking" /\ call'[c].feed = call[c].feed
    <2>1. Becomes(c, "looking", call[c].count, call[c].feed)
        BY <1>0, UpdatesAre
    <2>2. /\ call \in [Call -> Calls] /\ call[c].feed \in {NoFeed, Missed} \cup RowOrNone /\ "looking" \in Steps
          /\ call[c].count \in {Unknown} \cup 0..MaxRow
        BY <1>0 DEF FeedsTyped, Calls, Steps
    <2> QED BY <2>1, <2>2, CallBecomes
<1> DEFINE q == <<c, "feed">>
<1>3. q \in Call \X Use
    BY DEF Use
<1>4. /\ lookup' \in [Call \X Use -> Lookups] /\ lookup'[q].at = "asked"
      /\ \A p \in Call \X Use : p # q => lookup'[p] = lookup[p]
    <2> HIDE DEF q
    <2>1. lookup' = [lookup EXCEPT ![q].at = "asked"]
        BY DEF q
    <2>2. PICK l \in Lookups : l = lookup[q]
        BY <1>0, <1>3 DEF FeedsTyped
    <2> QED BY <1>0, <1>3, <2>1, <2>2, LookupsAre
<1>5. FeedsTyped'
    BY <1>0, <1>2, <1>4 DEF FeedsTyped
<1>6. since[c] # {}
    BY <1>0 DEF SinceIsKept
<1>7. \A use \in Use : lookup'[<<c, use>>].at \in {"read", "landed"} => lookup'[<<c, use>>].row \in since[c]
    BY <1>0, <1>4 DEF FoundIsFresh, Use
<1>8. \A d \in Call \ {c}, use \in Use : lookup'[<<d, use>>] = lookup[<<d, use>>]
    BY <1>4
<1>9. call[c].feed \in RowOrNone => call[c].feed \in since[c]
    BY <1>0 DEF FoundIsFresh
<1> QED BY <1>2, <1>5, <1>6, <1>7, <1>8, <1>9, LocalSteps

\* The reply of a call that ran.
LEMMA TakeReplySteps ==
    ASSUME FInv, NEW c \in Call, TakeReply(c)
    PROVE  FInv'
<1>0. FeedsTyped /\ SinceIsKept /\ entry \in Entries
    BY DEF FInv, FeedsTyped
<1>1. call[c].step = "ran" /\ UNCHANGED <<rows, others, cached, since, boots>>
    BY DEF TakeReply
<1>2. CASE Moves(c)
    BY <1>1, <1>2, AskSteps DEF TakeReply
<1>3. CASE ~Moves(c)
    <2>1. Continued(c, entry, NoFeed, FALSE)
        BY <1>3 DEF TakeReply
    <2>2. since[c] # {} /\ NoFeed \notin RowOrNone
        BY <1>0, <1>1, RowFacts DEF SinceIsKept
    <2> QED BY <1>0, <1>1, <2>1, <2>2, ContinuedSteps
<1> QED BY <1>2, <1>3

\* The stop reaches no guest.
LEMMA StopSteps ==
    ASSUME FInv, NEW c \in Call, Stop(c)
    PROVE  FInv'
<1>0. FeedsTyped /\ entry \in Entries
    BY DEF FInv, FeedsTyped
<1> DEFINE e == [entry EXCEPT !.stopped = TRUE]
<1>1. e \in Entries /\ e.bootstrapped = entry.bootstrapped
    BY <1>0, EntryFields
<1>2. /\ Continued(c, e, NoFeed, FALSE) /\ call[c].kind = "stop"
      /\ UNCHANGED <<rows, others, cached, since, boots>>
    BY DEF Stop
<1>3. NoFeed \notin RowOrNone
    BY RowFacts
<1> HIDE DEF e
<1> QED BY <1>1, <1>2, <1>3, ContinuedSteps

\* A reply that waited for the next row.
LEMMA FinishSteps ==
    ASSUME FInv, NEW c \in Call, Finish(c)
    PROVE  FInv'
<1>0. FeedsTyped /\ SinceIsKept /\ FoundIsFresh /\ entry \in Entries
    BY DEF FInv, FeedsTyped
<1>1. /\ call[c].step = "ready" /\ Continued(c, entry, call[c].feed, TRUE)
      /\ UNCHANGED <<rows, others, cached, since, boots>>
    BY DEF Finish
<1>2. since[c] # {} /\ call[c].feed \in {NoFeed, Missed} \cup RowOrNone
    BY <1>0, <1>1 DEF SinceIsKept, FeedsTyped, Calls
<1>3. call[c].feed \in RowOrNone => call[c].feed \in since[c]
    BY <1>0 DEF FoundIsFresh
<1> DEFINE f == call[c].feed
<1>4. Continued(c, entry, f, TRUE) /\ f \in {NoFeed, Missed} \cup RowOrNone /\ (f \in RowOrNone => f \in since[c])
    BY <1>1, <1>2, <1>3
<1> HIDE DEF f
<1> QED BY <1>0, <1>1, <1>2, <1>4, ContinuedSteps

\* The lookup reads the first row.
LEMMA LookSteps ==
    ASSUME FInv, NEW c \in Call, NEW use \in Use, Look(c, use)
    PROVE  FInv'
<1>0. FeedsTyped /\ SinceIsKept /\ FoundIsFresh
    BY DEF FInv
<1> DEFINE q == <<c, use>>
           l == [at |-> "read", row |-> FirstRow, total |-> Cardinality(rows)]
<1>1. /\ lookup[q].at = "asked" /\ lookup' = [lookup EXCEPT ![q] = l]
      /\ UNCHANGED <<rows, others, call, entry, cached, heard, warning, since, boots>>
    BY DEF Look
<1>2. l \in Lookups /\ l.at = "read" /\ l.row = FirstRow
    <2>1. rows \in SUBSET Row
        BY <1>0 DEF FeedsTyped
    <2>2. FirstRow \in RowOrNone /\ Cardinality(rows) \in 0..MaxRow
        BY <2>1, FirstIs, RowsAreFew DEF FirstRow
    <2> QED BY <2>2 DEF Lookups
<1>3. q \in Call \X Use
    OBVIOUS
<1>4. /\ lookup' \in [Call \X Use -> Lookups] /\ lookup'[q] = l
      /\ \A p \in Call \X Use : p # q => lookup'[p] = lookup[p]
    <2> HIDE DEF q, l
    <2> QED BY <1>0, <1>1, <1>2, <1>3, LookupsAre
<1>5. FeedsTyped'
    BY <1>0, <1>1, <1>4 DEF FeedsTyped
<1>6. since[c] # {} /\ FirstRow \in since[c]
    BY <1>0, <1>1 DEF SinceIsKept
<1>7. \A u \in Use : lookup'[<<c, u>>].at \in {"read", "landed"} => lookup'[<<c, u>>].row \in since[c]
    <2> HIDE DEF l
    <2> QED BY <1>0, <1>2, <1>4, <1>6 DEF FoundIsFresh
<1>8. \A d \in Call \ {c}, u \in Use : lookup'[<<d, u>>] = lookup[<<d, u>>]
    BY <1>4
<1>9. call[c].feed \in RowOrNone => call[c].feed \in since[c]
    BY <1>0 DEF FoundIsFresh
<1>10. call[c].step = "boot" => entry.bootstrapped
    BY DEF FInv, OneBootstrap
<1>11. call[c].step \notin {"idle", "sent"}
    BY <1>0, <1>6 DEF SinceIsKept
<1> HIDE DEF l, q
<1> QED BY <1>1, <1>5, <1>6, <1>7, <1>8, <1>9, <1>10, <1>11, LocalSteps

\* The lookup lands, in time for its reply or after it.
LEMMA LandSteps ==
    ASSUME FInv, NEW c \in Call, NEW use \in Use, Land(c, use)
    PROVE  FInv'
<1>0. FeedsTyped /\ SinceIsKept /\ FoundIsFresh
    BY DEF FInv
<1> DEFINE q == <<c, use>>
           found == lookup[q]
           counted == Rearm([entry EXCEPT !.pending_rows = found.total])
<1>1. /\ found.at = "read" /\ lookup' = [lookup EXCEPT ![q].at = "landed"] /\ cached' = found.row
      /\ entry' = [counted EXCEPT !.emitted = Stamp(counted, FALSE)]
      /\ warning' = IF warning = "sent" THEN "none" ELSE warning
      /\ UNCHANGED <<rows, others, heard, since, boots>>
    BY DEF Land
<1>2. call' = IF call[c].step = "looking" /\ use = "feed"
              THEN [call EXCEPT ![c].step = "ready", ![c].feed = found.row]
              ELSE IF call[c].step = "boot" /\ use = "boot"
              THEN [call EXCEPT ![c].feed = found.row] ELSE call
    BY DEF Land, RowFound
<1>3. q \in Call \X Use /\ found \in Lookups /\ found.row \in RowOrNone /\ found.total \in 0..MaxRow
    BY <1>0 DEF FeedsTyped, Lookups
<1>4. found.row \in since[c] /\ since[c] # {}
    BY <1>0, <1>1 DEF FoundIsFresh
<1>5. /\ lookup' \in [Call \X Use -> Lookups] /\ lookup'[q].row = found.row
      /\ \A p \in Call \X Use : p # q => lookup'[p] = lookup[p]
    <2>1. PICK l \in Lookups : l = found
        BY <1>3
    <2> HIDE DEF q
    <2> QED BY <1>0, <1>1, <1>3, <2>1, LookupsAre
<1>6. entry' \in Entries /\ entry'.bootstrapped = entry.bootstrapped
    <2>1. [entry EXCEPT !.pending_rows = found.total] \in Entries
          /\ [entry EXCEPT !.pending_rows = found.total].bootstrapped = entry.bootstrapped
        <3>1. entry \in Entries /\ found.total \in {Unknown} \cup 0..MaxRow
            BY <1>0, <1>3 DEF FeedsTyped
        <3> HIDE DEF found
        <3> QED BY <3>1, EntryFields
    <2>2. counted \in Entries /\ counted.bootstrapped = entry.bootstrapped
        BY <2>1, EntryFields DEF Rearm
    <2>3. Stamp(counted, FALSE) \in Stamps
        <3> HIDE DEF counted
        <3> QED BY <2>2, StampIs
    <2> HIDE DEF counted
    <2> QED BY <1>1, <2>2, <2>3, EntryFields
<1>7. PICK r \in RowOrNone : r = found.row
    BY <1>3
<1>8. /\ call' \in [Call -> Calls] /\ \A d \in Call \ {c} : call'[d] = call[d]
      /\ call'[c].step \in {call[c].step, "ready"} /\ (call[c].step \in {"idle", "sent"} => call'[c].step = call[c].step)
      /\ call'[c].feed \in {call[c].feed, r}
    <2>1. /\ call \in [Call -> Calls] /\ call[c].feed \in {NoFeed, Missed} \cup RowOrNone /\ "ready" \in Steps
          /\ call[c].count \in {Unknown} \cup 0..MaxRow /\ call[c].step \in Steps
          /\ r \in {NoFeed, Missed} \cup RowOrNone
        BY <1>0 DEF FeedsTyped, Calls, Steps
    <2> HIDE DEF found
    <2>2. CASE call[c].step = "looking" /\ use = "feed"
        <3>1. Becomes(c, "ready", call[c].count, r)
            BY <1>0, <1>2, <1>7, <2>2, UpdatesAre
        <3> QED BY <2>1, <2>2, <3>1, CallBecomes
    <2>3. CASE call[c].step = "boot" /\ use = "boot"
        <3>1. Becomes(c, call[c].step, call[c].count, r)
            BY <1>0, <1>2, <1>7, <2>3, UpdatesAre
        <3> QED BY <2>1, <2>3, <3>1, CallBecomes
    <2>4. CASE call' = call
        BY <2>1, <2>4
    <2> QED BY <1>2, <2>2, <2>3, <2>4
<1>9. FeedsTyped'
    BY <1>0, <1>1, <1>3, <1>5, <1>6, <1>8 DEF FeedsTyped
<1>10. \A u \in Use : lookup'[<<c, u>>].at \in {"read", "landed"} => lookup'[<<c, u>>].row \in since[c]
    BY <1>0, <1>4, <1>5 DEF FoundIsFresh
<1>11. \A d \in Call \ {c}, u \in Use : lookup'[<<d, u>>] = lookup[<<d, u>>]
    BY <1>5
<1>12. call'[c].feed \in RowOrNone => call'[c].feed \in since[c]
    BY <1>0, <1>4, <1>7, <1>8 DEF FoundIsFresh
<1>13. call'[c].step = "boot" => call[c].step = "boot" /\ entry'.bootstrapped
    BY <1>6, <1>8 DEF FInv, OneBootstrap
<1>14. call'[c].step \notin {"idle", "sent"}
    BY <1>0, <1>4, <1>8 DEF SinceIsKept
<1> HIDE DEF found, q, counted
<1> QED BY <1>1, <1>4, <1>6, <1>8, <1>9, <1>10, <1>11, <1>12, <1>13, <1>14, LocalSteps

\* A lookup is not waited for any longer.
LEMMA MissSteps ==
    ASSUME FInv, NEW c \in Call, Miss(c)
    PROVE  FInv'
<1>0. FeedsTyped /\ SinceIsKept /\ FoundIsFresh
    BY DEF FInv
<1>1. /\ call[c].step = "looking" /\ call' = [call EXCEPT ![c].step = "ready", ![c].feed = Missed]
      /\ UNCHANGED <<rows, others, lookup, entry, cached, heard, warning, since, boots>>
    BY DEF Miss
<1>2. /\ call' \in [Call -> Calls] /\ \A d \in Call \ {c} : call'[d] = call[d]
      /\ call'[c].step = "ready" /\ call'[c].feed = Missed
    <2>1. Becomes(c, "ready", call[c].count, Missed)
        BY <1>0, <1>1, UpdatesAre
    <2>2. /\ call \in [Call -> Calls] /\ "ready" \in Steps /\ call[c].count \in {Unknown} \cup 0..MaxRow
        BY <1>0 DEF FeedsTyped, Calls, Steps
    <2> QED BY <2>1, <2>2, CallBecomes
<1>3. FeedsTyped'
    BY <1>0, <1>1, <1>2 DEF FeedsTyped
<1>4. since[c] # {} /\ Missed \notin RowOrNone
    BY <1>0, <1>1, RowFacts DEF SinceIsKept
<1>5. \A u \in Use : lookup[<<c, u>>].at \in {"read", "landed"} => lookup[<<c, u>>].row \in since[c]
    BY <1>0 DEF FoundIsFresh
<1> QED BY <1>1, <1>2, <1>3, <1>4, <1>5, LocalSteps

\* The bootstrap is delivered: there was none, and nobody else brings one.
LEMMA AttachSteps ==
    ASSUME FInv, NEW c \in Call, Attach(c)
    PROVE  FInv'
<1>0. FeedsTyped /\ SinceIsKept /\ FoundIsFresh /\ OneBootstrap
    BY DEF FInv
<1> DEFINE b == [call |-> c,
                 next |-> IF call[c].feed \in Row \cup {NoRow} THEN call[c].feed
                          ELSE IF cached # Unknown THEN cached ELSE NoRow,
                 stale |-> call[c].feed \notin Row \cup {NoRow}]
<1>1. /\ call[c].step = "boot" /\ call' = [call EXCEPT ![c].step = "done"] /\ boots' = boots \cup {b}
      /\ UNCHANGED <<rows, others, lookup, entry, cached, heard, warning, since>>
    BY DEF Attach
<1>2. /\ call' \in [Call -> Calls] /\ \A d \in Call \ {c} : call'[d] = call[d]
      /\ call'[c].step = "done" /\ call'[c].feed = call[c].feed
    <2>1. Becomes(c, "done", call[c].count, call[c].feed)
        BY <1>0, <1>1, UpdatesAre
    <2>2. /\ call \in [Call -> Calls] /\ call[c].feed \in {NoFeed, Missed} \cup RowOrNone /\ "done" \in Steps
          /\ call[c].count \in {Unknown} \cup 0..MaxRow
        BY <1>0 DEF FeedsTyped, Calls, Steps
    <2> QED BY <2>1, <2>2, CallBecomes
<1>3. boots = {} /\ boots' = {b} /\ entry.bootstrapped
    BY <1>0, <1>1 DEF OneBootstrap
<1>4. since[c] # {}
    BY <1>0, <1>1 DEF SinceIsKept
<1>5. b \in [call : Call, next : RowOrNone, stale : BOOLEAN] /\ b.call = c /\ (b.stale \/ b.next \in since[c])
    <2>1. cached \in {Unknown} \cup RowOrNone /\ NoRow \in RowOrNone
        BY <1>0, RowFacts DEF FeedsTyped
    <2>2. call[c].feed \in Row \cup {NoRow} => call[c].feed \in since[c]
        BY <1>0 DEF FoundIsFresh, RowOrNone
    <2>3. b.next \in RowOrNone /\ b.stale \in BOOLEAN /\ b.call = c
        BY <2>1 DEF RowOrNone
    <2>4. b.stale \/ b.next \in since[c]
        BY <2>2
    <2> QED BY <2>3, <2>4
<1> HIDE DEF b
<1>6. FeedsTyped'
    BY <1>0, <1>1, <1>2, <1>3, <1>5 DEF FeedsTyped
<1>7. SinceIsKept'
    <2> SUFFICES ASSUME NEW d \in Call
                 PROVE  /\ since[d] # {} => FirstRow \in since[d]
                        /\ since[d] = {} => /\ call'[d].step \in {"idle", "sent", "done"} /\ call'[d].feed = NoFeed
                                            /\ \A use \in Use : lookup[<<d, use>>].at = "none"
                                            /\ \A x \in boots' : x.call # d
                        /\ call'[d].step \in {"idle", "sent"} => since[d] = {}
        BY <1>1 DEF SinceIsKept, FirstRow
    <2>1. CASE d = c
        BY <1>0, <1>2, <1>4, <2>1 DEF SinceIsKept
    <2>2. CASE d # c
        BY <1>0, <1>2, <1>3, <1>5, <2>2 DEF SinceIsKept
    <2> QED BY <2>1, <2>2
<1>8. FoundIsFresh'
    <2>1. \A d \in Call : call'[d].feed = call[d].feed
        BY <1>2
    <2>2. \A x \in boots' : x.stale \/ x.next \in since[x.call]
        BY <1>3, <1>5
    <2> QED BY <1>0, <1>1, <2>1, <2>2 DEF FoundIsFresh
<1>9. OneBootstrap'
    <2>1. \A d \in Call : call'[d].step # "boot"
        BY <1>0, <1>1, <1>2 DEF OneBootstrap
    <2>2. \A x, y \in boots' : x = y
        BY <1>3
    <2> QED BY <1>1, <1>3, <2>1, <2>2 DEF OneBootstrap
<1> QED BY <1>6, <1>7, <1>8, <1>9 DEF FInv

\* No step of a session makes a row it names older than the call that asked.
LEMMA FeedSteps == FInv /\ [FeedsNext]_feedVars => FInv'
<1> SUFFICES ASSUME FInv, [FeedsNext]_feedVars PROVE FInv'
    OBVIOUS
<1>0. FeedsTyped /\ SinceIsKept /\ FoundIsFresh /\ OneBootstrap
    BY DEF FInv
<1>1. CASE /\ entry' \in Entries /\ entry'.bootstrapped = entry.bootstrapped /\ warning' \in {"none", "due", "sent"}
           /\ UNCHANGED <<rows, others, call, lookup, cached, heard, since, boots>>
    <2>1. FeedsTyped'
        BY <1>0, <1>1 DEF FeedsTyped
    <2>2. (SinceIsKept /\ FoundIsFresh /\ OneBootstrap)'
        BY <1>0, <1>1 DEF SinceIsKept, FoundIsFresh, OneBootstrap, FirstRow
    <2> QED BY <2>1, <2>2 DEF FInv
<1>2. CASE UNCHANGED feedVars
    BY <1>0, <1>1, <1>2 DEF feedVars, FeedsTyped
<1>3. CASE Tick
    <2>1. entry \in Entries /\ entry' = [entry EXCEPT !.notified = TRUE]
        BY <1>0, <1>3 DEF FeedsTyped, Tick
    <2>2. entry' \in Entries /\ entry'.bootstrapped = entry.bootstrapped
        BY <2>1, EntryFields
    <2> QED BY <1>1, <1>3, <2>2 DEF Tick
<1>4. CASE Warn
    BY <1>0, <1>1, <1>4 DEF Warn, FeedsTyped
<1>5. CASE OtherClient
    BY <1>5, OtherClientSteps
<1>6. CASE \E c \in Call : FeedStep(c)
    BY <1>6, BeginSteps, RunSteps, TakeReplySteps, StopSteps, MissSteps, FinishSteps, AttachSteps DEF FeedStep
<1>7. CASE \E c \in Call : LookupStep(c)
    BY <1>7, LookSteps, LandSteps DEF LookupStep, Use
<1> QED BY <1>2, <1>3, <1>4, <1>5, <1>6, <1>7 DEF FeedsNext

\* What the invariant says to the reader.
LEMMA FeedsMean == FInv => FeedsTypeOK /\ NextRowIsFresh
<1> SUFFICES ASSUME FInv PROVE FeedsTypeOK /\ NextRowIsFresh
    OBVIOUS
<1>0. FeedsTyped /\ FoundIsFresh /\ OneBootstrap
    BY DEF FInv
<1>1. FeedsTypeOK
    BY <1>0 DEF FeedsTyped, FeedsTypeOK, Calls, Entries, Steps, RowOrNone
<1>2. NextRowIsFresh
    BY <1>0 DEF NextRowIsFresh, FoundIsFresh, OneBootstrap, RowOrNone
<1> QED BY <1>1, <1>2

-----------------------------------------------------------------------------
(* The skill gate.                                                            *)

Contexts == {Unread, All} \cup (Root \X Nat)
GateTyped ==
    /\ state \in [Root -> Nat] /\ root \in Root \cup {NoRoot}
    /\ refresh \in [root : Root \cup {NoRoot}, ctx : Contexts]
    /\ refresh # Idle => refresh.root \in Root
    /\ connected \in BOOLEAN /\ owed \in BOOLEAN /\ overdue \in BOOLEAN /\ fails \in 0..MaxFail


\* The gate lists every skill before it knows a project.
LEMMA GateStarts == GateInit => GateTyped
<1> SUFFICES ASSUME GateInit PROVE GateTyped
    OBVIOUS
<1>1. Idle \in [root : Root \cup {NoRoot}, ctx : Contexts]
    BY DEF Idle, Contexts, Unread
<1>2. fails \in 0..MaxFail
    BY GateBounds DEF GateBounds, GateInit
<1> QED BY <1>1, <1>2 DEF GateInit, GateTyped

\* A refresh in flight is of a project that was named.
LEMMA RefreshIsTyped ==
    ASSUME GateTyped, NEW r \in Root \cup {NoRoot}, RefreshIfChanged(r)
    PROVE  refresh' \in [root : Root \cup {NoRoot}, ctx : Contexts] /\ (refresh' # Idle => refresh'.root \in Root)
BY DEF GateTyped, RefreshIfChanged, Contexts

\* Every step keeps the types.
LEMMA GateSteps == GateTyped /\ [GateNext]_gateVars => GateTyped'
<1> SUFFICES ASSUME GateTyped, [GateNext]_gateVars PROVE GateTyped'
    OBVIOUS
<1>1. CASE \E r \in Root : Change(r)
    <2>1. PICK r \in Root : Change(r)
        BY <1>1
    <2>2. state' = [state EXCEPT ![r] = @ + 1]
        BY <2>1 DEF Change
    <2>3. state' \in [Root -> Nat]
        BY <2>2 DEF GateTyped
    <2> QED BY <2>1, <2>3 DEF Change, GateTyped
<1>2. CASE \E r \in Root : Kick(r)
    <2>1. PICK r \in Root : Kick(r)
        BY <1>2
    <2> QED BY <2>1, RefreshIsTyped DEF Kick, GateTyped
<1>3. CASE Poll
    <2>1. root \in Root \cup {NoRoot}
        BY DEF GateTyped
    <2> QED BY <1>3, <2>1, RefreshIsTyped DEF Poll, GateTyped
<1>4. CASE ReadState
    <2>1. refresh.root \in Root /\ Ctx(refresh.root) \in Contexts /\ All \in Contexts
        BY <1>4 DEF ReadState, GateTyped, Ctx, Contexts
    <2>2. PICK found \in Contexts : refresh' = [refresh EXCEPT !.ctx = found]
        BY <1>4, <2>1 DEF ReadState
    <2>3. refresh' \in [root : Root \cup {NoRoot}, ctx : Contexts] /\ refresh'.root \in Root
        BY <2>1, <2>2 DEF GateTyped
    <2>4. fails' \in 0..MaxFail
        BY <1>4, GateBounds DEF ReadState, GateTyped, GateBounds
    <2> QED BY <1>4, <2>3, <2>4 DEF ReadState, GateTyped
<1>5. CASE Apply
    <2>1. Idle \in [root : Root \cup {NoRoot}, ctx : Contexts]
        BY DEF Idle, Contexts, Unread
    <2>2. owed' \in BOOLEAN
        BY <1>5 DEF Apply
    <2> QED BY <1>5, <2>1, <2>2 DEF Apply, GateTyped
<1>6. CASE Backstop \/ ClientConnects \/ ListAgain
    BY <1>6 DEF Backstop, ClientConnects, ListAgain, GateTyped
<1>7. CASE UNCHANGED gateVars
    BY <1>7 DEF gateVars, GateTyped
<1> QED BY <1>1, <1>2, <1>3, <1>4, <1>5, <1>6, <1>7 DEF GateNext

-----------------------------------------------------------------------------
(* The stream of a stdio server.                                              *)

ColdTyped ==
    /\ lines \in Seq(LineKind) /\ Len(lines) <= MaxLine /\ taken \in 0..Len(lines)
    /\ mode \in {"cold", "loading", "full"} /\ idle \in BOOLEAN /\ initialized \in BOOLEAN
    /\ held \in Seq(1..MaxLine) /\ init \in {0, 1}
    /\ swallow \in BOOLEAN /\ sdk \in Seq(0..MaxLine + 1)
    /\ open \subseteq 0..MaxLine /\ hung \subseteq open
    /\ answers \in [1..MaxLine -> Nat] /\ waited \in 0..MaxWait

\* The client initializes on its first line and no other.
FirstInitializes == \A n \in 1..Len(lines) : lines[n] \in {"init", "init_other"} <=> n = 1

\* What is held and what the SDK was given is of the lines taken, in their order.
InOrder(s) == \A i, j \in 1..Len(s) : i < j /\ {s[i], s[j]} \subseteq 1..MaxLine => s[i] < s[j]
TakenInOrder ==
    /\ InOrder(held) /\ InOrder(sdk)
    /\ \A i \in 1..Len(held) : held[i] <= taken
    /\ \A i \in 1..Len(sdk) : sdk[i] \in 1..MaxLine => sdk[i] <= taken
    /\ \A m \in open : m <= taken

\* Which part of the handshake was answered cold, and how the SDK's session begins.
Handshake ==
    /\ mode # "loading" => held = <<>>
    /\ mode # "full" => sdk = <<>> /\ open = {}
    /\ mode = "cold" /\ init = 0 => taken = 0
    /\ mode = "loading" /\ init = 0 => held # <<>> /\ held[1] = 1
    /\ mode = "full" => sdk # <<>> /\ sdk[1] = IF init = 0 THEN 1 ELSE Replay
    /\ init = 1 => taken >= 1
    /\ idle => init = 1
    /\ Replay \in open => swallow
    /\ ~stray

\* A line that waits has no answer.
WaitingIsUnanswered ==
    \A n \in 1..MaxLine :
        /\ answers[n] <= 1
        /\ n > taken \/ n \in open \/ (\E i \in 1..Len(held) : held[i] = n) => answers[n] = 0

KInv == ColdTyped /\ FirstInitializes /\ TakenInOrder /\ Handshake /\ WaitingIsUnanswered

\* The numbers of the handshake's messages.
LEMMA ReplayNumbers == MaxLine \in Nat \ {0} /\ Replay = 0 /\ Replay \notin 1..MaxLine /\ ReplayInitialized \notin 1..MaxLine
BY ColdBounds DEF ColdBounds, Replay, ReplayInitialized

\* Before the first line.
LEMMA ColdStarts == ColdInit => KInv
<1> SUFFICES ASSUME ColdInit PROVE KInv
    OBVIOUS
<1>1. ColdTyped
    <2>1. lines \in Seq(LineKind) /\ held \in Seq(1..MaxLine) /\ sdk \in Seq(0..MaxLine + 1) /\ Len(lines) = 0
        BY DEF ColdInit
    <2>2. waited \in 0..MaxWait /\ answers \in [1..MaxLine -> Nat] /\ Len(lines) <= MaxLine /\ taken \in 0..Len(lines)
        BY <2>1, ColdBounds DEF ColdInit, ColdBounds
    <2> QED BY <2>1, <2>2 DEF ColdInit, ColdTyped
<1>2. Len(lines) = 0 /\ Len(held) = 0 /\ Len(sdk) = 0
    BY DEF ColdInit
<1>3. FirstInitializes /\ TakenInOrder
    BY <1>2 DEF ColdInit, FirstInitializes, TakenInOrder, InOrder
<1>4. Handshake
    BY DEF ColdInit, Handshake
<1>5. WaitingIsUnanswered
    BY DEF ColdInit, WaitingIsUnanswered
<1> QED BY <1>1, <1>3, <1>4, <1>5 DEF KInv

\* What is held is of the lines taken.
LEMMA HeldAre ==
    ASSUME KInv
    PROVE  \A i \in 1..Len(held) : held[i] \in 1..MaxLine /\ held[i] <= taken
<1>1. held \in Seq(1..MaxLine)
    BY DEF KInv, ColdTyped
<1>2. \A i \in 1..Len(held) : held[i] \in 1..MaxLine
    BY <1>1, ElementOfSeq
<1>3. \A i \in 1..Len(held) : held[i] <= taken
    BY DEF KInv, TakenInOrder
<1> QED BY <1>2, <1>3

\* The lines already there stay when another is written.
LEMMA WriteSteps ==
    ASSUME KInv, Write
    PROVE  KInv'
<1>0. ColdTyped /\ MaxLine \in Nat
    BY ReplayNumbers DEF KInv
<1>1. PICK kind \in LineKind : Legal(kind) /\ lines' = Append(lines, kind)
    BY DEF Write
<1>2. /\ lines' \in Seq(LineKind) /\ Len(lines') = Len(lines) + 1 /\ lines'[Len(lines) + 1] = kind
      /\ \A n \in 1..Len(lines) : lines'[n] = lines[n]
    BY <1>0, <1>1 DEF ColdTyped
<1>3. UNCHANGED <<taken, mode, idle, held, init, initialized, swallow, sdk, open, hung, answers, stray, waited>>
    BY DEF Write
<1>4. ColdTyped'
    <2>1. Len(lines') <= MaxLine /\ taken' \in 0..Len(lines')
        BY <1>0, <1>2, <1>3 DEF Write, ColdTyped
    <2> QED BY <1>0, <1>2, <1>3, <2>1 DEF ColdTyped
<1>5. FirstInitializes'
    <2>1. Len(lines) \in Nat /\ (Len(lines) = 0 <=> lines = <<>>)
        BY <1>0 DEF ColdTyped
    <2>2. kind \in {"init", "init_other"} <=> Len(lines) + 1 = 1
        BY <1>1, <2>1 DEF Legal
    <2>3. \A n \in 1..Len(lines') : n \in 1..Len(lines) \/ n = Len(lines) + 1
        BY <1>2, <2>1
    <2> QED BY <1>2, <2>2, <2>3 DEF KInv, FirstInitializes
<1>6. (TakenInOrder /\ Handshake /\ WaitingIsUnanswered)'
    BY <1>3 DEF KInv, TakenInOrder, InOrder, Handshake, WaitingIsUnanswered
<1> QED BY <1>4, <1>5, <1>6 DEF KInv

\* A line answered cold: nothing is held or open yet that has its number.
LEMMA AnswerColdSteps ==
    ASSUME KInv, mode # "full", taken < Len(lines), Answer(taken + 1), taken' = taken + 1,
           idle' \in BOOLEAN, idle' => init' = 1, init' \in {init, 1}, lines[taken + 1] # "init_other",
           init = 0 => lines[taken + 1] = "init" /\ init' = 1,
           UNCHANGED <<lines, mode, held, initialized, swallow, sdk, open, hung, stray, waited>>
    PROVE  KInv'
<1>0. ColdTyped /\ MaxLine \in Nat /\ TakenInOrder /\ Handshake /\ WaitingIsUnanswered /\ FirstInitializes
    BY ReplayNumbers DEF KInv
<1> DEFINE n == taken + 1
<1>1. n \in 1..MaxLine /\ n \in 1..Len(lines) /\ n > taken
    BY <1>0 DEF ColdTyped
<1>2. answers' = [answers EXCEPT ![n] = @ + 1] /\ answers[n] = 0
    BY <1>0, <1>1 DEF Answer, WaitingIsUnanswered
<1>3. answers' \in [1..MaxLine -> Nat] /\ answers'[n] = 1 /\ \A m \in 1..MaxLine \ {n} : answers'[m] = answers[m]
    BY <1>0, <1>1, <1>2 DEF ColdTyped
<1>4. ColdTyped'
    BY <1>0, <1>1, <1>3 DEF ColdTyped
<1>5. FirstInitializes'
    BY <1>0 DEF FirstInitializes
<1>6. TakenInOrder'
    <2>1. \A i \in 1..Len(held) : held[i] \in 1..MaxLine /\ held[i] <= taken
        BY HeldAre
    <2>2. open = {} /\ sdk = <<>>
        BY <1>0 DEF Handshake
    <2> QED BY <1>0, <1>1, <2>1, <2>2 DEF TakenInOrder, InOrder, ColdTyped
<1>7. Handshake'
    <2>1. init' = 0 => init = 0
        BY DEF ColdTyped
    <2>2. init' = 1
        BY <1>0 DEF ColdTyped
    <2> QED BY <1>0, <1>1, <2>2 DEF Handshake, ColdTyped
<1>8. WaitingIsUnanswered'
    <2>1. \A i \in 1..Len(held) : held[i] # n
        BY <1>0, <1>1 DEF TakenInOrder, ColdTyped
    <2>2. open = {}
        BY <1>0 DEF Handshake
    <2>3. \A m \in 1..MaxLine \ {n} : m > n => m > taken
        BY <1>0 DEF ColdTyped
    <2> QED BY <1>0, <1>1, <1>3, <2>1, <2>2, <2>3 DEF WaitingIsUnanswered
<1> QED BY <1>4, <1>5, <1>6, <1>7, <1>8 DEF KInv

\* The SDK is given some messages: requests among them are open until answered.
LEMMA DeliverIs ==
    ASSUME ColdTyped, NEW ms \in Seq(0..MaxLine + 1), Deliver(ms)
    PROVE  /\ sdk' = sdk \o ms /\ sdk' \in Seq(0..MaxLine + 1) /\ Len(sdk') = Len(sdk) + Len(ms)
           /\ \A i \in 1..Len(sdk) : sdk'[i] = sdk[i]
           /\ \A i \in 1..Len(ms) : sdk'[Len(sdk) + i] = ms[i]
           /\ open' \subseteq 0..MaxLine /\ hung' \subseteq open'
           /\ \A m \in open' : m \in open \/ \E i \in 1..Len(ms) : ms[i] = m
<1>1. sdk \in Seq(0..MaxLine + 1) /\ sdk' = sdk \o ms
    BY DEF ColdTyped, Deliver
<1>2. /\ sdk' \in Seq(0..MaxLine + 1) /\ Len(sdk') = Len(sdk) + Len(ms)
      /\ \A i \in 1..Len(sdk) : sdk'[i] = sdk[i]
      /\ \A i \in 1..Len(ms) : sdk'[Len(sdk) + i] = ms[i]
    BY <1>1
<1>3. \A m \in ToSet(ms) : \E i \in 1..Len(ms) : ms[i] = m
    BY DEF ToSet
<1>4. open' = open \cup {m \in ToSet(ms) : m = Replay \/ (m \in 1..MaxLine /\ lines[m] \in Requests)}
    BY DEF Deliver
<1>5. PICK h \in SUBSET {m \in ToSet(ms) \cap (1..MaxLine) : lines[m] = "call"} : hung' = hung \cup h
    BY DEF Deliver
<1>6. "call" \in Requests
    BY DEF Requests, LineKind
<1>7. h \subseteq open' /\ hung \subseteq open /\ open \subseteq open'
    BY <1>4, <1>5, <1>6 DEF ColdTyped
<1>8. open' \subseteq 0..MaxLine
    <2>1. Replay \in 0..MaxLine /\ 1..MaxLine \subseteq 0..MaxLine /\ open \subseteq 0..MaxLine
        BY ReplayNumbers DEF ColdTyped
    <2> QED BY <1>4, <2>1
<1> QED BY <1>1, <1>2, <1>3, <1>4, <1>5, <1>7, <1>8

\* The full server takes the next line.
LEMMA ReceiveFullSteps ==
    ASSUME KInv, mode = "full", taken < Len(lines), Deliver(<<taken + 1>>), taken' = taken + 1,
           UNCHANGED <<lines, mode, idle, held, init, initialized, swallow, answers, stray, waited>>
    PROVE  KInv'
<1>0. ColdTyped /\ MaxLine \in Nat /\ TakenInOrder /\ Handshake /\ WaitingIsUnanswered /\ FirstInitializes
    BY ReplayNumbers DEF KInv
<1> DEFINE n == taken + 1
           ms == <<n>>
<1>1. n \in 1..MaxLine /\ n \in 1..Len(lines) /\ n > taken /\ taken \in Nat
    BY <1>0 DEF ColdTyped
<1>2. ms \in Seq(0..MaxLine + 1) /\ Len(ms) = 1 /\ ms[1] = n
    BY <1>0, <1>1
<1>3. Deliver(ms)
    OBVIOUS
<1> HIDE DEF ms
<1>4. /\ sdk' \in Seq(0..MaxLine + 1) /\ Len(sdk') = Len(sdk) + 1 /\ Len(sdk) \in Nat
      /\ \A i \in 1..Len(sdk) : sdk'[i] = sdk[i]
      /\ sdk'[Len(sdk) + 1] = n
      /\ open' \subseteq 0..MaxLine /\ hung' \subseteq open' /\ \A m \in open' : m \in open \/ m = n
    <2>1. /\ sdk' \in Seq(0..MaxLine + 1) /\ Len(sdk') = Len(sdk) + Len(ms)
          /\ \A i \in 1..Len(sdk) : sdk'[i] = sdk[i]
          /\ \A i \in 1..Len(ms) : sdk'[Len(sdk) + i] = ms[i]
          /\ open' \subseteq 0..MaxLine /\ hung' \subseteq open'
          /\ \A m \in open' : m \in open \/ \E i \in 1..Len(ms) : ms[i] = m
        BY <1>0, <1>2, <1>3, DeliverIs
    <2>2. \A i \in 1..Len(ms) : i = 1
        BY <1>2
    <2>3. 1 \in 1..Len(ms) /\ Len(sdk) \in Nat
        BY <1>0, <1>2 DEF ColdTyped
    <2>4. sdk'[Len(sdk) + 1] = n
        BY <1>2, <2>1, <2>3
    <2> QED BY <1>2, <2>1, <2>2, <2>3, <2>4
<1>5. ColdTyped'
    BY <1>0, <1>1, <1>4 DEF ColdTyped
<1>6. FirstInitializes'
    BY <1>0 DEF FirstInitializes
<1>7. TakenInOrder'
    <2>1. \A i \in 1..Len(sdk') : i \in 1..Len(sdk) \/ i = Len(sdk) + 1
        BY <1>4
    <2>2. \A i \in 1..Len(sdk') : sdk'[i] \in 1..MaxLine => sdk'[i] <= n
        BY <1>0, <1>1, <1>4, <2>1 DEF TakenInOrder
    <2>3. ASSUME NEW i \in 1..Len(sdk'), NEW j \in 1..Len(sdk'), i < j, {sdk'[i], sdk'[j]} \subseteq 1..MaxLine
          PROVE  sdk'[i] < sdk'[j]
        <3>1. i \in 1..Len(sdk)
            BY <1>4, <2>1, <2>3
        <3>2. CASE j \in 1..Len(sdk)
            BY <1>0, <1>4, <2>3, <3>1, <3>2 DEF TakenInOrder, InOrder
        <3>3. CASE j = Len(sdk) + 1
            <4>1. sdk'[i] = sdk[i] /\ sdk[i] <= taken
                BY <1>0, <1>4, <2>3, <3>1 DEF TakenInOrder
            <4> QED BY <1>1, <1>4, <2>3, <3>3, <4>1
        <3> QED BY <2>1, <3>2, <3>3
    <2>4. held = <<>> /\ Len(held) = 0
        BY <1>0 DEF Handshake
    <2>5. \A m \in open' : m <= n
        BY <1>0, <1>1, <1>4 DEF TakenInOrder, ColdTyped
    <2> QED BY <2>2, <2>3, <2>4, <2>5 DEF TakenInOrder, InOrder
<1>8. Handshake'
    <2>1. sdk # <<>> /\ Len(sdk) > 0
        BY <1>0, <1>4 DEF Handshake, ColdTyped
    <2>2. sdk' # <<>> /\ sdk'[1] = sdk[1]
        BY <1>4, <2>1
    <2>3. Replay \in open' => Replay \in open
        BY <1>1, <1>4, ReplayNumbers
    <2> QED BY <1>0, <1>1, <2>2, <2>3 DEF Handshake, ColdTyped
<1>9. WaitingIsUnanswered'
    <2>1. Len(held) = 0
        BY <1>0 DEF Handshake
    <2>2. answers[n] = 0
        BY <1>0, <1>1 DEF WaitingIsUnanswered
    <2>3. \A m \in 1..MaxLine : m > n => m > taken
        BY <1>1
    <2> QED BY <1>0, <1>4, <2>1, <2>2, <2>3 DEF WaitingIsUnanswered
<1> QED BY <1>5, <1>6, <1>7, <1>8, <1>9 DEF KInv

\* A line the manifest cannot answer is held, behind those held before.
LEMMA HoldSteps ==
    ASSUME KInv, mode # "full", taken < Len(lines), held' = Append(held, taken + 1), mode' = "loading", taken' = taken + 1,
           idle' = FALSE,
           UNCHANGED <<lines, init, initialized, swallow, sdk, open, hung, answers, stray, waited>>
    PROVE  KInv'
<1>0. ColdTyped /\ MaxLine \in Nat /\ TakenInOrder /\ Handshake /\ WaitingIsUnanswered /\ FirstInitializes
    BY ReplayNumbers DEF KInv
<1> DEFINE n == taken + 1
<1>1. n \in 1..MaxLine /\ n \in 1..Len(lines) /\ n > taken /\ taken \in Nat
    BY <1>0 DEF ColdTyped
<1>2. /\ held' \in Seq(1..MaxLine) /\ Len(held') = Len(held) + 1 /\ Len(held) \in Nat
      /\ held'[Len(held) + 1] = n /\ \A i \in 1..Len(held) : held'[i] = held[i]
    <2>1. held \in Seq(1..MaxLine) /\ held' = Append(held, n)
        BY <1>0 DEF ColdTyped
    <2> HIDE DEF n
    <2> QED BY <1>1, <2>1
<1>3. ColdTyped'
    <2>1. taken' = n /\ lines' = lines /\ n \in 0..Len(lines)
        BY <1>1
    <2>3. mode' \in {"cold", "loading", "full"} /\ idle' \in BOOLEAN
        OBVIOUS
    <2>2. held' \in Seq(1..MaxLine)
        BY <1>2
    <2> HIDE DEF n
    <2> QED BY <1>0, <2>1, <2>2, <2>3 DEF ColdTyped
<1>4. FirstInitializes'
    BY <1>0 DEF FirstInitializes
<1>5. \A i \in 1..Len(held') : i \in 1..Len(held) \/ i = Len(held) + 1
    BY <1>2
<1>6. open = {} /\ sdk = <<>> /\ Len(sdk) = 0
    BY <1>0 DEF Handshake
<1>7. TakenInOrder'
    <2>1. \A i \in 1..Len(held) : held[i] \in 1..MaxLine /\ held[i] <= taken
        BY HeldAre
    <2>2. \A i \in 1..Len(held') : held'[i] <= n
        BY <1>1, <1>2, <1>5, <2>1
    <2>3. \A i, j \in 1..Len(held') : i < j => held'[i] < held'[j]
        <3> SUFFICES ASSUME NEW i \in 1..Len(held'), NEW j \in 1..Len(held'), i < j PROVE held'[i] < held'[j]
            OBVIOUS
        <3>1. i \in 1..Len(held)
            BY <1>2, <1>5
        <3>2. CASE j \in 1..Len(held)
            <4>1. {held[i], held[j]} \subseteq 1..MaxLine
                BY <2>1, <3>1, <3>2
            <4> QED BY <1>0, <1>2, <3>1, <3>2, <4>1 DEF TakenInOrder, InOrder
        <3>3. CASE j = Len(held) + 1
            BY <1>1, <1>2, <2>1, <3>1, <3>3
        <3> QED BY <1>5, <3>2, <3>3
    <2> QED BY <1>6, <2>2, <2>3 DEF TakenInOrder, InOrder
<1>8. Handshake'
    <2>1. CASE init = 0
        <3>1. CASE mode = "cold"
            <4>1. held = <<>> /\ taken = 0
                BY <1>0, <2>1, <3>1 DEF Handshake
            <4> QED BY <1>0, <1>1, <1>2, <2>1, <4>1 DEF Handshake, ColdTyped
        <3>2. CASE mode = "loading"
            <4>1. held # <<>> /\ held[1] = 1 /\ Len(held) > 0
                BY <1>0, <1>2, <2>1, <3>2 DEF Handshake, ColdTyped
            <4>2. held' # <<>> /\ held'[1] = 1
                BY <1>2, <4>1
            <4> QED BY <1>0, <1>1, <2>1, <4>2 DEF Handshake, ColdTyped
        <3> QED BY <1>0, <3>1, <3>2 DEF ColdTyped
    <2>2. CASE init = 1
        BY <1>0, <1>1, <2>2 DEF Handshake, ColdTyped
    <2> QED BY <1>0, <2>1, <2>2 DEF ColdTyped
<1>9. WaitingIsUnanswered'
    <2>1. answers[n] = 0
        BY <1>0, <1>1 DEF WaitingIsUnanswered
    <2>2. \A m \in 1..MaxLine : m > n => m > taken
        BY <1>1
    <2>3. \A m \in 1..MaxLine : (\E i \in 1..Len(held') : held'[i] = m) => m = n \/ \E i \in 1..Len(held) : held[i] = m
        BY <1>2, <1>5
    <2> QED BY <1>0, <1>6, <2>1, <2>2, <2>3 DEF WaitingIsUnanswered
<1> QED BY <1>3, <1>4, <1>7, <1>8, <1>9 DEF KInv

\* A line that needs no answer: nothing is held or open that has its number.
LEMMA NotedSteps ==
    ASSUME KInv, mode # "full", taken < Len(lines), taken' = taken + 1, init # 0, initialized' = TRUE,
           UNCHANGED <<lines, mode, idle, held, init, swallow, sdk, open, hung, answers, stray, waited>>
    PROVE  KInv'
<1>0. ColdTyped /\ MaxLine \in Nat /\ TakenInOrder /\ Handshake /\ WaitingIsUnanswered /\ FirstInitializes
    BY ReplayNumbers DEF KInv
<1>1. taken \in Nat /\ taken + 1 \in 0..Len(lines)
    BY <1>0 DEF ColdTyped
<1>2. ColdTyped'
    BY <1>0, <1>1 DEF ColdTyped
<1>3. FirstInitializes'
    BY <1>0 DEF FirstInitializes
<1>4. open = {} /\ sdk = <<>> /\ init = 1
    BY <1>0 DEF Handshake, ColdTyped
<1>5. TakenInOrder'
    <2>1. \A i \in 1..Len(held) : held[i] \in 1..MaxLine /\ held[i] <= taken
        BY HeldAre
    <2>2. \A i \in 1..Len(held) : held[i] <= taken + 1
        BY <1>1, <2>1
    <2> QED BY <1>0, <1>4, <2>2 DEF TakenInOrder, InOrder
<1>6. Handshake'
    BY <1>0, <1>1, <1>4 DEF Handshake
<1>7. WaitingIsUnanswered'
    <2>1. \A m \in 1..MaxLine : m > taken + 1 => m > taken
        BY <1>1
    <2> QED BY <1>0, <2>1 DEF WaitingIsUnanswered
<1> QED BY <1>2, <1>3, <1>5, <1>6, <1>7 DEF KInv

\* Whatever receive() does with the next line.
LEMMA ReceiveSteps == KInv /\ Receive => KInv'
<1> SUFFICES ASSUME KInv, Receive PROVE KInv'
    OBVIOUS
<1>0. ColdTyped /\ FirstInitializes /\ Handshake
    BY DEF KInv
<1> DEFINE n == taken + 1
           kind == lines[n]
<1>1. taken < Len(lines) /\ taken' = n /\ UNCHANGED <<lines, swallow, stray, left, waited, exited>>
    BY DEF Receive
<1>2. n \in 1..Len(lines) /\ kind \in LineKind /\ (kind \in {"init", "init_other"} <=> n = 1)
    BY <1>0, <1>1 DEF ColdTyped, FirstInitializes
<1>3. CASE mode = "full"
    BY <1>1, <1>3, ReceiveFullSteps DEF Receive
<1>4. CASE mode # "full" /\ kind = "init" /\ init = 0
    <2>1. /\ init' = n /\ Answer(n) /\ idle' = TRUE
          /\ UNCHANGED <<mode, held, initialized, sdk, open, hung>>
        BY <1>4 DEF Receive
    <2>2. n = 1
        BY <1>2, <1>4
    <2> QED BY <1>1, <1>4, <2>1, <2>2, AnswerColdSteps
<1>5. CASE mode # "full" /\ kind = "initialized" /\ init # 0
    <2>1. initialized' = TRUE /\ UNCHANGED <<mode, idle, held, init, sdk, open, hung, answers>>
        BY <1>5 DEF Receive
    <2> QED BY <1>1, <1>5, <2>1, NotedSteps
<1>6. CASE mode # "full" /\ kind = "list" /\ init # 0
    <2>1. Answer(n) /\ idle' = TRUE /\ UNCHANGED <<mode, held, init, initialized, sdk, open, hung>>
        BY <1>6 DEF Receive
    <2>2. init = 1
        BY <1>0, <1>6 DEF ColdTyped
    <2> QED BY <1>1, <1>6, <2>1, <2>2, AnswerColdSteps
<1>7. CASE /\ mode # "full"
           /\ kind \in {"call", "init_other"} \/ (kind \in {"initialized", "list"} /\ init = 0)
           /\ held' = Append(held, n) /\ idle' = FALSE /\ mode' = "loading"
           /\ UNCHANGED <<init, initialized, sdk, open, hung, answers, known>>
    BY <1>1, <1>7, HoldSteps
<1> QED BY <1>3, <1>4, <1>5, <1>6, <1>7 DEF Receive

\* The load starts by itself.
LEMMA IdleSteps == KInv /\ IdleLoad => KInv'
<1> SUFFICES ASSUME KInv, IdleLoad PROVE KInv'
    OBVIOUS
<1>0. ColdTyped /\ TakenInOrder /\ Handshake /\ WaitingIsUnanswered /\ FirstInitializes
    BY DEF KInv
<1>1. /\ idle /\ idle' = FALSE /\ mode' = IF mode = "cold" THEN "loading" ELSE mode
      /\ UNCHANGED <<lines, taken, held, init, initialized, swallow, sdk, open, hung, answers, stray, left, known, waited, exited>>
    BY DEF IdleLoad
<1>2. ColdTyped'
    BY <1>0, <1>1 DEF ColdTyped
<1>3. FirstInitializes' /\ TakenInOrder' /\ WaitingIsUnanswered'
    BY <1>0, <1>1 DEF FirstInitializes, TakenInOrder, InOrder, WaitingIsUnanswered
<1>4. Handshake'
    BY <1>0, <1>1 DEF Handshake, ColdTyped
<1> QED BY <1>2, <1>3, <1>4 DEF KInv

\* What start() replays before the lines that were held.
LEMMA ReplayIs ==
    ASSUME KInv, mode = "loading"
    PROVE  \E pre \in Seq(0..MaxLine + 1) :
               /\ pre = (IF init = 0 THEN <<>> ELSE <<Replay>>)
                         \o (IF init # 0 /\ initialized THEN <<ReplayInitialized>> ELSE <<>>)
               /\ \A i \in 1..Len(pre) : pre[i] \notin 1..MaxLine
               /\ init = 0 => Len(pre) = 0
               /\ init # 0 => Len(pre) > 0 /\ pre[1] = Replay
<1> DEFINE pre == (IF init = 0 THEN <<>> ELSE <<Replay>>)
                  \o (IF init # 0 /\ initialized THEN <<ReplayInitialized>> ELSE <<>>)
<1> SUFFICES /\ pre \in Seq(0..MaxLine + 1)
             /\ \A i \in 1..Len(pre) : pre[i] \notin 1..MaxLine
             /\ init = 0 => Len(pre) = 0
             /\ init # 0 => Len(pre) > 0 /\ pre[1] = Replay
    OBVIOUS
<1>1. Replay \in 0..MaxLine + 1 /\ ReplayInitialized \in 0..MaxLine + 1
    BY ReplayNumbers DEF ReplayInitialized
<1>2. Replay \notin 1..MaxLine /\ ReplayInitialized \notin 1..MaxLine
    BY ReplayNumbers
<1>3. CASE init = 0
    <2>1. pre = <<>>
        BY <1>3
    <2> HIDE DEF pre
    <2> QED BY <1>3, <2>1
<1>4. CASE init # 0 /\ ~initialized
    <2>1. pre = <<Replay>>
        BY <1>1, <1>4
    <2> HIDE DEF pre
    <2>2. pre \in Seq(0..MaxLine + 1) /\ Len(pre) = 1 /\ pre[1] = Replay
        BY <1>1, <2>1
    <2> QED BY <1>2, <1>4, <2>2
<1>5. CASE init # 0 /\ initialized
    <2>0. pre = <<Replay>> \o <<ReplayInitialized>>
        BY <1>5
    <2> HIDE DEF pre
    <2>1. /\ <<Replay>> \in Seq(0..MaxLine + 1) /\ Len(<<Replay>>) = 1 /\ <<Replay>>[1] = Replay
          /\ <<ReplayInitialized>> \in Seq(0..MaxLine + 1) /\ Len(<<ReplayInitialized>>) = 1
          /\ <<ReplayInitialized>>[1] = ReplayInitialized
        BY <1>1
    <2>2. pre \in Seq(0..MaxLine + 1) /\ Len(pre) = 2 /\ pre[1] = Replay /\ pre[2] = ReplayInitialized
        BY <2>0, <2>1, ConcatProperties
    <2>3. 1..2 = {1, 2}
        OBVIOUS
    <2> QED BY <1>2, <1>5, <2>2, <2>3
<1> QED BY <1>3, <1>4, <1>5

\* The SDK connects: its session begins as the client's did.
LEMMA ConnectSteps == KInv /\ Connect => KInv'
<1> SUFFICES ASSUME KInv, Connect PROVE KInv'
    OBVIOUS
<1>0. ColdTyped /\ MaxLine \in Nat /\ TakenInOrder /\ Handshake /\ WaitingIsUnanswered /\ FirstInitializes
    BY ReplayNumbers DEF KInv
<1>1. /\ mode = "loading" /\ mode' = "full" /\ idle' = FALSE /\ held' = <<>> /\ swallow' = (init # 0)
      /\ UNCHANGED <<lines, taken, init, initialized, answers, stray, left, known, waited, exited>>
    BY DEF Connect
<1>2. PICK pre \in Seq(0..MaxLine + 1) :
               /\ pre = (IF init = 0 THEN <<>> ELSE <<Replay>>)
                         \o (IF init # 0 /\ initialized THEN <<ReplayInitialized>> ELSE <<>>)
               /\ \A i \in 1..Len(pre) : pre[i] \notin 1..MaxLine
               /\ init = 0 => Len(pre) = 0
               /\ init # 0 => Len(pre) > 0 /\ pre[1] = Replay
    BY <1>1, ReplayIs
<1>3. Deliver(pre \o held)
    BY <1>2 DEF Connect
<1>4. held \in Seq(0..MaxLine + 1)
    <2>1. 1..MaxLine \subseteq 0..MaxLine + 1 /\ held \in Seq(1..MaxLine)
        BY <1>0 DEF ColdTyped
    <2> QED BY <2>1, SeqMonotonic
<1> DEFINE ms == pre \o held
<1>5. /\ ms \in Seq(0..MaxLine + 1) /\ Len(ms) = Len(pre) + Len(held) /\ Len(pre) \in Nat /\ Len(held) \in Nat
      /\ \A i \in 1..Len(pre) : ms[i] = pre[i]
      /\ \A i \in 1..Len(held) : ms[Len(pre) + i] = held[i]
    BY <1>2, <1>4
<1>6. Deliver(ms)
    BY <1>3
<1> HIDE DEF ms
<1>7. sdk = <<>> /\ open = {} /\ hung = {} /\ Len(sdk) = 0
    BY <1>0, <1>1 DEF Handshake, ColdTyped
<1>8. /\ sdk' = ms /\ open' \subseteq 0..MaxLine /\ hung' \subseteq open'
      /\ \A m \in open' : \E i \in 1..Len(ms) : ms[i] = m
    <2>1. /\ sdk' = sdk \o ms /\ open' \subseteq 0..MaxLine /\ hung' \subseteq open'
          /\ \A m \in open' : m \in open \/ \E i \in 1..Len(ms) : ms[i] = m
        BY <1>0, <1>5, <1>6, DeliverIs
    <2> QED BY <1>5, <1>7, <2>1
\* A message with a number is one of the held.
<1>9. \A i \in 1..Len(ms) : ms[i] \in 1..MaxLine => i - Len(pre) \in 1..Len(held) /\ ms[i] = held[i - Len(pre)]
    <2> SUFFICES ASSUME NEW i \in 1..Len(ms), ms[i] \in 1..MaxLine
                 PROVE  i - Len(pre) \in 1..Len(held) /\ ms[i] = held[i - Len(pre)]
        OBVIOUS
    <2>1. i \notin 1..Len(pre)
        BY <1>2, <1>5
    <2>2. i - Len(pre) \in 1..Len(held)
        BY <1>5, <2>1
    <2>3. Len(pre) + (i - Len(pre)) = i
        BY <1>5
    <2> QED BY <1>5, <2>2, <2>3
<1>10. ColdTyped'
    <2>1. sdk' \in Seq(0..MaxLine + 1) /\ open' \subseteq 0..MaxLine /\ hung' \subseteq open'
        BY <1>5, <1>8
    <2>2. held' = <<>> /\ mode' \in {"cold", "loading", "full"} /\ idle' \in BOOLEAN
        BY <1>1
    <2>4. held' \in Seq(1..MaxLine)
        BY <2>2
    <2>3. swallow' \in BOOLEAN
        <3>1. swallow' = (init # 0)
            BY <1>1
        <3>2. (init # 0) \in BOOLEAN
            OBVIOUS
        <3> QED BY <3>1, <3>2
    <2> QED BY <1>0, <1>1, <2>1, <2>2, <2>3, <2>4 DEF ColdTyped
<1>11. FirstInitializes'
    BY <1>0, <1>1 DEF FirstInitializes
<1>12. TakenInOrder'
    <2>1. InOrder(ms)
        <3> SUFFICES ASSUME NEW i \in 1..Len(ms), NEW j \in 1..Len(ms), i < j, {ms[i], ms[j]} \subseteq 1..MaxLine
                     PROVE  ms[i] < ms[j]
            BY DEF InOrder
        <3> DEFINE a == i - Len(pre)
                   b == j - Len(pre)
        <3>1. a \in 1..Len(held) /\ ms[i] = held[a] /\ b \in 1..Len(held) /\ ms[j] = held[b]
            BY <1>9
        <3>2. a < b
            BY <1>5
        <3>3. {held[a], held[b]} \subseteq 1..MaxLine
            BY <3>1
        <3> HIDE DEF a, b
        <3> QED BY <1>0, <3>1, <3>2, <3>3 DEF TakenInOrder, InOrder
    <2>2. \A i \in 1..Len(ms) : ms[i] \in 1..MaxLine => ms[i] <= taken
        BY <1>0, <1>9 DEF TakenInOrder
    <2>3. \A m \in open' : m <= taken
        <3> SUFFICES ASSUME NEW m \in open' PROVE m <= taken
            OBVIOUS
        <3>1. PICK i \in 1..Len(ms) : ms[i] = m
            BY <1>8
        <3>2. CASE m = 0
            BY <1>0, <3>2 DEF ColdTyped
        <3>3. CASE m \in 1..MaxLine
            BY <2>2, <3>1, <3>3
        <3>4. m \in 0..MaxLine
            BY <1>8
        <3> QED BY <1>0, <3>2, <3>3, <3>4
    <2>4. held' = <<>> /\ Len(held') = 0
        BY <1>1
    <2> QED BY <1>1, <1>8, <2>1, <2>2, <2>3, <2>4 DEF TakenInOrder, InOrder
<1>13. Handshake'
    <2>1. CASE init = 0
        <3>1. held # <<>> /\ held[1] = 1 /\ Len(held) > 0
            BY <1>0, <1>1, <1>5, <2>1 DEF Handshake, ColdTyped
        <3>2. Len(pre) = 0 /\ 1 \in 1..Len(held) /\ Len(pre) + 1 = 1
            BY <1>2, <1>5, <2>1, <3>1
        <3>3. ms[1] = 1 /\ Len(ms) > 0
            BY <1>5, <3>1, <3>2
        <3>4. sdk' # <<>> /\ sdk'[1] = 1
            BY <1>5, <1>8, <3>3
        <3>5. Replay \notin open'
            <4> SUFFICES ASSUME Replay \in open' PROVE FALSE
                OBVIOUS
            <4>1. PICK i \in 1..Len(ms) : ms[i] = Replay
                BY <1>8
            <4>2. i \in 1..Len(held) /\ ms[i] = held[i]
                <5>1. Len(pre) + i = i /\ i \in 1..Len(held)
                    BY <1>5, <3>2
                <5> QED BY <1>5, <5>1
            <4>3. held[i] \in 1..MaxLine
                BY <4>2, HeldAre
            <4> QED BY <4>1, <4>2, <4>3, ReplayNumbers
        <3> QED BY <1>0, <1>1, <2>1, <3>4, <3>5 DEF Handshake
    <2>2. CASE init = 1
        <3>1. Len(pre) > 0 /\ pre[1] = Replay /\ 1 \in 1..Len(pre)
            BY <1>2, <1>5, <2>2
        <3>2. ms[1] = Replay /\ Len(ms) > 0
            BY <1>5, <3>1
        <3>3. sdk' # <<>> /\ sdk'[1] = Replay
            BY <1>5, <1>8, <3>2
        <3>4. mode' = "full" /\ held' = <<>> /\ idle' = FALSE /\ init' = 1 /\ taken' = taken /\ stray' = stray
            BY <1>1, <2>2
        <3>6. swallow' = (init # 0) /\ init # 0
            BY <1>1, <2>2
        <3>7. swallow'
            BY <3>6
        <3>5. taken >= 1 /\ ~stray
            BY <1>0, <2>2 DEF Handshake
        <3> QED BY <3>3, <3>4, <3>5, <3>7 DEF Handshake
    <2> QED BY <1>0, <2>1, <2>2 DEF ColdTyped
<1>14. WaitingIsUnanswered'
    <2> SUFFICES ASSUME NEW n \in 1..MaxLine, n > taken \/ n \in open' PROVE answers[n] = 0
        BY <1>0, <1>1 DEF WaitingIsUnanswered
    <2>1. CASE n > taken
        BY <1>0, <2>1 DEF WaitingIsUnanswered
    <2>2. CASE n \in open'
        <3>1. PICK i \in 1..Len(ms) : ms[i] = n
            BY <1>8, <2>2
        <3>2. \E a \in 1..Len(held) : held[a] = n
            BY <1>9, <3>1
        <3> QED BY <1>0, <3>2 DEF WaitingIsUnanswered
    <2> QED BY <2>1, <2>2
<1> QED BY <1>10, <1>11, <1>12, <1>13, <1>14 DEF KInv

\* A reply of the SDK is the only one to its line.
LEMMA SdkReplySteps == KInv /\ SdkReply => KInv'
<1> SUFFICES ASSUME KInv, SdkReply PROVE KInv'
    OBVIOUS
<1>0. ColdTyped /\ MaxLine \in Nat /\ TakenInOrder /\ Handshake /\ WaitingIsUnanswered /\ FirstInitializes
    BY ReplayNumbers DEF KInv
<1>1. UNCHANGED <<lines, taken, mode, idle, held, init, initialized, sdk, hung, left, waited, exited>>
    BY DEF SdkReply
<1>2. PICK m \in open \ hung :
          /\ open' = open \ {m}
          /\ IF m = Replay
             THEN IF swallow THEN swallow' = FALSE /\ UNCHANGED <<answers, known, stray>>
                  ELSE stray' = TRUE /\ UNCHANGED <<swallow, answers, known>>
             ELSE Answer(m) /\ UNCHANGED <<swallow, stray>>
    BY DEF SdkReply
<1>3. open' \subseteq open /\ hung \subseteq open' /\ m \notin open'
    BY <1>0, <1>2 DEF ColdTyped
<1>4. CASE m = Replay
    <2>1. swallow /\ swallow' = FALSE /\ UNCHANGED <<answers, stray>>
        BY <1>0, <1>2, <1>4 DEF Handshake
    <2>2. ColdTyped'
        BY <1>0, <1>1, <1>3, <2>1 DEF ColdTyped
    <2>3. FirstInitializes' /\ TakenInOrder' /\ WaitingIsUnanswered'
        BY <1>0, <1>1, <1>3, <2>1 DEF FirstInitializes, TakenInOrder, InOrder, WaitingIsUnanswered
    <2>4. Handshake'
        BY <1>0, <1>1, <1>3, <1>4, <2>1 DEF Handshake
    <2> QED BY <2>2, <2>3, <2>4 DEF KInv
<1>5. CASE m # Replay
    <2>1. m \in 1..MaxLine /\ m <= taken
        BY <1>0, <1>5, ReplayNumbers DEF ColdTyped, TakenInOrder
    <2>2. answers' = [answers EXCEPT ![m] = @ + 1] /\ UNCHANGED <<swallow, stray>>
        BY <1>2, <1>5 DEF Answer
    <2>3. answers[m] = 0
        BY <1>0, <2>1 DEF WaitingIsUnanswered
    <2>4. answers' \in [1..MaxLine -> Nat] /\ answers'[m] = 1 /\ \A n \in 1..MaxLine \ {m} : answers'[n] = answers[n]
        BY <1>0, <2>1, <2>2, <2>3 DEF ColdTyped
    <2>5. ColdTyped'
        BY <1>0, <1>1, <1>3, <2>2, <2>4 DEF ColdTyped
    <2>6. FirstInitializes' /\ TakenInOrder'
        BY <1>0, <1>1, <1>3, <2>2 DEF FirstInitializes, TakenInOrder, InOrder
    <2>7. Handshake'
        BY <1>0, <1>1, <1>3, <2>2 DEF Handshake
    <2>8. mode = "full" /\ Len(held) = 0 /\ taken \in Nat
        BY <1>0, <1>2 DEF Handshake, ColdTyped
    <2>9. WaitingIsUnanswered'
        <3> SUFFICES ASSUME NEW n \in 1..MaxLine
                     PROVE  answers'[n] <= 1 /\ (n > taken \/ n \in open' => answers'[n] = 0)
            BY <1>1, <2>8 DEF WaitingIsUnanswered
        <3>1. CASE n = m
            BY <1>3, <2>1, <2>4, <2>8, <3>1
        <3>2. CASE n # m
            BY <1>0, <1>3, <2>4, <3>2 DEF WaitingIsUnanswered
        <3> QED BY <3>1, <3>2
    <2> QED BY <2>5, <2>6, <2>7, <2>9 DEF KInv
<1> QED BY <1>4, <1>5

\* No step of the server or its client breaks the session.
LEMMA ColdSteps == KInv /\ [ColdNext]_coldVars => KInv'
<1> SUFFICES ASSUME KInv, [ColdNext]_coldVars PROVE KInv'
    OBVIOUS
<1>0. ColdTyped /\ TakenInOrder /\ Handshake /\ WaitingIsUnanswered /\ FirstInitializes
    BY DEF KInv
<1>1. CASE UNCHANGED <<lines, taken, mode, idle, held, init, initialized, swallow, sdk, open, hung, answers, stray>>
           /\ waited' \in 0..MaxWait
    <2>1. ColdTyped'
        BY <1>0, <1>1 DEF ColdTyped
    <2>2. (FirstInitializes /\ TakenInOrder /\ Handshake /\ WaitingIsUnanswered)'
        BY <1>0, <1>1 DEF FirstInitializes, TakenInOrder, InOrder, Handshake, WaitingIsUnanswered
    <2> QED BY <2>1, <2>2 DEF KInv
<1>2. CASE UNCHANGED coldVars
    BY <1>0, <1>1, <1>2 DEF coldVars, ColdTyped
<1>3. CASE StdinEnds \/ StdoutBreaks \/ ParentDies \/ ColdEnd \/ ColdBreak
    BY <1>0, <1>1, <1>3 DEF StdinEnds, StdoutBreaks, ParentDies, ColdEnd, ColdBreak, ColdTyped
<1>4. CASE Recheck
    <2>1. waited' \in 0..MaxWait
        BY <1>0, <1>4, ColdBounds DEF Recheck, ColdTyped, ColdBounds
    <2> QED BY <1>1, <1>4, <2>1 DEF Recheck
<1> QED BY <1>2, <1>3, <1>4, WriteSteps, ReceiveSteps, IdleSteps, ConnectSteps, SdkReplySteps DEF ColdNext

\* How the client left, and what of it the process was shown.
LeftTyped == left \subseteq {"stdin", "stdout", "parent"} /\ known \subseteq left \ {"stdin"}

\* The process is shown no departure that did not happen.
LEMMA LeftSteps == LeftTyped /\ [ColdNext]_coldVars => LeftTyped'
<1> SUFFICES ASSUME LeftTyped, [ColdNext]_coldVars PROVE LeftTyped'
    OBVIOUS
<1>1. CASE UNCHANGED <<left, known>>
    BY <1>1 DEF LeftTyped
<1>2. CASE left' = left /\ known' = known \cup (left \cap {"stdout"})
    BY <1>2 DEF LeftTyped
<1>3. Write \/ IdleLoad \/ Connect \/ ColdEnd \/ ColdBreak \/ Recheck \/ UNCHANGED coldVars => UNCHANGED <<left, known>>
    BY DEF Write, IdleLoad, Connect, ColdEnd, ColdBreak, Recheck, coldVars
<1>4. CASE StdinEnds \/ StdoutBreaks \/ ParentDies
    BY <1>4 DEF StdinEnds, StdoutBreaks, ParentDies, LeftTyped
<1>5. CASE Receive \/ SdkReply
    <2>1. left' = left
        BY <1>5 DEF Receive, SdkReply
    <2>2. UNCHANGED known \/ known' = known \cup (left \cap {"stdout"})
        BY <1>5 DEF Receive, SdkReply, Answer
    <2> QED BY <1>1, <1>2, <2>1, <2>2
<1> QED BY <1>1, <1>3, <1>4, <1>5 DEF ColdNext

\* What the invariant says to the reader.
LEMMA ColdMeans == KInv /\ LeftTyped => ColdTypeOK /\ OneSession
<1> SUFFICES ASSUME KInv, LeftTyped PROVE ColdTypeOK /\ OneSession
    OBVIOUS
<1>0. ColdTyped /\ TakenInOrder /\ Handshake /\ WaitingIsUnanswered /\ MaxLine \in Nat \ {0}
    BY ReplayNumbers DEF KInv
<1>1. ColdTypeOK
    BY <1>0 DEF ColdTyped, ColdTypeOK, LeftTyped
<1>2. sdk # <<>> => Head(sdk) = Replay \/ (Head(sdk) = 1 /\ init = 0)
    <2> SUFFICES ASSUME sdk # <<>> PROVE sdk[1] = Replay \/ (sdk[1] = 1 /\ init = 0)
        BY <1>0 DEF ColdTyped
    <2> QED BY <1>0 DEF Handshake
<1>3. ~stray /\ \A n \in 1..MaxLine : answers[n] <= 1
    BY <1>0 DEF Handshake, WaitingIsUnanswered
<1>4. InOrder(sdk)
    BY <1>0 DEF TakenInOrder
<1> QED BY <1>1, <1>2, <1>3, <1>4 DEF OneSession, InOrder

-----------------------------------------------------------------------------
(* The three in one behaviour.                                                *)

LiveInv == FInv /\ GateTyped /\ KInv /\ LeftTyped

\* What the invariants say to the reader.
LEMMA LiveMeans == LiveInv => SessionsInv
<1>1. GateTyped => GateTypeOK
    BY DEF GateTyped, GateTypeOK
<1> QED BY <1>1, FeedsMean, ColdMeans DEF LiveInv, SessionsInv, LiveTypeOK

(* A row named to a session as the next one was the first pending row after   *)
(* the call that asked had run, and the bootstrap comes once (prd-feed.js,    *)
(* continuation.js, live-state.js); and whatever was answered before the full *)
(* server was loaded, the SDK meets one session of the lines in their order   *)
(* (fast-stdio.js).                                                           *)
THEOREM SessionsKept == LiveSpec => []SessionsInv
<1>1. LiveInit => LiveInv
    <2>1. ColdInit => LeftTyped
        BY DEF ColdInit, LeftTyped
    <2> QED BY <2>1, FeedsStarts, GateStarts, ColdStarts DEF LiveInit, LiveInv
<1>2. LiveInv /\ [LiveNext]_liveVars => LiveInv'
    <2> SUFFICES ASSUME LiveInv, [LiveNext]_liveVars PROVE LiveInv'
        OBVIOUS
    <2>1. [FeedsNext]_feedVars
        BY DEF LiveNext, liveVars, Feeds_, Gates, Colds
    <2>2. [GateNext]_gateVars
        BY DEF LiveNext, liveVars, Feeds_, Gates, Colds
    <2>3. [ColdNext]_coldVars
        BY DEF LiveNext, liveVars, Feeds_, Gates, Colds
    <2> QED BY <2>1, <2>2, <2>3, FeedSteps, GateSteps, ColdSteps, LeftSteps DEF LiveInv
<1> QED BY <1>1, <1>2, LiveMeans, PTL DEF LiveSpec
================================================================================
