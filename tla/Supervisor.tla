------------------------------- MODULE Supervisor -------------------------------
(***************************************************************************)
(* bin/gm-supervise.js: one stdio connection to an MCP host and a gm-mcp   *)
(* child behind it, replaced when the bundle on disk changes and restarted *)
(* when it crashes.                                                        *)
(*                                                                         *)
(* The program is a single-threaded event loop.  An action is one event    *)
(* handler together with the promise continuations that run before the    *)
(* next event: a host line, a child line, a child exit, a timer.  An await *)
(* that yields to the loop (the hash of the bundle, the handshake, the     *)
(* drain, the old child's exit) separates two actions.                     *)
(***************************************************************************)
EXTENDS Naturals, FiniteSets

CONSTANTS Req,         \* ids of the requests the host sends, each sent once
          Inits,       \* those whose method is initialize
          MaxGen,      \* bound on generation: children spawned
          MaxCrashes,  \* bound on child crashes
         MaxFailures, \* bound on handshakes that time out or answer an error, and on failed reads of the bundle
          MaxChanges   \* bound on new bundles written to disk

ASSUME InitsAssumption == Inits \subseteq Req
ASSUME BoundAssumption == /\ MaxGen \in Nat \ {0}
                          /\ {MaxCrashes, MaxFailures, MaxChanges} \subseteq Nat

Gen  == 1..MaxGen
Sha  == 0..MaxChanges       \* every new bundle has a hash of its own
NoSha == MaxChanges + 1     \* null

VARIABLES
    generation,   \* the last child spawned
    kid,          \* [Gen -> state of that child process]
    loaded,       \* [Gen -> bundle it was started from]  (history)
    active,       \* the child host lines go to
    draining,     \* the replaced child whose answers still count, 0 for null
    paused,       \* host lines are queued
    stopping,     \* shutdown has begun
    timer,        \* restartTimer is set
    restarting,   \* children restartChild awaits the handshake of
    swap,         \* where swapTo stands, with its old and fresh child and its sha
    polling,      \* pollBundle is running
    runningSha, candidateSha, rejectedSha,
    disk,         \* hash of the bundle on disk
    initRequest,  \* an initialize request was seen
    initResponse, \* its response was seen
    inflight,     \* [Req -> generation it waits on, 0 when not in flight]
    hostQueue,    \* requests that arrived while paused
    asked,        \* [Gen -> requests written to that child's stdin, unanswered]
    sent,         \* requests the host has sent
    replies,      \* [Req -> replies written to the host]  (history)
    crossed,      \* a swap has begun while a restart was due  (history)
    relic,        \* the last child a failed swap went back to after it had exited, or 0  (history)
    crashes, failures, changes

kidVars  == <<generation, kid, loaded>>
roleVars == <<active, draining, paused>>
swapVars == <<swap, polling, candidateSha, rejectedSha, runningSha>>
wireVars == <<inflight, hostQueue, asked, sent, replies, initRequest, initResponse>>
envVars  == <<disk, crashes, failures, changes>>
pastVars == <<crossed, relic>>
vars == <<kidVars, roleVars, stopping, timer, restarting, swapVars, wireVars, envVars, pastVars>>

NoSwap == [at |-> "none", old |-> 0, fresh |-> 0, sha |-> NoSha]

Init == /\ generation = 1
        /\ kid    = [g \in Gen |-> IF g = 1 THEN "alive" ELSE "unborn"]
        /\ loaded = [g \in Gen |-> 0]
        /\ active = 1 /\ draining = 0 /\ paused = FALSE
        /\ stopping = FALSE /\ timer = FALSE /\ restarting = {}
        /\ swap = NoSwap /\ polling = FALSE
        /\ runningSha = 0 /\ candidateSha = NoSha /\ rejectedSha = NoSha
        /\ disk = 0
        /\ initRequest = FALSE /\ initResponse = FALSE
        /\ inflight  = [r \in Req |-> 0]
        /\ hostQueue = {}
        /\ asked   = [g \in Gen |-> {}]
        /\ sent    = {}
        /\ replies = [r \in Req |-> 0]
        /\ crossed = FALSE /\ relic = 0
        /\ crashes = 0 /\ failures = 0 /\ changes = 0

-----------------------------------------------------------------------------
(* routeHost for a set of requests, given the child they go to and the      *)
(* in-flight table they meet.  A repeated initialize is answered from the   *)
(* stored response.  Writing to a child that has exited reaches nobody.     *)

Cached(lines) == IF initResponse THEN lines \cap Inits ELSE {}

Route(lines, to, table, answered) ==
    LET new == lines \ Cached(lines) IN
    /\ inflight' = [r \in Req |-> IF r \in new THEN to ELSE table[r]]
    /\ asked'    = [asked EXCEPT ![to] = IF kid'[to] = "alive" THEN @ \cup new ELSE @]
    /\ replies'  = [r \in Req |-> replies[r]
                        + (IF r \in Cached(lines) THEN 1 ELSE 0)
                        + (IF r \in answered THEN 1 ELSE 0)]
    /\ initRequest' = (initRequest \/ new \cap Inits # {})

\* Mutant: the entries are deleted and no error is written.
Nobody(g) == {}

\* failInflight: every request that waits on a child gets an error reply.
WaitingOn(g)  == {r \in Req : inflight[r] = g}
Failed(g)     == [r \in Req |-> IF inflight[r] = g THEN 0 ELSE inflight[r]]

\* Mutant: the gate opens and the queued host lines stay queued.
FlushNothing(to, table, answered) == Route({}, to, table, answered) /\ UNCHANGED hostQueue

\* flushHost after paused was cleared: nothing is routed once stopping.
Flush(to, table, answered) ==
    IF stopping
    THEN Route({}, to, table, answered) /\ UNCHANGED hostQueue
    ELSE Route(hostQueue, to, table, answered) /\ hostQueue' = {}

Keep(table, answered) == Route({}, active, table, answered) /\ UNCHANGED hostQueue

\* onHostLine
HostSends(r) ==
    /\ r \notin sent
    /\ sent = {} => r \in Inits
    /\ sent' = sent \cup {r}
    /\ UNCHANGED kidVars
    /\ IF paused
       THEN /\ hostQueue' = hostQueue \cup {r}
            /\ UNCHANGED <<inflight, asked, replies, initRequest>>
       ELSE Route({r}, active, inflight, {}) /\ UNCHANGED hostQueue
    /\ UNCHANGED <<roleVars, stopping, timer, restarting, swapVars, initResponse, envVars, pastVars>>

\* Mutant: an answer is written to the host without a look at the in-flight table.
HeardUnmatched(g, r) == g \in {active, draining}

Heard(g, r) == inflight[r] = g /\ g \in {active, draining}

\* onChildLine, for the answer to a host request: a line the child wrote before it
\* exited may be read after the exit.
ChildAnswers(g, r) ==
    /\ r \in asked[g]
    /\ inflight' = [inflight EXCEPT ![r] = IF @ = g THEN 0 ELSE @]
    /\ initResponse' = (initResponse \/ (inflight[r] = g /\ r \in Inits))
    /\ replies' = [replies EXCEPT ![r] = IF Heard(g, r) THEN @ + 1 ELSE @]
    /\ asked' = [asked EXCEPT ![g] = @ \ {r}]
    /\ UNCHANGED <<kidVars, roleVars, stopping, timer, restarting, swapVars, envVars,
                   hostQueue, sent, initRequest, pastVars>>

-----------------------------------------------------------------------------
Spawn == /\ generation < MaxGen
         /\ generation' = generation + 1
         /\ kid'    = [kid EXCEPT ![generation + 1] = "alive"]
         /\ loaded' = [loaded EXCEPT ![generation + 1] = disk]

\* scheduleRestart
Scheduled == timer \/ ~stopping

\* pollBundle up to its await
PollBegins ==
    /\ ~polling /\ ~paused /\ ~stopping /\ initRequest
    /\ polling' = TRUE
    /\ swap' = [NoSwap EXCEPT !.at = "hash"]
    /\ UNCHANGED <<kidVars, roleVars, stopping, timer, restarting, runningSha,
                   candidateSha, rejectedSha, wireVars, envVars, pastVars>>

PollSettles ==
    /\ swap.at = "hash"
    /\ disk \in {runningSha, rejectedSha} \/ disk # candidateSha
    /\ candidateSha' = IF disk \in {runningSha, rejectedSha} THEN NoSha ELSE disk
    /\ polling' = FALSE
    /\ swap' = NoSwap
    /\ UNCHANGED <<kidVars, roleVars, stopping, timer, restarting, runningSha,
                   rejectedSha, wireVars, envVars, pastVars>>

\* bundleSha rejects: the candidate stays.
PollFails ==
    /\ swap.at = "hash"
    /\ failures < MaxFailures
    /\ failures' = failures + 1
    /\ polling' = FALSE
    /\ swap' = NoSwap
    /\ UNCHANGED <<kidVars, roleVars, stopping, timer, restarting, runningSha, candidateSha,
                   rejectedSha, wireVars, disk, crashes, changes, pastVars>>

\* pollBundle after its await, into swapTo up to the handshake: neither looks at paused.
SwapBegins ==
    /\ swap.at = "hash"
    /\ disk \notin {runningSha, rejectedSha} /\ disk = candidateSha
    /\ candidateSha' = NoSha
    /\ paused' = TRUE
    /\ Spawn
    /\ swap' = [at |-> "handshake", old |-> active, fresh |-> generation + 1, sha |-> disk]
    /\ crossed' = (crossed \/ paused)
    /\ UNCHANGED <<active, draining, stopping, timer, restarting, polling, runningSha,
                   rejectedSha, wireVars, envVars, relic>>

GoesBack == relic' = (IF kid[active] = "exited" THEN active ELSE relic) /\ UNCHANGED crossed

\* Mutant: a failed swap leaves pollBundle marked as running.
AbandonSwapPolling ==
    /\ rejectedSha' = swap.sha
    /\ paused'  = FALSE
    /\ Flush(active, inflight, {})
    /\ swap'    = NoSwap
    /\ GoesBack
    /\ UNCHANGED <<active, draining, stopping, timer, restarting, runningSha, candidateSha,
                   polling, sent, initResponse>>

\* swapTo when the handshake is rejected: the old child is kept, whether it has exited or not.
AbandonSwap ==
    /\ rejectedSha' = swap.sha
    /\ paused'  = FALSE
    /\ Flush(active, inflight, {})
    /\ swap'    = NoSwap
    /\ polling' = FALSE
    /\ GoesBack
    /\ UNCHANGED <<active, draining, stopping, timer, restarting, runningSha, candidateSha,
                   sent, initResponse>>

\* restartChild when the handshake is rejected
RetryRestart(g) ==
    /\ restarting' = restarting \ {g}
    /\ timer' = Scheduled
    /\ Keep(inflight, {})
    /\ UNCHANGED <<roleVars, stopping, swapVars, sent, initResponse, pastVars>>

\* restartChild when the handshake is answered
FinishRestart(g) ==
    /\ restarting' = restarting \ {g}
    /\ active' = g
    /\ paused' = FALSE
    /\ Flush(g, inflight, {})
    /\ UNCHANGED <<draining, stopping, timer, swapVars, sent, initResponse, pastVars>>

Running(g) == kid[g] \in {"alive", "ending"}
Shaking(g) == (swap.at = "handshake" /\ swap.fresh = g) \/ g \in restarting

HandshakeAnswered(g) ==
    /\ Running(g)
    /\ Shaking(g)
    /\ UNCHANGED <<kidVars, envVars>>
    /\ IF g \in restarting
       THEN FinishRestart(g)
       ELSE /\ swap' = [swap EXCEPT !.at = "drain"]
            /\ UNCHANGED <<roleVars, stopping, timer, restarting, wireVars, polling,
                           runningSha, candidateSha, rejectedSha, pastVars>>

\* Mutant: the child whose handshake failed is left running.
LeaveChild(g) == UNCHANGED kid

StopChild(g) == kid' = [kid EXCEPT ![g] = IF @ = "alive" THEN "ending" ELSE @]

\* An error answer to initialize, or none within HANDSHAKE_TIMEOUT_MS.
HandshakeFails(g) ==
    /\ failures < MaxFailures
    /\ Running(g)
    /\ Shaking(g)
    /\ failures' = failures + 1
    /\ StopChild(g)
    /\ UNCHANGED <<generation, loaded, disk, crashes, changes>>
    /\ IF g \in restarting THEN RetryRestart(g) ELSE AbandonSwap

FreshExited == kid[swap.fresh] = "exited"

\* waitForDrain resolves: nothing is in flight on the old child, or DRAIN_MAX_MS is over.
SwapDrained ==
    /\ swap.at = "drain"
    /\ active'     = swap.fresh
    /\ runningSha' = swap.sha
    /\ StopChild(swap.old)
    /\ draining' = swap.old
    /\ swap' = [swap EXCEPT !.at = "stop"]
    /\ IF FreshExited
       THEN /\ timer' = Scheduled
            /\ UNCHANGED paused
            /\ Keep(Failed(swap.old), WaitingOn(swap.old))
       ELSE /\ paused' = FALSE
            /\ UNCHANGED timer
            /\ Flush(swap.fresh, Failed(swap.old), WaitingOn(swap.old))
    /\ UNCHANGED <<generation, loaded, stopping, restarting, polling, candidateSha, rejectedSha,
                   sent, initResponse, envVars, pastVars>>

SwapEnds ==
    /\ swap.at = "stop"
    /\ kid[swap.old] = "exited"
    /\ draining' = 0
    /\ swap'     = NoSwap
    /\ polling'  = FALSE
    /\ UNCHANGED <<kidVars, active, paused, stopping, timer, restarting, runningSha, candidateSha,
                   rejectedSha, wireVars, envVars, pastVars>>

RestartFires ==
    /\ timer /\ ~stopping
    /\ timer' = FALSE
    /\ Spawn
    /\ IF initRequest
       THEN /\ restarting' = restarting \cup {generation + 1}
            /\ UNCHANGED <<roleVars, wireVars>>
       ELSE /\ active' = generation + 1
            /\ paused' = FALSE
            /\ Flush(generation + 1, inflight, {})
            /\ UNCHANGED <<draining, restarting, sent, initResponse>>
    /\ UNCHANGED <<stopping, swapVars, envVars, pastVars>>

-----------------------------------------------------------------------------
(* onChildExit, and the continuation of whoever awaits this child's         *)
(* handshake.  A request is failed only if it waits on this child.          *)

Gone(g) == kid' = [kid EXCEPT ![g] = "exited"] /\ UNCHANGED <<generation, loaded>>

ActiveExits(g) ==
    /\ g = active /\ ~paused /\ ~stopping
    /\ paused' = TRUE
    /\ timer'  = TRUE
    /\ Keep(Failed(g), WaitingOn(g))
    /\ UNCHANGED <<active, draining, stopping, restarting, swapVars, sent, initResponse, pastVars>>

OtherExits(g) ==
    /\ g # active \/ paused \/ stopping
    /\ IF g \in restarting THEN RetryRestart(g)
       ELSE IF swap.at = "handshake" /\ swap.fresh = g THEN AbandonSwap
       ELSE /\ Keep(Failed(g), WaitingOn(g))
            /\ UNCHANGED <<roleVars, stopping, timer, restarting, swapVars, sent, initResponse, pastVars>>

ChildCrashes(g) ==
    /\ kid[g] = "alive"
    /\ crashes < MaxCrashes
    /\ crashes' = crashes + 1
    /\ Gone(g)
    /\ ActiveExits(g) \/ OtherExits(g)
    /\ UNCHANGED <<disk, failures, changes>>

\* A child that was told to stop exits, or is killed after the grace.
ChildStops(g) ==
    /\ kid[g] = "ending"
    /\ Gone(g)
    /\ ActiveExits(g) \/ OtherExits(g)
    /\ UNCHANGED envVars

\* shutdown: a signal, the host's stdin or stdout is gone.
Shutdown ==
    /\ ~stopping
    /\ stopping' = TRUE
    /\ timer' = FALSE
    /\ kid' = [g \in Gen |-> IF kid[g] = "alive" THEN "ending" ELSE kid[g]]
    /\ UNCHANGED <<generation, loaded, roleVars, restarting, swapVars, wireVars, envVars, pastVars>>

BundleChanges ==
    /\ changes < MaxChanges
    /\ changes' = changes + 1
    /\ disk' = changes + 1
    /\ UNCHANGED <<kidVars, roleVars, stopping, timer, restarting, swapVars, wireVars,
                   crashes, failures, pastVars>>

-----------------------------------------------------------------------------
SwapStep  == PollBegins \/ PollSettles \/ PollFails \/ SwapBegins \/ SwapDrained \/ SwapEnds
ChildStep(g) == HandshakeAnswered(g) \/ ChildStops(g) \/ \E r \in Req : ChildAnswers(g, r)

Next ==
    \/ \E r \in Req : HostSends(r)
    \/ SwapStep \/ RestartFires \/ Shutdown \/ BundleChanges
    \/ \E g \in Gen : ChildStep(g) \/ HandshakeFails(g) \/ ChildCrashes(g)

Spec == Init /\ [][Next]_vars

(* Timers fire, the file system answers, and a child that is not stopped    *)
(* answers what it was asked.                                               *)
Fairness ==
    /\ WF_vars(PollBegins) /\ WF_vars(PollSettles) /\ WF_vars(SwapBegins)
    /\ WF_vars(SwapDrained) /\ WF_vars(SwapEnds) /\ WF_vars(RestartFires)
    /\ \A g \in Gen : WF_vars(HandshakeAnswered(g)) /\ WF_vars(ChildStops(g))
    /\ \A g \in Gen, r \in Req : WF_vars(ChildAnswers(g, r))

FairSpec == Spec /\ Fairness

-----------------------------------------------------------------------------
(* Properties.                                                              *)

TypeOK ==
    /\ generation \in Gen
    /\ kid \in [Gen -> {"unborn", "alive", "ending", "exited"}]
    /\ loaded \in [Gen -> Sha]
    /\ active \in Gen
    /\ draining = IF swap.at = "stop" THEN swap.old ELSE 0
    /\ polling <=> swap.at # "none"
    /\ {paused, stopping, timer, polling, initRequest, initResponse} \subseteq BOOLEAN
    /\ restarting \in SUBSET Gen
    /\ swap \in [at : {"none", "hash", "handshake", "drain", "stop"}, old : Gen \cup {0},
                 fresh : Gen \cup {0}, sha : Sha \cup {NoSha}]
    /\ {runningSha, candidateSha, rejectedSha} \subseteq Sha \cup {NoSha}
    /\ disk \in Sha
    /\ inflight \in [Req -> Gen \cup {0}]
    /\ hostQueue \in SUBSET Req
    /\ asked \in [Gen -> SUBSET Req]
    /\ sent \in SUBSET Req
    /\ replies \in [Req -> Nat]
    /\ crossed \in BOOLEAN /\ relic \in Gen \cup {0}
    /\ crashes \in 0..MaxCrashes /\ failures \in 0..MaxFailures /\ changes \in 0..MaxChanges

(* The host never gets two replies to one request, however a crash, a       *)
(* drain deadline and a late answer of the replaced child fall.             *)
AtMostOneReply == \A r \in Req : replies[r] <= 1

(* A request that is in flight or queued has had no reply, and one that was *)
(* sent and is neither has had its reply: nothing falls between the two.    *)
NoRequestForgotten ==
    \A r \in sent : replies[r] = 0 <=> (inflight[r] # 0 \/ r \in hostQueue)

(* Host lines are let through only to a child that is there to read them.   *)
OpenMeansServed == ~paused /\ ~stopping => kid[active] = "alive"

(* Once no swap or restart is under way, the active child is the only one   *)
(* that was not told to stop: "runs exactly one gm-mcp child behind it".    *)
Settled == swap.at \in {"none", "hash"} /\ restarting = {} /\ ~timer /\ ~paused /\ ~stopping
OnlyOneChild == Settled => \A g \in Gen : kid[g] = "alive" => g = active

(* Every request the host sends is answered, by the child or by an error    *)
(* that says to resend it, unless the supervisor is shut down, a swap has   *)
(* begun over a restart, or one has failed back to a child that had exited. *)
EveryRequestAnswered ==
    \A r \in Req : r \in sent ~> replies[r] > 0 \/ stopping \/ crossed \/ relic # 0

(* A new bundle on disk is served or was refused by its own handshake, but   *)
(* for a swap that has begun over a restart: the child that was restarted    *)
(* from the old bundle may take the place of the new one's.                  *)
InstalledBundleServed ==
    \A s \in Sha : disk = s ~>
        \/ loaded[active] = s /\ kid[active] = "alive"
        \/ rejectedSha = s \/ disk # s \/ stopping \/ ~initRequest \/ crossed

(* No request gets two replies; and none falls between the supervisor's      *)
(* queue, the child and the host, as long as no swap has begun while a       *)
(* restart was due: the answers of the child that was restarted are dropped  *)
(* once the swap has put its own in its place.                               *)
RepliesInv == AtMostOneReply /\ (~crossed => NoRequestForgotten)

(* The state is typed. As long as no swap has begun while a restart was due, *)
(* there is one child once things have settled, and what is let through has  *)
(* a child to read it, but for the child that had exited when a failed swap  *)
(* went back to it.                                                          *)
ChildrenInv ==
    /\ TypeOK
    /\ ~crossed => OnlyOneChild /\ (active # relic => OpenMeansServed)
================================================================================
