--------------------------------- MODULE Liveness ---------------------------------
(* What a server says of the daemon and of the queue of one project           *)
(* (dispatch.js): readDaemonLiveness reads two status files, the owner lock   *)
(* and asks for processes; scanSpoolQueue lists the verb directories and      *)
(* stats their files. The daemon goes on between any two of these.            *)
EXTENDS Naturals, FiniteSets

CONSTANTS
    Daemon,  \* processes that may serve; no pid is given again
    Request, \* requests, by the time they were sent
    VerbOf,  \* the verb directory of each
    OwnRequest,    \* the request that is asked about
    ClaimCap \* MAX_CLAIMED_DISPATCHES_PER_PROJECT

ASSUME RequestsAreOrdered ==
    Request \subseteq Nat /\ IsFiniteSet(Request) /\ OwnRequest \in Request /\ ClaimCap \in Nat

NoPid == "none"
ASSUME NoPidIsNone == NoPid \notin Daemon
NoStatus == [pid |-> NoPid, fresh |-> FALSE]

VARIABLES
    process, \* of each daemon: "new", "up", "hung", "ended"
    project, global, \* the status files: who wrote it, and whether it is fresh
    owner,   \* pid in daemon-owner.lock
    look,    \* the reading
    sureUp,  \* history: up, fresh in the global status since the reading began
    present  \* history: processes there at some time of the reading

lookVars == <<process, project, global, owner, look, sureUp, present>>

Unread == [at |-> "off", status |-> NoStatus, shared |-> NoStatus, up |-> FALSE, same |-> FALSE, alive |-> FALSE]

LooksInit ==
    /\ process = [d \in Daemon |-> "new"] /\ project = NoStatus /\ global = NoStatus /\ owner = NoPid
    /\ look = Unread /\ sureUp = {} /\ present = {}

Exists(pid) == pid \in Daemon /\ process[pid] \in {"up", "hung"}

\* The daemon owns the machine by its lock; the next one boots when it is up no more.
Boots(d) ==
    /\ process[d] = "new" /\ \A e \in Daemon : process[e] # "up"
    /\ process' = [process EXCEPT ![d] = "up"] /\ owner' = d /\ present' = present \cup {d}
    /\ UNCHANGED <<project, global, look, sureUp>>
Beats(d) ==
    /\ process[d] = "up" /\ global' = [pid |-> d, fresh |-> TRUE]
    /\ UNCHANGED <<process, project, owner, look, sureUp, present>>
Sweeps(d) ==
    /\ process[d] = "up" /\ project' = [pid |-> d, fresh |-> TRUE]
    /\ UNCHANGED <<process, global, owner, look, sureUp, present>>
GoesDown(d) ==
    /\ Exists(d)
    /\ \E state \in {"hung", "ended"} : process' = [process EXCEPT ![d] = state]
    /\ sureUp' = sureUp \ {d}
    /\ UNCHANGED <<project, global, owner, look, present>>

\* An idle project is not swept for long; the shared beat of a daemon that is up is fresh.
ProjectAges ==
    /\ project.fresh /\ project' = [project EXCEPT !.fresh = FALSE]
    /\ UNCHANGED <<process, global, owner, look, sureUp, present>>
SharedAges ==
    /\ global.fresh /\ process[global.pid] # "up" /\ global' = [global EXCEPT !.fresh = FALSE]
    /\ UNCHANGED <<process, project, owner, look, sureUp, present>>

\* globalDaemonPid
SharedPid == IF Exists(global.pid) THEN global.pid ELSE IF Exists(owner) THEN owner ELSE NoPid

Reads(record) == look' = record /\ UNCHANGED <<process, project, global, owner>>

\* No status: a cold project is told that it is one.
ReadsStatus ==
    /\ look.at = "off" /\ project # NoStatus
    /\ Reads([Unread EXCEPT !.at = "shared", !.status = project])
    /\ sureUp' = {d \in Daemon : process[d] = "up" /\ global = [pid |-> d, fresh |-> TRUE]}
    /\ present' = {d \in Daemon : Exists(d)}
ReadsShared ==
    /\ look.at = "shared" /\ Reads([look EXCEPT !.at = "pid", !.shared = global])
    /\ UNCHANGED <<sureUp, present>>
ChecksPid ==
    /\ look.at = "pid" /\ Reads([look EXCEPT !.at = "same", !.up = Exists(look.status.pid)])
    /\ UNCHANGED <<sureUp, present>>
ChecksSame ==
    /\ look.at = "same"
    /\ Reads([look EXCEPT !.at = "verdict",
                 !.same = look.status.pid = look.shared.pid \/ look.status.pid = SharedPid])
    /\ UNCHANGED <<sureUp, present>>

\* Mutants of Alive: a sweep by a process that is gone does for one; the shared daemon does not.
AliveAlone == look.up /\ (look.status.fresh \/ look.same)
Alive == (look.up /\ (look.status.fresh \/ look.same)) \/ (SharedPid # NoPid /\ look.shared.fresh)

Concludes ==
    /\ look.at = "verdict" /\ Reads([look EXCEPT !.at = "said", !.alive = Alive])
    /\ UNCHANGED <<sureUp, present>>

LookStep ==
    \/ \E d \in Daemon : Boots(d) \/ Beats(d) \/ Sweeps(d) \/ GoesDown(d)
    \/ ProjectAges \/ SharedAges
    \/ ReadsStatus \/ ReadsShared \/ ChecksPid \/ ChecksSame \/ Concludes

-----------------------------------------------------------------------------
(* The queue.                                                                *)

VARIABLES
    spool,  \* where each request is: "unsent", "in", "inflight", "done"
    scan,   \* the scan
    before, \* history: requests waiting when the scan began
    full    \* history: claimed ever since the scan began

scanVars == <<spool, scan, before, full>>

Unscanned == [at |-> "off", dirs |-> {}, files |-> {}, claimed |-> 0, waiting |-> 0, ahead |-> 0,
              aged |-> {}, old |-> FALSE, queued |-> FALSE, stalled |-> FALSE]

Claimed == {r \in Request : spool[r] = "inflight"}

ScanInit ==
    /\ spool \in [Request -> {"unsent", "in", "inflight"}] /\ scan = Unscanned
    /\ Cardinality(Claimed) <= ClaimCap
    /\ before = {} /\ full = {}

Unclaimed(S) == {r \in S : spool[r] = "in"}

\* A request is sent later than those there; the runner keeps to its cap.
Sends(r) ==
    /\ spool[r] = "unsent" /\ \A q \in Request : q > r => spool[q] = "unsent"
    /\ spool' = [spool EXCEPT ![r] = "in"]
    /\ UNCHANGED <<scan, before, full>>
ClaimsRequest(r) ==
    /\ spool[r] = "in" /\ Cardinality(Claimed) < ClaimCap
    /\ spool' = [spool EXCEPT ![r] = "inflight"]
    /\ UNCHANGED <<scan, before, full>>
AnswersRequest(r) ==
    /\ spool[r] = "inflight"
    /\ spool' = [spool EXCEPT ![r] = "done"] /\ full' = full \ {r}
    /\ UNCHANGED <<scan, before>>

Scans(record) == scan' = record /\ UNCHANGED <<spool, before, full>>

\* Some of what waits is past the sweep bound.
BeginsScan ==
    /\ scan.at = "off" /\ spool[OwnRequest] # "unsent"
    /\ \E aged \in SUBSET Unclaimed(Request) :
          scan' = [Unscanned EXCEPT !.at = "list", !.dirs = {VerbOf[r] : r \in Request},
                                    !.queued = spool[OwnRequest] = "in", !.aged = aged]
    /\ before' = Unclaimed(Request) /\ full' = Claimed
    /\ UNCHANGED spool

ListsVerb(v) ==
    /\ scan.at = "list" /\ scan.files = {} /\ v \in scan.dirs
    /\ LET files == {r \in Request : VerbOf[r] = v}
       IN Scans([scan EXCEPT !.dirs = @ \ {v}, !.files = Unclaimed(files),
                             !.claimed = @ + Cardinality(files \cap Claimed),
                             !.waiting = @ + Cardinality(Unclaimed(files))])

Ahead(r) == r < OwnRequest

\* A file claimed since it was listed has no time.
StatsFile(r) ==
    /\ r \in scan.files
    /\ Scans([scan EXCEPT !.files = @ \ {r},
                          !.old = @ \/ (spool[r] = "in" /\ r \in scan.aged),
                          !.ahead = IF scan.queued /\ spool[r] = "in" /\ Ahead(r) THEN @ + 1 ELSE @])

\* claimSweepStall
Stalled == scan.queued /\ scan.claimed < ClaimCap /\ scan.old

EndsScan ==
    /\ scan.at = "list" /\ scan.dirs = {} /\ scan.files = {}
    /\ Scans([scan EXCEPT !.at = "said", !.stalled = Stalled])

ScanStep ==
    \/ \E r \in Request : Sends(r) \/ ClaimsRequest(r) \/ AnswersRequest(r) \/ StatsFile(r) \/ ListsVerb(VerbOf[r])
    \/ BeginsScan \/ EndsScan

-----------------------------------------------------------------------------
LivenessTypeOK ==
    /\ process \in [Daemon -> {"new", "up", "hung", "ended"}]
    /\ {project.pid, global.pid, owner} \subseteq Daemon \cup {NoPid} /\ sureUp \subseteq present
    /\ spool \in [Request -> {"unsent", "in", "inflight", "done"}]
    /\ scan.claimed + scan.waiting <= Cardinality(Request)

(* A project that one daemon served from the first read to the last is told  *)
(* so, and one is called alive only if a daemon was there at some time of    *)
(* the reading, whichever files are stale, rewritten or of another daemon.   *)
LivenessTrue ==
    look.at = "said" => (sureUp # {} => look.alive) /\ (look.alive => present # {})

(* A scan counts ahead of a request no more than waited when it began and no *)
(* less than still waits; and it calls the sweep stalled only if an old      *)
(* request waited and the claims were not full all along.                    *)
QueueMeasured ==
    scan.at = "said" =>
        /\ scan.ahead <= Cardinality({r \in before : r < OwnRequest})
        /\ scan.queued => scan.ahead >= Cardinality({r \in before : r < OwnRequest /\ spool[r] = "in"})
        /\ scan.stalled => Cardinality(full) < ClaimCap /\ before # {}

(* The state is typed, and what is said of the daemon and the queue is true. *)
LivenessInv == LivenessTypeOK /\ LivenessTrue /\ QueueMeasured
================================================================================
