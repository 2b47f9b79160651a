------------------------------ MODULE SelfUpdate ------------------------------
(* How gm-mcp processes keep the deployed bundle current (self-update.js).    *)
(* Every process checks at its own pace: it probes the head of main, fetches  *)
(* the bundle of that commit (or of raw main when no probe answers) and swaps *)
(* it in. The deployed bundle, the stamp of the last check, the cache of its  *)
(* validators and the local-build pin are files all processes share; between  *)
(* the awaits of one check the others, the developer and upstream go on.      *)
(* A bundle is its sha256. The .prev backup is left out.                      *)
EXTENDS Naturals

CONSTANTS
    Proc,       \* gm-mcp processes
    Cli,        \* those that run self-update-now; the others are servers
    Mortal,     \* those that end and are launched again
    Build,      \* bundles
    LastCommit, \* commits of main are 1..LastCommit
    BundleAt,   \* the bundle each commit holds
    VersionOf,  \* BUNDLE_VERSION of each bundle
    LocalBuild, \* bundles a developer copies over the deployed one
    Pinnable,   \* bundles a developer may pin
    Images,     \* bundles the processes were started from, also out of a checkout
    None

Commit == 1..LastCommit

BuildAssumption ==
    /\ LastCommit \in Nat \ {0}
    /\ BundleAt \in [Commit -> Build]
    /\ VersionOf \in [Build -> Nat]
    /\ LocalBuild \subseteq Build /\ Pinnable \subseteq Build /\ Images \subseteq Build
    /\ Cli \subseteq Proc /\ Mortal \subseteq Proc
    /\ None \notin Build /\ None \notin Commit
ASSUME BuildAssumption

VARIABLES
    tip,        \* head commit of main
    deployed,   \* the deployed bundle, None when the file is missing
    pin,        \* sha256 in the local-build pin file
    stamp,      \* the .checked file is younger than the check interval
    cache,      \* the .fetched.json file
    image,      \* image[p]: the bundle p runs, hence its BUNDLE_VERSION
    deferral,   \* swapDeferralStartedAt: "none", "running", "expired"
    check,      \* the check each process is in
    current,    \* its last check, if none runs, reported "current"
    mains       \* history: bundles main had since the check began

filesVars == <<tip, deployed, pin, stamp, cache>>
procVars  == <<image, deferral, check, current, mains>>
vars      == <<filesVars, procVars>>

NoCache == [sha |-> None, commit |-> None, validator |-> FALSE]
NoCheck == [at |-> "idle", from |-> None, cached |-> NoCache, head |-> None, etag |-> FALSE,
            full |-> FALSE, fresh |-> None]

Init ==
    /\ tip = 1
    /\ deployed \in {BundleAt[1], None}
    /\ pin = None
    /\ stamp = FALSE
    /\ cache = NoCache
    /\ image \in [Proc -> Images]
    /\ deferral = [p \in Proc |-> "none"]
    /\ check    = [p \in Proc |-> NoCheck]
    /\ current  = [p \in Proc |-> FALSE]
    /\ mains    = [p \in Proc |-> {}]

At(p, stage) == check[p].at = stage

Goes(p, stage) == check' = [check EXCEPT ![p].at = stage]

\* A check ends: its locals are gone, its outcome is reported.
Ends(p, outcome) ==
    /\ check'   = [check EXCEPT ![p] = NoCheck]
    /\ mains'   = [mains EXCEPT ![p] = {}]
    /\ current' = [current EXCEPT ![p] = outcome = "current"]

WriteCache(record) ==
    /\ cache' = record
    /\ stamp' = TRUE

-----------------------------------------------------------------------------
(* A check begins on a tick of the interval or as the retry of a deferred   *)
(* one, which starts the same check again; self-update-now is the check of  *)
(* a process of its own, which ignores the stamp and what is cached. A      *)
(* process that was rate limited asks git at once until GitHub's reset.     *)

Suppressed(p) ==
    \/ p \notin Cli /\ stamp
    \/ deployed # None /\ pin = deployed

Begin(p) ==
    /\ At(p, "idle")
    /\ ~Suppressed(p)
    /\ \E backingOff \in BOOLEAN :
          check' = [check EXCEPT ![p] =
              [NoCheck EXCEPT !.at     = IF backingOff THEN "git" ELSE "api",
                              !.from   = deployed,
                              !.cached = IF p \in Cli THEN NoCache ELSE cache]]
    /\ mains' = [mains EXCEPT ![p] = {BundleAt[tip]}]
    /\ current' = [current EXCEPT ![p] = FALSE]
    /\ UNCHANGED <<filesVars, image, deferral>>

\* Mutant of NotModified: the cached bundle is not compared with the deployed one.
NotModifiedByTip(c, commit) ==
    c.cached.commit = commit /\ c.from # None

(* probeHeadOrNull. Not modified: the tip is still the cached commit, and   *)
(* what that commit holds is what was deployed when the check began.        *)
NotModified(c, commit) ==
    c.cached.commit = commit /\ c.from # None /\ c.cached.sha = c.from

Fetch(p, commit, etag, full) ==
    check' = [check EXCEPT ![p] = [NoCheck EXCEPT !.at = "fetch", !.from = check[p].from,
                                   !.head = commit, !.etag = etag, !.full = full]]

ProbeCurrent(p) ==
    /\ \/ At(p, "api") /\ check[p].cached.validator
       \/ At(p, "git")
    /\ NotModified(check[p], tip)
    /\ WriteCache(check[p].cached)
    /\ Ends(p, "current")
    /\ UNCHANGED <<tip, deployed, pin, image, deferral>>

ProbeAnswers(p) ==
    /\ At(p, "api")
    /\ ~(check[p].cached.validator /\ NotModified(check[p], tip))
    /\ Fetch(p, tip, TRUE, FALSE)
    /\ UNCHANGED <<filesVars, image, deferral, current, mains>>

ProbeFails(p) ==
    /\ At(p, "api")
    /\ Goes(p, "git")
    /\ UNCHANGED <<filesVars, image, deferral, current, mains>>

GitAnswers(p) ==
    /\ At(p, "git")
    /\ ~NotModified(check[p], tip)
    /\ Fetch(p, tip, FALSE, FALSE)
    /\ UNCHANGED <<filesVars, image, deferral, current, mains>>

(* Neither probe answers: raw main is fetched, unconditionally when the     *)
(* cached etag is not one of the deployed bundle or is too old.             *)
GitFails(p) ==
    /\ At(p, "git")
    /\ \E aged \in BOOLEAN :
          Fetch(p, None, FALSE, check[p].from = None \/ check[p].cached.sha # check[p].from \/ aged)
    /\ UNCHANGED <<filesVars, image, deferral, current, mains>>

-----------------------------------------------------------------------------
(* The answer of the fetch, and what is done with it before the next await. *)

Fetched(c) == BundleAt[IF c.head # None THEN c.head ELSE tip]

\* The etag offered is that of the deployed bundle.
Unmodified(c) == c.head = None /\ ~c.full /\ Fetched(c) = c.from

\* Mutant of CacheRecord: a fallback fetch leaves the last validators in the file.
CacheRecordKeepsValidator(c, sha) ==
    [sha |-> sha,
     commit |-> IF c.head = None THEN cache.commit ELSE c.head,
     validator |-> IF c.head = None THEN cache.validator ELSE c.etag]

\* The validators of a probe are kept only with the bundle fetched by its commit.
CacheRecord(c, sha) ==
    [sha |-> sha, commit |-> c.head, validator |-> c.head # None /\ c.etag]

FetchCurrent(p) ==
    /\ At(p, "fetch")
    /\ Unmodified(check[p]) \/ Fetched(check[p]) = check[p].from
    /\ WriteCache(CacheRecord(check[p], check[p].from))
    /\ Ends(p, "current")
    /\ UNCHANGED <<tip, deployed, pin, image, deferral>>

Differs(p) ==
    At(p, "fetch") /\ ~Unmodified(check[p]) /\ Fetched(check[p]) # check[p].from

\* versionGuardReason: the installed version it compares with is that of the running image.
Older(p) == VersionOf[Fetched(check[p])] < VersionOf[image[p]]

FetchRefused(p) ==
    /\ Differs(p)
    /\ Older(p)
    /\ Ends(p, "refused")
    /\ UNCHANGED <<filesVars, image, deferral>>

\* Mutant of MayWait: the wait for dispatches has no limit.
MayWaitForEver(p) == check[p].from # None /\ p \notin Cli

\* No limit passed yet; self-update-now has no dispatches of its own to wait for.
MayWait(p) == check[p].from # None /\ deferral[p] # "expired" /\ p \notin Cli

\* inflightDispatchCount() is not 0.
FetchDeferred(p) ==
    /\ Differs(p)
    /\ ~Older(p)
    /\ MayWait(p)
    /\ deferral' = [deferral EXCEPT ![p] = "running"]
    /\ Ends(p, "deferred")
    /\ UNCHANGED <<filesVars, image>>

FetchAccepted(p) ==
    /\ Differs(p)
    /\ ~Older(p)
    /\ deferral' = [deferral EXCEPT ![p] = "none"]
    /\ check'    = [check EXCEPT ![p] = [NoCheck EXCEPT !.at = "rename", !.fresh = Fetched(check[p]),
                                         !.head = check[p].head, !.etag = check[p].etag]]
    /\ UNCHANGED <<filesVars, image, current, mains>>

\* The fetch fails, or the candidate does not load or cannot be renamed.
CheckFails(p) ==
    /\ check[p].at \in {"fetch", "rename"}
    /\ Ends(p, "failed")
    /\ UNCHANGED <<filesVars, image, deferral>>

Rename(p) ==
    /\ At(p, "rename")
    /\ deployed' = check[p].fresh
    /\ Goes(p, "record")
    /\ UNCHANGED <<tip, pin, stamp, cache, image, deferral, current, mains>>

Record(p) ==
    /\ At(p, "record")
    /\ WriteCache(CacheRecord(check[p], check[p].fresh))
    /\ Ends(p, "refreshed")
    /\ UNCHANGED <<tip, deployed, pin, image, deferral>>

-----------------------------------------------------------------------------
(* Time, the developer, upstream and the host.                              *)

StampAges ==
    /\ stamp
    /\ stamp' = FALSE
    /\ UNCHANGED <<tip, deployed, pin, cache, procVars>>

DeferralExpires(p) ==
    /\ deferral[p] = "running"
    /\ deferral' = [deferral EXCEPT ![p] = "expired"]
    /\ UNCHANGED <<filesVars, image, check, current, mains>>

PinLocalBuild ==
    /\ deployed \in Pinnable
    /\ pin' = deployed
    /\ UNCHANGED <<tip, deployed, stamp, cache, procVars>>

ClearLocalBuildPin ==
    /\ pin # None
    /\ pin' = None
    /\ UNCHANGED <<tip, deployed, stamp, cache, procVars>>

LocalInstall(b) ==
    /\ deployed' = b
    /\ UNCHANGED <<tip, pin, stamp, cache, procVars>>

Push ==
    /\ tip < LastCommit
    /\ tip' = tip + 1
    /\ mains' = [p \in Proc |-> IF At(p, "idle") THEN {} ELSE mains[p] \cup {BundleAt[tip']}]
    /\ UNCHANGED <<deployed, pin, stamp, cache, image, deferral, check, current>>

\* The host ends a session, at any step of a check, and starts one from the deployed bundle.
Relaunch(p) ==
    /\ p \in Mortal
    /\ deployed # None
    /\ image'    = [image EXCEPT ![p] = deployed]
    /\ deferral' = [deferral EXCEPT ![p] = "none"]
    /\ Ends(p, "relaunched")
    /\ UNCHANGED filesVars

-----------------------------------------------------------------------------
Probes(p)  == ProbeCurrent(p) \/ ProbeAnswers(p) \/ ProbeFails(p) \/ GitAnswers(p) \/ GitFails(p)
Fetches(p) == FetchCurrent(p) \/ FetchRefused(p) \/ FetchDeferred(p) \/ FetchAccepted(p)
Continues(p) == Probes(p) \/ Fetches(p) \/ CheckFails(p) \/ Rename(p) \/ Record(p)

Next ==
    \/ \E p \in Proc :
          \/ Begin(p) \/ Continues(p) \/ DeferralExpires(p) \/ Relaunch(p)
    \/ StampAges \/ PinLocalBuild \/ ClearLocalBuildPin \/ Push
    \/ \E b \in LocalBuild : LocalInstall(b)

Spec == Init /\ [][Next]_vars

(* Timers fire, requests end by their timeouts, time passes. A fetch and a  *)
(* swap that are tried again and again succeed at last, where dispatches do *)
(* not stand in the way: those may be in flight for ever.                   *)
Fairness ==
    /\ WF_vars(StampAges)
    /\ \A p \in Proc \ Mortal :
          /\ WF_vars(Begin(p)) /\ WF_vars(Continues(p)) /\ WF_vars(DeferralExpires(p))
          /\ SF_vars(Fetches(p)) /\ SF_vars(~MayWait(p) /\ FetchAccepted(p)) /\ SF_vars(Rename(p))

FairSpec == Spec /\ Fairness

-----------------------------------------------------------------------------
(* Properties.                                                              *)

Shas   == Build \cup {None}
Caches == [sha : Shas, commit : Commit \cup {None}, validator : BOOLEAN]
Checks == [at : {"idle", "api", "git", "fetch", "rename", "record"},
           from : Shas, cached : Caches, head : Commit \cup {None},
           etag : BOOLEAN, full : BOOLEAN, fresh : Shas]

TypeOK ==
    /\ tip \in Commit
    /\ {deployed, pin} \subseteq Shas
    /\ stamp \in BOOLEAN
    /\ cache \in Caches
    /\ image \in [Proc -> Build]
    /\ deferral \in [Proc -> {"none", "running", "expired"}]
    /\ check \in [Proc -> Checks]
    /\ current \in [Proc -> BOOLEAN]
    /\ mains \in [Proc -> SUBSET Build]

Valid(record) ==
    /\ record.commit # None => record.sha = BundleAt[record.commit]
    /\ record.validator => record.commit # None

(* "a fallback fetch never leaves a validator behind": the commit in the    *)
(* cache is one that holds the cached bundle, whichever process wrote it    *)
(* over which other one's record, so that a 304 means what it seems to.     *)
CacheTrue == Valid(cache)

(* A check that answers "current" is right: what was deployed when it began *)
(* was the bundle of main at some moment since.                             *)
CurrentIsTrue ==
    [][\A p \in Proc : ~current[p] /\ current'[p] => check[p].from \in mains[p]]_vars

(* A release reaches the machine although dispatches may be in flight for   *)
(* ever, other processes run older and newer bundles and copies are made by *)
(* hand: unless the deployed bundle is pinned, or every lasting process     *)
(* runs a later version, main's last bundle gets deployed.                  *)
Target == BundleAt[LastCommit]
ReleaseDeployed ==
    tip = LastCommit ~>
        \/ deployed = Target
        \/ pin # None /\ pin = deployed
        \/ \A p \in Proc \ Mortal : VersionOf[image[p]] > VersionOf[Target]

(* "Swapping the bundle under a dispatch that is running would cut that     *)
(* dispatch's reply off mid-write, so the swap waits": the limit of that    *)
(* wait is counted for the update that waits, so no clock runs in a process *)
(* that finds itself current.                                               *)
SwapWaits == \A p \in Proc : current[p] => deferral[p] = "none"

(* The state is typed, and the shared cache says nothing wrong.              *)
CacheInv == TypeOK /\ CacheTrue
================================================================================
