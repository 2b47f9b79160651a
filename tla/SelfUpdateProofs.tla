--------------------------- MODULE SelfUpdateProofs ---------------------------
(* Proofs about SelfUpdate, for every set of processes, bundles and commits:  *)
(* types, and that the shared cache never holds a validator of a bundle other *)
(* than the cached one, whatever the interleaving of checks.                  *)
EXTENDS SelfUpdate, TLAPS

(* What a check holds between its awaits: the cache it read was valid, and  *)
(* the bundle it is swapping in is the one of the commit it probed.         *)
Sound(c) ==
    /\ Valid(c.cached)
    /\ c.at \in {"rename", "record"} =>
          /\ c.fresh \in Build
          /\ c.head # None => c.fresh = BundleAt[c.head]

ChecksSound == \A p \in Proc : Sound(check[p])

(* What upstream showed a check while it ran is in the history of the check. *)
Seen(c, head, bundles) ==
    c.at # "idle" =>
        /\ BundleAt[head] \in bundles
        /\ c.head # None => BundleAt[c.head] \in bundles

ChecksSeen == \A p \in Proc : Seen(check[p], tip, mains[p])

UpdateInv == TypeOK /\ CacheTrue /\ ChecksSound /\ ChecksSeen

-----------------------------------------------------------------------------
\* The state between two checks is a sound check.
LEMMA IdleIsSound == NoCheck \in Checks /\ Sound(NoCheck)
<1>1. NoCache \in Caches
    BY DEF NoCache, Caches, Shas
<1> QED BY <1>1 DEF NoCheck, NoCache, Checks, Shas, Sound, Valid

\* One running check moves on, with nothing in hand that upstream did not show it.
LEMMA Moves ==
    ASSUME UpdateInv, NEW p \in Proc, NEW c \in Checks, Sound(c),
           check' = [check EXCEPT ![p] = c], UNCHANGED <<tip, mains>>,
           check[p].at # "idle", c.head \in {None, tip, check[p].head}
    PROVE  check' \in [Proc -> Checks] /\ ChecksSound' /\ ChecksSeen'
<1>1. check \in [Proc -> Checks] /\ tip \in Commit
    BY DEF UpdateInv, TypeOK
<1>2. ChecksSound'
    BY <1>1 DEF UpdateInv, ChecksSound, Sound, Valid
<1>3. ASSUME NEW q \in Proc PROVE Seen(check'[q], tip', mains'[q])
  <2>1. CASE q = p
    <3>1. check'[p] = c /\ mains'[p] = mains[p] /\ tip' = tip
        BY <1>1
    <3>2. BundleAt[tip] \in mains[p] /\ (check[p].head # None => BundleAt[check[p].head] \in mains[p])
        BY DEF UpdateInv, ChecksSeen, Seen
    <3> QED BY <2>1, <3>1, <3>2 DEF Seen
  <2>2. CASE q # p
    BY <1>1, <2>2 DEF UpdateInv, ChecksSeen
  <2> QED BY <2>1, <2>2
<1> QED BY <1>1, <1>2, <1>3 DEF ChecksSeen

\* A check ends.
LEMMA Ended ==
    ASSUME UpdateInv, NEW p \in Proc, NEW outcome, Ends(p, outcome), tip' = tip
    PROVE  /\ check' \in [Proc -> Checks] /\ ChecksSound' /\ ChecksSeen'
           /\ current' \in [Proc -> BOOLEAN]
           /\ mains' \in [Proc -> SUBSET Build]
<1>1. check \in [Proc -> Checks] /\ current \in [Proc -> BOOLEAN] /\ mains \in [Proc -> SUBSET Build]
    BY DEF UpdateInv, TypeOK
<1>2. check' \in [Proc -> Checks]
    BY <1>1, IdleIsSound DEF Ends
<1>3. ChecksSound'
    BY <1>1, IdleIsSound DEF Ends, UpdateInv, ChecksSound, Sound, Valid
<1>4. ChecksSeen'
  <2> SUFFICES ASSUME NEW q \in Proc PROVE Seen(check'[q], tip', mains'[q])
      BY DEF ChecksSeen
  <2>1. CASE q = p
    <3>1. check'[q].at = "idle" BY <1>1, <2>1 DEF Ends, NoCheck
    <3> QED BY <3>1 DEF Seen
  <2>2. CASE q # p
    BY <1>1, <2>2 DEF Ends, UpdateInv, ChecksSeen
  <2> QED BY <2>1, <2>2
<1> QED BY <1>1, <1>2, <1>3, <1>4 DEF Ends

\* What a check holds is of its type and sound.
LEMMA Holds ==
    ASSUME UpdateInv, NEW p \in Proc
    PROVE  /\ check[p] \in Checks
           /\ check[p].at \in {"idle", "api", "git", "fetch", "rename", "record"}
           /\ check[p].from \in Shas /\ check[p].cached \in Caches /\ check[p].head \in Commit \cup {None}
           /\ check[p].etag \in BOOLEAN /\ check[p].full \in BOOLEAN /\ check[p].fresh \in Shas
           /\ Sound(check[p])
<1>1. check[p] \in Checks /\ Sound(check[p])
    BY DEF UpdateInv, TypeOK, ChecksSound
<1> QED BY <1>1 DEF Checks

\* The fetched bundle is one, and that of the probed commit if there is one.
LEMMA FetchedIsBuild ==
    ASSUME UpdateInv, NEW p \in Proc
    PROVE  /\ Fetched(check[p]) \in Build
           /\ check[p].head # None => Fetched(check[p]) = BundleAt[check[p].head]
<1>1. tip \in Commit BY DEF UpdateInv, TypeOK
<1> QED BY <1>1, Holds, BuildAssumption DEF Fetched, BuildAssumption

-----------------------------------------------------------------------------
\* The initial states satisfy the invariant.
LEMMA Initially == Init => UpdateInv
<1> SUFFICES ASSUME Init PROVE UpdateInv
    OBVIOUS
<1>1. NoCache \in Caches /\ Valid(NoCache)
    BY DEF NoCache, Caches, Shas, Valid
<1>2. check \in [Proc -> Checks] /\ \A p \in Proc : Sound(check[p])
    BY IdleIsSound DEF Init
<1>6. ChecksSeen
    BY DEF Init, ChecksSeen, Seen, NoCheck
<1>3. tip \in Commit /\ BundleAt[1] \in Build
    BY BuildAssumption DEF Init, BuildAssumption, Commit
<1>4. image \in [Proc -> Build]
    BY BuildAssumption DEF Init, BuildAssumption
<1>5. TypeOK
    BY <1>1, <1>2, <1>3, <1>4 DEF Init, TypeOK, Shas
<1> QED BY <1>1, <1>2, <1>5, <1>6 DEF Init, UpdateInv, CacheTrue, ChecksSound

-----------------------------------------------------------------------------
(* Steps of a check.                                                        *)

\* A check begins with what it reads: the cache, and main's bundle of that moment.
LEMMA BeginKeeps == ASSUME UpdateInv, NEW p \in Proc, Begin(p) PROVE UpdateInv'
<1>1. TypeOK /\ Valid(cache) /\ ChecksSound /\ ChecksSeen
    BY DEF UpdateInv, CacheTrue
<1>2. PICK backingOff \in BOOLEAN : check' = [check EXCEPT ![p] =
          [NoCheck EXCEPT !.at     = IF backingOff THEN "git" ELSE "api",
                          !.from   = deployed,
                          !.cached = IF p \in Cli THEN NoCache ELSE cache]]
    BY DEF Begin
<1> DEFINE c == [NoCheck EXCEPT !.at     = IF backingOff THEN "git" ELSE "api",
                                !.from   = deployed,
                                !.cached = IF p \in Cli THEN NoCache ELSE cache]
<1>3. c \in Checks /\ Sound(c) /\ c.head = None
    BY <1>1 DEF NoCheck, NoCache, Checks, Caches, Shas, TypeOK, Sound, Valid
<1>4. tip \in Commit /\ BundleAt[tip] \in Build
    BY <1>1, BuildAssumption DEF TypeOK, BuildAssumption
<1>5. TypeOK'
    BY <1>1, <1>2, <1>3, <1>4 DEF TypeOK, Begin, filesVars
<1>6. ChecksSound'
    BY <1>1, <1>2, <1>3 DEF TypeOK, ChecksSound, Sound, Valid
<1>7. ChecksSeen'
  <2> SUFFICES ASSUME NEW q \in Proc PROVE Seen(check'[q], tip', mains'[q])
      BY DEF ChecksSeen
  <2>1. CASE q = p
    <3>1. check'[q] = c /\ mains'[q] = {BundleAt[tip]} /\ tip' = tip
        BY <1>1, <1>2, <2>1 DEF Begin, TypeOK, filesVars
    <3> QED BY <1>3, <3>1 DEF Seen
  <2>2. CASE q # p
    BY <1>1, <1>2, <2>2 DEF Begin, TypeOK, ChecksSeen, filesVars
  <2> QED BY <2>1, <2>2
<1>8. CacheTrue'
    BY <1>1 DEF Begin, CacheTrue, Valid, filesVars
<1> QED BY <1>5, <1>6, <1>7, <1>8 DEF UpdateInv

\* A probe that finds the tip unchanged, a fetch of what is deployed and a
\* finished swap write a valid record and end the check.
LEMMA RecordKeeps ==
    ASSUME UpdateInv, NEW p \in Proc, NEW outcome, NEW record \in Caches, Valid(record),
           WriteCache(record), Ends(p, outcome), UNCHANGED <<tip, deployed, pin, image, deferral>>
    PROVE  UpdateInv'
<1>1. TypeOK'
    BY Ended DEF WriteCache, UpdateInv, TypeOK
<1>2. CacheTrue'
    BY DEF WriteCache, CacheTrue, Valid
<1> QED BY <1>1, <1>2, Ended DEF UpdateInv

\* A check that ends otherwise leaves the files alone.
LEMMA EndKeeps ==
    ASSUME UpdateInv, NEW p \in Proc, NEW outcome, Ends(p, outcome), UNCHANGED filesVars,
           image' \in [Proc -> Build], deferral' \in [Proc -> {"none", "running", "expired"}]
    PROVE  UpdateInv'
<1>1. tip' = tip
    BY DEF filesVars
<1>2. TypeOK'
    BY <1>1, Ended DEF filesVars, UpdateInv, TypeOK
<1>3. CacheTrue'
    BY DEF filesVars, UpdateInv, CacheTrue, Valid
<1> QED BY <1>1, <1>2, <1>3, Ended DEF UpdateInv

\* A running check goes on and nobody else notices.
LEMMA MoveKeeps ==
    ASSUME UpdateInv, NEW p \in Proc, NEW c \in Checks, Sound(c),
           check' = [check EXCEPT ![p] = c], check[p].at # "idle", c.head \in {None, tip, check[p].head},
           deferral' \in [Proc -> {"none", "running", "expired"}], deployed' \in Shas,
           UNCHANGED <<tip, pin, stamp, cache, image, current, mains>>
    PROVE  UpdateInv'
<1>1. check' \in [Proc -> Checks] /\ ChecksSound' /\ ChecksSeen'
    BY Moves
<1>2. TypeOK'
    BY <1>1 DEF UpdateInv, TypeOK
<1>3. CacheTrue'
    BY DEF UpdateInv, CacheTrue, Valid
<1> QED BY <1>1, <1>2, <1>3 DEF UpdateInv

\* A probe hands the tip it saw, or none, to the fetch.
LEMMA FetchKeeps ==
    ASSUME UpdateInv, NEW p \in Proc, NEW commit \in {None, tip}, NEW etag \in BOOLEAN, NEW full \in BOOLEAN,
           check[p].at # "idle", Fetch(p, commit, etag, full),
           UNCHANGED <<filesVars, image, deferral, current, mains>>
    PROVE  UpdateInv'
<1> DEFINE c == [NoCheck EXCEPT !.at = "fetch", !.from = check[p].from,
                                !.head = commit, !.etag = etag, !.full = full]
<1>1. tip \in Commit /\ deployed \in Shas /\ deferral \in [Proc -> {"none", "running", "expired"}]
    BY DEF UpdateInv, TypeOK
<1>2. c \in Checks /\ Sound(c) /\ c.head \in {None, tip, check[p].head}
    BY <1>1, Holds, IdleIsSound DEF NoCheck, NoCache, Checks, Sound, Valid
<1> QED BY <1>1, <1>2, MoveKeeps DEF Fetch, filesVars

\* The outcomes of the two probes.
LEMMA ProbesKeep == ASSUME UpdateInv, NEW p \in Proc, Probes(p) PROVE UpdateInv'
<1>1. CASE ProbeCurrent(p)
    BY <1>1, RecordKeeps, Holds DEF ProbeCurrent, Sound
<1>2. CASE ProbeAnswers(p)
    BY <1>2, FetchKeeps DEF ProbeAnswers, At
<1>3. CASE ProbeFails(p)
  <2> DEFINE c == [check[p] EXCEPT !.at = "git"]
  <2>1. deployed \in Shas /\ deferral \in [Proc -> {"none", "running", "expired"}]
      BY DEF UpdateInv, TypeOK
  <2>2. c \in Checks /\ Sound(c) /\ c.head = check[p].head
      BY Holds DEF Checks, Sound, Valid
  <2>3. check' = [check EXCEPT ![p] = c] /\ check[p].at # "idle"
      BY <1>3 DEF ProbeFails, Goes, At
  <2> QED BY <1>3, <2>1, <2>2, <2>3, MoveKeeps DEF ProbeFails, filesVars
<1>4. CASE GitAnswers(p)
    BY <1>4, FetchKeeps DEF GitAnswers, At
<1>5. CASE GitFails(p)
  <2>1. PICK aged \in BOOLEAN :
            Fetch(p, None, FALSE, check[p].from = None \/ check[p].cached.sha # check[p].from \/ aged)
      BY <1>5 DEF GitFails
  <2> QED BY <1>5, <2>1, FetchKeeps DEF GitFails, At
<1> QED BY <1>1, <1>2, <1>3, <1>4, <1>5 DEF Probes

\* What may follow the fetch.
LEMMA FetchesKeep == ASSUME UpdateInv, NEW p \in Proc, Fetches(p) PROVE UpdateInv'
<1>1. deployed \in Shas /\ image \in [Proc -> Build] /\ deferral \in [Proc -> {"none", "running", "expired"}]
    BY DEF UpdateInv, TypeOK
<1>2. CASE FetchCurrent(p)
  <2> DEFINE record == CacheRecord(check[p], check[p].from)
  <2>1. check[p].head # None => check[p].from = BundleAt[check[p].head]
      BY <1>2, FetchedIsBuild DEF FetchCurrent, Unmodified
  <2>2. record \in Caches /\ Valid(record)
      BY <2>1, Holds DEF CacheRecord, Caches, Valid
  <2> QED BY <1>2, <2>2, RecordKeeps DEF FetchCurrent
<1>3. CASE FetchRefused(p)
    BY <1>1, <1>3, EndKeeps DEF FetchRefused
<1>4. CASE FetchDeferred(p)
  <2>1. deferral' \in [Proc -> {"none", "running", "expired"}]
      BY <1>1, <1>4 DEF FetchDeferred
  <2> QED BY <1>1, <1>4, <2>1, EndKeeps DEF FetchDeferred
<1>5. CASE FetchAccepted(p)
  <2> DEFINE c == [NoCheck EXCEPT !.at = "rename", !.fresh = Fetched(check[p]),
                                  !.head = check[p].head, !.etag = check[p].etag]
  <2>1. deferral' \in [Proc -> {"none", "running", "expired"}]
      BY <1>1, <1>5 DEF FetchAccepted
  <2>2. c \in Checks
      BY Holds, FetchedIsBuild DEF NoCheck, NoCache, Checks, Caches, Shas
  <2>3. Sound(c) /\ c.head = check[p].head
      BY FetchedIsBuild DEF NoCheck, NoCache, Sound, Valid
  <2> QED BY <1>1, <1>5, <2>1, <2>2, <2>3, MoveKeeps DEF FetchAccepted, Differs, At, filesVars
<1> QED BY <1>2, <1>3, <1>4, <1>5 DEF Fetches

\* The rename, the record of it, and a check that fails.
LEMMA SwapKeeps ==
    ASSUME UpdateInv, NEW p \in Proc, CheckFails(p) \/ Rename(p) \/ Record(p)
    PROVE  UpdateInv'
<1>1. deployed \in Shas /\ image \in [Proc -> Build] /\ deferral \in [Proc -> {"none", "running", "expired"}]
    BY DEF UpdateInv, TypeOK
<1>2. CASE CheckFails(p)
    BY <1>1, <1>2, EndKeeps DEF CheckFails
<1>3. CASE Rename(p)
  <2> DEFINE c == [check[p] EXCEPT !.at = "record"]
  <2>1. c \in Checks /\ Sound(c) /\ c.head = check[p].head /\ check[p].fresh \in Shas
      BY <1>3, Holds DEF Checks, Sound, Valid, Rename, At
  <2>2. check' = [check EXCEPT ![p] = c] /\ check[p].at # "idle"
      BY <1>3 DEF Rename, Goes, At
  <2> QED BY <1>1, <1>3, <2>1, <2>2, MoveKeeps DEF Rename
<1>4. CASE Record(p)
  <2> DEFINE record == CacheRecord(check[p], check[p].fresh)
  <2>1. record \in Caches /\ Valid(record)
      BY <1>4, Holds DEF Record, At, Sound, CacheRecord, Caches, Valid
  <2> QED BY <1>4, <2>1, RecordKeeps DEF Record
<1> QED BY <1>2, <1>3, <1>4

-----------------------------------------------------------------------------
(* Steps of the world around the checks.                                    *)

\* Nothing a check holds changes, nor the cache.
LEMMA FilesKeep ==
    ASSUME UpdateInv, UNCHANGED <<tip, cache, image, check, current, mains>>,
           deployed' \in Shas, pin' \in Shas, stamp' \in BOOLEAN,
           deferral' \in [Proc -> {"none", "running", "expired"}]
    PROVE  UpdateInv'
<1>1. TypeOK'
    BY DEF UpdateInv, TypeOK
<1>2. CacheTrue' /\ ChecksSound' /\ ChecksSeen'
    BY DEF UpdateInv, CacheTrue, Valid, ChecksSound, Sound, ChecksSeen, Seen
<1> QED BY <1>1, <1>2 DEF UpdateInv

\* A push adds main's new bundle to what every running check has seen.
LEMMA PushKeeps == ASSUME UpdateInv, Push PROVE UpdateInv'
<1>1. tip \in Commit /\ mains \in [Proc -> SUBSET Build]
    BY DEF UpdateInv, TypeOK
<1>2. tip' \in Commit /\ BundleAt[tip'] \in Build
    BY <1>1, BuildAssumption DEF Push, Commit, BuildAssumption
<1>3. mains' \in [Proc -> SUBSET Build]
    BY <1>1, <1>2 DEF Push
<1>4. TypeOK'
    BY <1>2, <1>3 DEF UpdateInv, TypeOK, Push
<1>5. CacheTrue' /\ ChecksSound'
    BY DEF Push, UpdateInv, CacheTrue, Valid, ChecksSound, Sound
<1>6. ChecksSeen'
    BY <1>1 DEF Push, At, UpdateInv, ChecksSeen, Seen
<1> QED BY <1>4, <1>5, <1>6 DEF UpdateInv

\* Time, people, upstream and the host.
LEMMA WorldKeeps ==
    ASSUME UpdateInv,
           \/ StampAges \/ PinLocalBuild \/ ClearLocalBuildPin \/ Push
           \/ \E b \in LocalBuild : LocalInstall(b)
           \/ \E p \in Proc : DeferralExpires(p) \/ Relaunch(p)
    PROVE  UpdateInv'
<1>1. /\ deployed \in Shas /\ pin \in Shas /\ stamp \in BOOLEAN
      /\ image \in [Proc -> Build] /\ deferral \in [Proc -> {"none", "running", "expired"}]
    BY DEF UpdateInv, TypeOK
<1>2. CASE StampAges
    BY <1>1, <1>2, FilesKeep DEF StampAges, procVars
<1>3. CASE PinLocalBuild
    BY <1>1, <1>3, FilesKeep, BuildAssumption DEF PinLocalBuild, procVars, Shas, BuildAssumption
<1>4. CASE ClearLocalBuildPin
    BY <1>1, <1>4, FilesKeep DEF ClearLocalBuildPin, procVars, Shas
<1>5. CASE Push
    BY <1>5, PushKeeps
<1>6. CASE \E b \in LocalBuild : LocalInstall(b)
    BY <1>1, <1>6, FilesKeep, BuildAssumption DEF LocalInstall, procVars, Shas, BuildAssumption
<1>7. ASSUME NEW p \in Proc, DeferralExpires(p) PROVE UpdateInv'
  <2>1. deferral' \in [Proc -> {"none", "running", "expired"}]
      BY <1>1, <1>7 DEF DeferralExpires
  <2> QED BY <1>1, <1>7, <2>1, FilesKeep DEF DeferralExpires, filesVars
<1>8. ASSUME NEW p \in Proc, Relaunch(p) PROVE UpdateInv'
  <2>1. deployed \in Build
      BY <1>1, <1>8 DEF Relaunch, Shas
  <2>2. image' \in [Proc -> Build] /\ deferral' \in [Proc -> {"none", "running", "expired"}]
      BY <1>1, <1>8, <2>1 DEF Relaunch
  <2> QED BY <1>8, <2>2, EndKeeps DEF Relaunch
<1> QED BY <1>2, <1>3, <1>4, <1>5, <1>6, <1>7, <1>8

-----------------------------------------------------------------------------
(* UpdateInv is an invariant: the strengthening is what a check holds while *)
(* it awaits, for the file it will write is made of that.                   *)
THEOREM Invariance == Spec => []UpdateInv
<1>1. ASSUME UpdateInv, [Next]_vars PROVE UpdateInv'
  <2>1. CASE UNCHANGED vars
    BY <1>1, <2>1, FilesKeep DEF vars, filesVars, procVars, UpdateInv, TypeOK
  <2>2. ASSUME NEW p \in Proc, Begin(p) \/ Continues(p) PROVE UpdateInv'
    BY <1>1, <2>2, BeginKeeps, ProbesKeep, FetchesKeep, SwapKeeps DEF Continues
  <2> QED BY <1>1, <2>1, <2>2, WorldKeeps DEF Next
<1> QED BY <1>1, Initially, PTL DEF Spec

(* Every variable keeps its type, for every set of processes and bundles.   *)
THEOREM TypeCorrect == Spec => []TypeOK
<1>1. UpdateInv => TypeOK BY DEF UpdateInv
<1> QED BY <1>1, Invariance, PTL

(* The validators in the cache are those of the bundle it names, whichever  *)
(* processes wrote it over one another: a 304 means what it seems to mean.  *)
THEOREM CacheIsTrue == Spec => []CacheTrue
<1>1. UpdateInv => CacheTrue BY DEF UpdateInv
<1> QED BY <1>1, Invariance, PTL

(* A check answers "current" only if what was deployed when it began was    *)
(* the bundle of main at some moment since.                                 *)
THEOREM CurrentMeansCurrent == Spec => CurrentIsTrue
<1> DEFINE Right == \A p \in Proc : ~current[p] /\ current'[p] => check[p].from \in mains[p]
<1>1. ASSUME UpdateInv, Next PROVE Right
  <2>0. current \in [Proc -> BOOLEAN] /\ tip \in Commit
      BY <1>1 DEF UpdateInv, TypeOK
  <2>1. ASSUME NEW p \in Proc, NEW outcome, outcome # "current", Ends(p, outcome) PROVE Right
    <3> SUFFICES ASSUME NEW q \in Proc, ~current[q], current'[q] PROVE FALSE
        OBVIOUS
    <3>1. current'[q] = IF q = p THEN outcome = "current" ELSE current[q]
        BY <2>0, <2>1 DEF Ends
    <3> QED BY <2>1, <3>1
  <2>2. ASSUME NEW p \in Proc, check[p].from \in mains[p], Ends(p, "current") PROVE Right
    <3> SUFFICES ASSUME NEW q \in Proc, ~current[q], current'[q], q # p PROVE FALSE
        BY <2>2
    <3>1. current'[q] = current[q]
        BY <2>0, <2>2 DEF Ends
    <3> QED BY <3>1
  <2>3. ASSUME NEW p \in Proc, ProbeCurrent(p) PROVE Right
    <3>1. BundleAt[tip] \in mains[p]
        BY <1>1, <2>3 DEF UpdateInv, ChecksSeen, Seen, ProbeCurrent, At
    <3>2. check[p].from = BundleAt[tip]
        BY <1>1, <2>0, <2>3, Holds, BuildAssumption DEF ProbeCurrent, NotModified, Sound, Valid, BuildAssumption
    <3> QED BY <2>2, <2>3, <3>1, <3>2 DEF ProbeCurrent
  <2>4. ASSUME NEW p \in Proc, FetchCurrent(p) PROVE Right
    <3>1. /\ BundleAt[tip] \in mains[p]
          /\ check[p].head # None => BundleAt[check[p].head] \in mains[p]
        BY <1>1, <2>4 DEF UpdateInv, ChecksSeen, Seen, FetchCurrent, At
    <3>2. check[p].from = Fetched(check[p])
        BY <2>4 DEF FetchCurrent, Unmodified
    <3>3. check[p].from \in mains[p]
        BY <3>1, <3>2 DEF Fetched
    <3> QED BY <2>2, <2>4, <3>3 DEF FetchCurrent
  <2>5. ASSUME NEW p \in Proc,
               Record(p) \/ FetchRefused(p) \/ FetchDeferred(p) \/ CheckFails(p) \/ Relaunch(p)
        PROVE  Right
      BY <2>1, <2>5 DEF Record, FetchRefused, FetchDeferred, CheckFails, Relaunch
  <2>6. ASSUME NEW p \in Proc, Begin(p) PROVE Right
      BY <2>0, <2>6 DEF Begin
  <2>7. ASSUME UNCHANGED current PROVE Right
      BY <2>7
  <2>8. ASSUME NEW p \in Proc, Begin(p) \/ Continues(p) \/ DeferralExpires(p) \/ Relaunch(p) PROVE Right
      BY <2>3, <2>4, <2>5, <2>6, <2>7, <2>8
         DEF Continues, Probes, Fetches, ProbeAnswers, ProbeFails, GitAnswers, GitFails, FetchAccepted,
             Rename, DeferralExpires
  <2>9. ASSUME StampAges \/ PinLocalBuild \/ ClearLocalBuildPin \/ Push \/ \E b \in LocalBuild : LocalInstall(b)
        PROVE  Right
      BY <2>7, <2>9 DEF StampAges, PinLocalBuild, ClearLocalBuildPin, Push, LocalInstall, procVars
  <2> QED BY <1>1, <2>8, <2>9 DEF Next
<1>2. UpdateInv /\ [Next]_vars => [Right]_vars
    BY <1>1
<1> QED BY <1>2, Invariance, PTL DEF Spec, CurrentIsTrue

(* The state is typed, and the shared cache says nothing wrong.             *)
THEOREM CacheIsSound == Spec => []CacheInv
BY TypeCorrect, CacheIsTrue, PTL DEF CacheInv
===============================================================================
