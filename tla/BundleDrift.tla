------------------------------ MODULE BundleDrift ------------------------------
(* bundle-drift.js and the watch of index.js: a server compares the bundle it *)
(* runs with the one at its entry path, and says once that a newer one waits. *)
(* A stat and a read are a step each; other processes deploy in between.      *)
EXTENDS Naturals, FiniteSets

CONSTANTS
    DriftServer, Reader, \* servers, sessions that ask for status
    Bundle,              \* contents
    MaxDeploy

ASSUME DriftBound == MaxDeploy \in Nat

VARIABLES
    entry,   \* the file at the entry path: [stamp, bundle]
    drift,   \* the state of each server
    told,    \* history: how often each server announced each bundle
    notices  \* history: how often each session got the full notice of each server

driftVars == <<entry, drift, told, notices>>

NoFile == [stamp |-> 0, bundle |-> "none"]
Down == [at |-> "down", loaded |-> "none", running |-> "none", installed |-> NoFile, stat |-> 0,
         final |-> {}, announced |-> {}, noticed |-> {}, asker |-> {}]

DriftInit ==
    /\ entry \in {[stamp |-> 1, bundle |-> b] : b \in Bundle}
    /\ drift = [s \in DriftServer |-> Down]
    /\ told = [s \in DriftServer |-> [b \in Bundle |-> 0]]
    /\ notices = [s \in DriftServer |-> [r \in Reader |-> 0]]

ServerIs(s, stage) == drift[s].at = stage
Stale(s, file) == drift[s].running # file.bundle

\* Node reads the program; the bytes are hashed later, from the disk (runningBundle).
Launches(s) ==
    /\ ServerIs(s, "down")
    /\ drift' = [drift EXCEPT ![s].at = "loaded", ![s].loaded = entry.bundle]
    /\ UNCHANGED <<entry, told, notices>>

RunningBundle(s) ==
    /\ ServerIs(s, "loaded")
    /\ drift' = [drift EXCEPT ![s].at = "rest", ![s].running = entry.bundle]
    /\ UNCHANGED <<entry, told, notices>>

\* Another process puts a bundle in place by rename.
Deploys ==
    /\ entry.stamp <= MaxDeploy
    /\ \E b \in Bundle : entry' = [stamp |-> entry.stamp + 1, bundle |-> b]
    /\ UNCHANGED <<drift, told, notices>>

\* installedBundle asked by the watch, or for a reply to a session.
Stats(s) ==
    /\ ServerIs(s, "rest")
    /\ \E who \in {{}} \cup {{r} : r \in Reader} :
          drift' = [drift EXCEPT ![s].stat = entry.stamp, ![s].asker = who,
                                 ![s].at = IF drift[s].installed.stamp = entry.stamp THEN "judge" ELSE "read"]
    /\ UNCHANGED <<entry, told, notices>>

\* Mutant of StampOf: the file is looked at after it was read, and another came between.
StampOfRead(s) == IF entry.stamp <= MaxDeploy THEN entry.stamp + 1 ELSE entry.stamp
StampOf(s) == drift[s].stat

Reads(s) ==
    /\ ServerIs(s, "read")
    /\ drift' = [drift EXCEPT ![s].at = "judge",
                              ![s].installed = [stamp |-> StampOf(s), bundle |-> entry.bundle]]
    /\ UNCHANGED <<entry, told, notices>>

\* Mutant of Announces: a pair is final as soon as it is seen stale.
AnnouncesNever(s) == FALSE

\* bundleStalenessAnnouncement, asked once for a pair of running and installed.
Announces(s) == drift[s].installed.bundle \notin drift[s].final \cup drift[s].announced

\* tick of startBundleDriftWatch, watchForStaleBundle.
Watch(s) ==
    /\ ServerIs(s, "judge") /\ drift[s].asker = {}
    /\ LET b == drift[s].installed.bundle
           stale == Stale(s, drift[s].installed)
       IN /\ drift' = [drift EXCEPT ![s].at = "rest",
                           ![s].final = IF stale THEN @ \cup {b} ELSE @,
                           ![s].announced = IF stale /\ Announces(s) THEN @ \cup {b} ELSE @]
          /\ told' = IF stale /\ Announces(s) THEN [told EXCEPT ![s][b] = @ + 1] ELSE told
    /\ UNCHANGED <<entry, notices>>

\* withStaleBundleNotice of a status read; the key has the running version only.
Notice(s) ==
    /\ ServerIs(s, "judge") /\ drift[s].asker # {}
    /\ LET full == Stale(s, drift[s].installed) /\ ~drift[s].asker \subseteq drift[s].noticed
       IN /\ drift' = [drift EXCEPT ![s].at = "rest", ![s].asker = {},
                                    ![s].noticed = IF full THEN @ \cup drift[s].asker ELSE @]
          /\ notices' = [notices EXCEPT ![s] = [r \in Reader |-> IF full /\ r \in drift[s].asker THEN @[r] + 1 ELSE @[r]]]
    /\ UNCHANGED <<entry, told>>

DriftStep(s) == RunningBundle(s) \/ Reads(s) \/ Watch(s) \/ Notice(s)
DriftNext == Deploys \/ \E s \in DriftServer : Launches(s) \/ Stats(s) \/ DriftStep(s)

\* The watch has a timer; node finishes what it started.
DriftFairness ==
    \A s \in DriftServer : /\ WF_driftVars(DriftStep(s))
                           /\ SF_driftVars(Stats(s) /\ drift'[s].asker = {})
DriftSpec == DriftInit /\ [][DriftNext]_driftVars /\ DriftFairness

-----------------------------------------------------------------------------
DriftTypeOK ==
    /\ entry.stamp \in 1..MaxDeploy + 1 /\ entry.bundle \in Bundle
    /\ \A s \in DriftServer : /\ drift[s].at \in {"down", "loaded", "rest", "read", "judge"}
                              /\ {drift[s].loaded, drift[s].running} \subseteq Bundle \cup {"none"}

(* What is kept of the installed bundle is what the file holds, as long as   *)
(* the file is the one that was looked at: a read that met a newer file is   *)
(* kept under the older one's stamp, and is read again.                      *)
InstalledIsDisk ==
    \A s \in DriftServer : drift[s].installed.stamp = entry.stamp => drift[s].installed.bundle = entry.bundle

(* "announces the newer installed bundle once".                              *)
SaidOnce == \A s \in DriftServer : \A b \in Bundle : told[s][b] <= 1 /\ \A r \in Reader : notices[s][r] <= 1

(* A bundle that stays installed is announced by every server that knows it  *)
(* runs another one.                                                         *)
NewBundleTold ==
    \A s \in DriftServer, b \in Bundle :
        <>[](entry.bundle = b /\ drift[s].running \notin {b, "none"}) => <>(told[s][b] > 0)

(* A server that runs another bundle than the one installed is stale. Not    *)
(* kept: what runs is hashed at the first look at it, and a deployment       *)
(* between the launch and that look is taken for the bundle that runs.       *)
RunningIsLoaded == \A s \in DriftServer : drift[s].running \in {"none", drift[s].loaded}

(* The state is typed, what is kept of the installed bundle is what the file *)
(* holds, and a newer bundle is announced once.                              *)
DriftInv == DriftTypeOK /\ InstalledIsDisk /\ SaidOnce
================================================================================
