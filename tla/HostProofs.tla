------------------------------- MODULE HostProofs -------------------------------
(* For every value of the constants: what a server keeps of the bundle at its *)
(* entry path, while other processes deploy and no step of reading it is one  *)
(* with the next; whom its leak watch signals, while the host goes on between *)
(* the table it reads and the signal; and that the runs of the release bridge *)
(* keep the limits on requests to GitHub.                                     *)
EXTENDS MCHost, ReleaseBridge, WellFoundedInduction, TLAPS

-----------------------------------------------------------------------------
(* The drift watch.                                                           *)

Content == Bundle \cup {"none"}
DriftStates == [at : {"down", "loaded", "rest", "read", "judge"}, loaded : Content, running : Content,
                installed : [stamp : Nat, bundle : Content], stat : Nat,
                final : SUBSET Content, announced : SUBSET Content, noticed : SUBSET Reader, asker : SUBSET Reader]

DriftTyped ==
    /\ entry \in [stamp : 1..MaxDeploy + 1, bundle : Bundle]
    /\ drift \in [DriftServer -> DriftStates]
    /\ told \in [DriftServer -> [Bundle -> 0..1]]
    /\ notices \in [DriftServer -> [Reader -> 0..1]]

\* What a server knows of the file is no newer than the file.
KnowsThePast ==
    \A s \in DriftServer : drift[s].stat <= entry.stamp /\ drift[s].installed.stamp <= entry.stamp

\* What was told is in the memory that keeps it from being told again.
Remembered ==
    \A s \in DriftServer :
        /\ \A v \in Bundle : told[s][v] = 1 => v \in drift[s].announced
        /\ \A r \in Reader : notices[s][r] = 1 => r \in drift[s].noticed
        /\ \A r, w \in Reader : {r, w} \subseteq drift[s].asker => r = w

DInv == DriftTyped /\ KnowsThePast /\ InstalledIsDisk /\ Remembered

\* At first the servers are down and know of no file.
LEMMA DriftStarts == DriftInit => DInv
<1> SUFFICES ASSUME DriftInit PROVE DInv
    OBVIOUS
<1>1. Down \in DriftStates /\ NoFile.stamp = 0 /\ Down.installed = NoFile /\ Down.asker = {} /\ Down.stat = 0
    BY DEF Down, NoFile, DriftStates, Content
<1>2. PICK v \in Bundle : entry = [stamp |-> 1, bundle |-> v]
    BY DEF DriftInit
<1>3. entry \in [stamp : 1..MaxDeploy + 1, bundle : Bundle]
    <2>1. 1 \in 1..MaxDeploy + 1
        BY DriftBound
    <2> QED BY <1>2, <2>1
<1>4. \A s \in DriftServer : drift[s] = Down
    BY DEF DriftInit
<1>5. DriftTyped
    BY <1>1, <1>3 DEF DriftInit, DriftTyped
<1>6. KnowsThePast /\ InstalledIsDisk
    BY <1>1, <1>2, <1>4 DEF KnowsThePast, InstalledIsDisk
<1>7. Remembered
    BY <1>1, <1>4 DEF DriftInit, Remembered
<1> QED BY <1>5, <1>6, <1>7 DEF DInv

\* A state of a server that knows of the past, and remembers what was told.
Fits(after, said, gave) ==
    /\ after \in DriftStates /\ said \in [Bundle -> 0..1] /\ gave \in [Reader -> 0..1]
    /\ after.stat <= entry.stamp /\ after.installed.stamp <= entry.stamp
    /\ after.installed.stamp = entry.stamp => after.installed.bundle = entry.bundle
    /\ \A v \in Bundle : said[v] = 1 => v \in after.announced
    /\ \A r \in Reader : gave[r] = 1 => r \in after.noticed
    /\ \A r, w \in Reader : {r, w} \subseteq after.asker => r = w

\* One server moves on, to a state that fits.
LEMMA ServerMoves ==
    ASSUME DInv, NEW s \in DriftServer, NEW after, NEW said, NEW gave, Fits(after, said, gave),
           entry' = entry, drift' = [drift EXCEPT ![s] = after],
           told' = [told EXCEPT ![s] = said], notices' = [notices EXCEPT ![s] = gave]
    PROVE  DInv'
<1> USE DEF Fits
<1>1. DriftTyped'
    BY DEF DInv, DriftTyped
<1>2. drift'[s] = after /\ told'[s] = said /\ notices'[s] = gave
      /\ \A u \in DriftServer \ {s} : drift'[u] = drift[u] /\ told'[u] = told[u] /\ notices'[u] = notices[u]
    BY DEF DInv, DriftTyped
<1>3. KnowsThePast' /\ InstalledIsDisk'
    BY <1>2 DEF DInv, KnowsThePast, InstalledIsDisk
<1>4. Remembered'
    BY <1>2 DEF DInv, Remembered
<1> QED BY <1>1, <1>3, <1>4 DEF DInv

\* A read that met a newer file is kept under the older stamp; what is told is remembered in the same step.
LEMMA DriftSteps == DInv /\ DriftNext => DInv'
<1> SUFFICES ASSUME DInv, DriftNext PROVE DInv'
    OBVIOUS
<1>0. /\ entry \in [stamp : 1..MaxDeploy + 1, bundle : Bundle] /\ entry.stamp \in Nat
      /\ drift \in [DriftServer -> DriftStates]
      /\ told \in [DriftServer -> [Bundle -> 0..1]] /\ notices \in [DriftServer -> [Reader -> 0..1]]
    BY DriftBound DEF DInv, DriftTyped
<1>1. ASSUME Deploys PROVE DInv'
    <2>1. PICK v \in Bundle : entry' = [stamp |-> entry.stamp + 1, bundle |-> v]
        BY <1>1 DEF Deploys
    <2>2. entry.stamp + 1 \in 1..MaxDeploy + 1 /\ entry'.stamp = entry.stamp + 1 /\ UNCHANGED <<drift, told, notices>>
        BY <1>0, <1>1, <2>1, DriftBound DEF Deploys
    <2>3. DriftTyped'
        BY <1>0, <2>1, <2>2 DEF DriftTyped
    <2>4. \A s \in DriftServer : drift[s].stat \in Nat /\ drift[s].installed.stamp \in Nat
        BY <1>0 DEF DriftStates
    <2>5. KnowsThePast'
        BY <1>0, <2>2, <2>4 DEF DInv, KnowsThePast
    <2>6. InstalledIsDisk'
        BY <1>0, <2>2, <2>4 DEF DInv, InstalledIsDisk, KnowsThePast
    <2>7. Remembered'
        BY <2>2 DEF DInv, Remembered
    <2> QED BY <2>3, <2>5, <2>6, <2>7 DEF DInv
<1>2. ASSUME NEW s \in DriftServer, Launches(s) \/ Stats(s) \/ DriftStep(s) PROVE DInv'
    <2>0. /\ drift[s] \in DriftStates /\ drift[s].stat <= entry.stamp /\ drift[s].installed.stamp <= entry.stamp
          /\ drift[s].installed.stamp = entry.stamp => drift[s].installed.bundle = entry.bundle
          /\ \A v \in Bundle : told[s][v] = 1 => v \in drift[s].announced
          /\ \A r \in Reader : notices[s][r] = 1 => r \in drift[s].noticed
          /\ \A r, w \in Reader : {r, w} \subseteq drift[s].asker => r = w
          /\ told[s] \in [Bundle -> 0..1] /\ notices[s] \in [Reader -> 0..1]
          /\ told = [told EXCEPT ![s] = told[s]] /\ notices = [notices EXCEPT ![s] = notices[s]]
        BY <1>0 DEF DInv, KnowsThePast, InstalledIsDisk, Remembered
    <2>1. CASE Launches(s)
        <3> DEFINE after == [drift[s] EXCEPT !.at = "loaded", !.loaded = entry.bundle]
        <3>1. drift' = [drift EXCEPT ![s] = after] /\ UNCHANGED <<entry, told, notices>>
            BY <1>0, <2>1 DEF Launches
        <3>2. after \in DriftStates
            BY <1>0, <2>0 DEF DriftStates, Content
        <3>3. after.stat = drift[s].stat /\ after.installed = drift[s].installed /\ after.announced = drift[s].announced
              /\ after.noticed = drift[s].noticed /\ after.asker = drift[s].asker
            BY <2>0 DEF DriftStates
        <3> HIDE DEF after
        <3>20. Fits(after, told[s], notices[s])
            BY <2>0, <3>1, <3>2, <3>3 DEF Fits
        <3>21. entry' = entry /\ told' = [told EXCEPT ![s] = told[s]] /\ notices' = [notices EXCEPT ![s] = notices[s]]
            BY <2>0, <3>1, <3>2, <3>3
        <3>22. drift' = [drift EXCEPT ![s] = after]
            BY <3>1
        <3> QED BY <3>20, <3>21, <3>22, ServerMoves
    <2>2. CASE RunningBundle(s)
        <3> DEFINE after == [drift[s] EXCEPT !.at = "rest", !.running = entry.bundle]
        <3>1. drift' = [drift EXCEPT ![s] = after] /\ UNCHANGED <<entry, told, notices>>
            BY <1>0, <2>2 DEF RunningBundle
        <3>2. after \in DriftStates
            BY <1>0, <2>0 DEF DriftStates, Content
        <3>3. after.stat = drift[s].stat /\ after.installed = drift[s].installed /\ after.announced = drift[s].announced
              /\ after.noticed = drift[s].noticed /\ after.asker = drift[s].asker
            BY <2>0 DEF DriftStates
        <3> HIDE DEF after
        <3>20. Fits(after, told[s], notices[s])
            BY <2>0, <3>1, <3>2, <3>3 DEF Fits
        <3>21. entry' = entry /\ told' = [told EXCEPT ![s] = told[s]] /\ notices' = [notices EXCEPT ![s] = notices[s]]
            BY <2>0, <3>1, <3>2, <3>3
        <3>22. drift' = [drift EXCEPT ![s] = after]
            BY <3>1
        <3> QED BY <3>20, <3>21, <3>22, ServerMoves
    <2>3. CASE Stats(s)
        <3>1. PICK who \in {{}} \cup {{r} : r \in Reader} :
                  drift' = [drift EXCEPT ![s].stat = entry.stamp, ![s].asker = who,
                                 ![s].at = IF drift[s].installed.stamp = entry.stamp THEN "judge" ELSE "read"]
            BY <2>3 DEF Stats
        <3> DEFINE after == [drift[s] EXCEPT !.stat = entry.stamp, !.asker = who,
                                 !.at = IF drift[s].installed.stamp = entry.stamp THEN "judge" ELSE "read"]
        <3>2. drift' = [drift EXCEPT ![s] = after] /\ UNCHANGED <<entry, told, notices>>
            BY <1>0, <2>3, <3>1 DEF Stats
        <3>3. who \in SUBSET Reader /\ \A r, w \in Reader : {r, w} \subseteq who => r = w
            BY <3>1
        <3>4. after \in DriftStates
            BY <1>0, <2>0, <3>3 DEF DriftStates
        <3>5. after.stat = entry.stamp /\ after.installed = drift[s].installed /\ after.announced = drift[s].announced
              /\ after.noticed = drift[s].noticed /\ after.asker = who
            BY <2>0 DEF DriftStates
        <3>6. entry.stamp <= entry.stamp
            BY <1>0
        <3> HIDE DEF after
        <3>20. Fits(after, told[s], notices[s])
            BY <2>0, <3>2, <3>3, <3>4, <3>5, <3>6 DEF Fits
        <3>21. entry' = entry /\ told' = [told EXCEPT ![s] = told[s]] /\ notices' = [notices EXCEPT ![s] = notices[s]]
            BY <2>0, <3>2, <3>3, <3>4, <3>5, <3>6
        <3> QED BY <3>20, <3>21, <3>2, ServerMoves
    <2>4. CASE Reads(s)
        <3> DEFINE after == [drift[s] EXCEPT !.at = "judge", !.installed = [stamp |-> StampOf(s), bundle |-> entry.bundle]]
        <3>1. drift' = [drift EXCEPT ![s] = after] /\ UNCHANGED <<entry, told, notices>>
            BY <1>0, <2>4 DEF Reads
        <3>2. after \in DriftStates
            BY <1>0, <2>0 DEF DriftStates, Content, StampOf
        <3>3. after.stat = drift[s].stat /\ after.installed.stamp = drift[s].stat /\ after.installed.bundle = entry.bundle
              /\ after.announced = drift[s].announced
              /\ after.noticed = drift[s].noticed /\ after.asker = drift[s].asker
            BY <2>0 DEF DriftStates, StampOf
        <3> HIDE DEF after
        <3>20. Fits(after, told[s], notices[s])
            BY <2>0, <3>1, <3>2, <3>3 DEF Fits
        <3>21. entry' = entry /\ told' = [told EXCEPT ![s] = told[s]] /\ notices' = [notices EXCEPT ![s] = notices[s]]
            BY <2>0, <3>1, <3>2, <3>3
        <3>22. drift' = [drift EXCEPT ![s] = after]
            BY <3>1
        <3> QED BY <3>20, <3>21, <3>22, ServerMoves
    <2>5. CASE Watch(s)
        <3> DEFINE v == drift[s].installed.bundle
                   stale == Stale(s, drift[s].installed)
                   tells == stale /\ Announces(s)
                   after == [drift[s] EXCEPT !.at = "rest", !.final = IF stale THEN @ \cup {v} ELSE @,
                                 !.announced = IF tells THEN @ \cup {v} ELSE @]
                   said == IF tells THEN [told[s] EXCEPT ![v] = @ + 1] ELSE told[s]
        <3>1. drift' = [drift EXCEPT ![s] = after] /\ UNCHANGED <<entry, notices>>
            BY <1>0, <2>5 DEF Watch
        <3>2. told' = [told EXCEPT ![s] = said]
            BY <1>0, <2>0, <2>5 DEF Watch
        <3>3. v \in Content
            BY <2>0 DEF DriftStates
        <3>4. after \in DriftStates
            BY <2>0, <3>3 DEF DriftStates
        <3>5. after.stat = drift[s].stat /\ after.installed = drift[s].installed
              /\ after.announced = (IF tells THEN drift[s].announced \cup {v} ELSE drift[s].announced)
              /\ after.noticed = drift[s].noticed /\ after.asker = drift[s].asker
            BY <2>0 DEF DriftStates
        <3>6. tells /\ v \in Bundle => told[s][v] = 0
            BY <2>0 DEF Announces
        <3>7. said \in [Bundle -> 0..1] /\ \A u \in Bundle : said[u] = 1 => u \in after.announced
            <4>1. CASE tells /\ v \in Bundle
                <5>1. said = [told[s] EXCEPT ![v] = 1]
                    BY <3>6, <4>1
                <5> QED BY <2>0, <3>5, <4>1, <5>1
            <4>2. CASE tells /\ v \notin Bundle
                <5>1. said = told[s]
                    BY <2>0, <4>2
                <5>2. \A u \in Bundle : u \in drift[s].announced => u \in after.announced
                    BY <3>5
                <5> HIDE DEF said, after
                <5> QED BY <2>0, <5>1, <5>2
            <4>3. CASE ~tells
                BY <2>0, <3>5, <4>3
            <4> QED BY <4>1, <4>2, <4>3
        <3> HIDE DEF after, said
        <3>20. Fits(after, said, notices[s])
            BY <2>0, <3>1, <3>2, <3>4, <3>5, <3>7 DEF Fits
        <3>21. entry' = entry /\ told' = [told EXCEPT ![s] = said] /\ notices' = [notices EXCEPT ![s] = notices[s]]
            BY <2>0, <3>1, <3>2, <3>4, <3>5, <3>7
        <3>22. drift' = [drift EXCEPT ![s] = after]
            BY <3>1
        <3> QED BY <3>20, <3>21, <3>22, ServerMoves
    <2>6. CASE Notice(s)
        <3> DEFINE asks == drift[s].asker
                   full == Stale(s, drift[s].installed) /\ ~asks \subseteq drift[s].noticed
                   after == [drift[s] EXCEPT !.at = "rest", !.asker = {}, !.noticed = IF full THEN @ \cup asks ELSE @]
                   gave == [r \in Reader |-> IF full /\ r \in asks THEN notices[s][r] + 1 ELSE notices[s][r]]
        <3>1. drift' = [drift EXCEPT ![s] = after] /\ UNCHANGED <<entry, told>>
            BY <1>0, <2>6 DEF Notice
        <3>2. notices' = [notices EXCEPT ![s] = gave]
            BY <1>0, <2>6 DEF Notice
        <3>3. asks \subseteq Reader
            BY <2>0 DEF DriftStates
        <3>4. after \in DriftStates
            BY <2>0, <3>3 DEF DriftStates
        <3>5. after.stat = drift[s].stat /\ after.installed = drift[s].installed /\ after.announced = drift[s].announced
              /\ after.noticed = (IF full THEN drift[s].noticed \cup asks ELSE drift[s].noticed) /\ after.asker = {}
            BY <2>0 DEF DriftStates
        <3>6. \A r \in Reader : full /\ r \in asks => r \notin drift[s].noticed
            BY <2>0, <3>3
        <3>7. \A r \in Reader : full /\ r \in asks => notices[s][r] = 0
            BY <2>0, <3>6
        <3>8. gave \in [Reader -> 0..1]
            BY <2>0, <3>7
        <3>9. \A r \in Reader : gave[r] = 1 => r \in after.noticed
            BY <2>0, <3>5
        <3>10. \A r, w \in Reader : {r, w} \subseteq after.asker => r = w
            BY <3>5
        <3> HIDE DEF after, gave
        <3>20. Fits(after, told[s], gave)
            BY <2>0, <3>1, <3>2, <3>4, <3>5, <3>8, <3>9, <3>10 DEF Fits
        <3>21. entry' = entry /\ told' = [told EXCEPT ![s] = told[s]] /\ notices' = [notices EXCEPT ![s] = gave]
            BY <2>0, <3>1, <3>2, <3>4, <3>5, <3>8, <3>9, <3>10
        <3>22. drift' = [drift EXCEPT ![s] = after]
            BY <3>1
        <3> QED BY <3>20, <3>21, <3>22, ServerMoves
    <2> QED BY <1>2, <2>1, <2>2, <2>3, <2>4, <2>5, <2>6 DEF DriftStep
<1> QED BY <1>1, <1>2 DEF DriftNext

\* The safety properties of the drift watch follow.
LEMMA DriftSafe == DInv => DriftInv
<1> SUFFICES ASSUME DInv PROVE DriftInv
    OBVIOUS
<1>1. DriftTypeOK
    BY DEF DInv, DriftTyped, DriftStates, Content, DriftTypeOK
<1>2. \A s \in DriftServer : (\A v \in Bundle : told[s][v] \in 0..1) /\ (\A r \in Reader : notices[s][r] \in 0..1)
    BY DEF DInv, DriftTyped
<1>3. SaidOnce
    BY <1>2 DEF SaidOnce
<1> QED BY <1>1, <1>3 DEF DInv, DriftInv

\* Nothing changes while the servers rest.
LEMMA DriftRests == DInv /\ UNCHANGED driftVars => DInv'
BY DEF driftVars, DInv, DriftTyped, KnowsThePast, InstalledIsDisk, Remembered

(* What a server keeps of the installed bundle is what the file holds, as    *)
(* long as the file is the one it looked at, and it announces a bundle once, *)
(* whoever deploys in between (bundle-drift.js, watchForStaleBundle of       *)
(* index.js).                                                                *)
THEOREM DriftKept == HostSpec => []DriftInv
<1>1. HostInit => DInv
    BY DriftStarts DEF HostInit
<1>2. DInv /\ [HostNext]_hostVars => DInv'
    BY DriftSteps, DriftRests DEF HostNext, Reaps, Drifts, hostVars
<1>3. DInv => DriftInv
    BY DriftSafe
<1> QED BY <1>1, <1>2, <1>3, PTL DEF HostSpec

-----------------------------------------------------------------------------
(* The leak watch and its reaper.                                             *)

\* Of some naturals one is the least.
LEMMA LeastOf ==
    ASSUME NEW S \in SUBSET Nat, S # {}
    PROVE  \E n \in S : \A m \in S : n <= m
<1> DEFINE Less == {p \in Nat \X Nat : p[1] < p[2]}
<1>1. IsWellFoundedOn(Less, Nat)
    BY NatLessThanWellFounded DEF OpToRel
<1>2. PICK n \in S : \A m \in S : ~ (<<m, n>> \in Less)
    <2> HIDE DEF Less
    <2> QED BY <1>1, WFMin
<1>3. \A m \in S : ~(m < n)
    BY <1>2
<1> QED BY <1>3

\* A chain of parents can be followed as far as one likes.
Follows(up, table, p, last) ==
    up = [hop \in 0..last |-> IF hop = 0 THEN table[p].parent
                              ELSE IF up[hop - 1] \in Pid THEN table[up[hop - 1]].parent ELSE NoPid]

\* There is such a chain of every length.
LEMMA ChainsExist ==
    ASSUME NEW table, NEW p
    PROVE  \A n \in Nat : \E up : Follows(up, table, p, n)
<1> DEFINE Short == {n \in Nat : ~ \E up : Follows(up, table, p, n)}
<1> SUFFICES ASSUME Short # {} PROVE FALSE
    OBVIOUS
<1>1. PICK n \in Short : \A m \in Short : n <= m
    <2>1. Short \in SUBSET Nat
        OBVIOUS
    <2> HIDE DEF Short
    <2> QED BY <2>1, LeastOf
<1>2. n \in Nat
    BY <1>1
<1>3. CASE n = 0
    <2> DEFINE first == [hop \in 0..0 |-> table[p].parent]
    <2>1. Follows(first, table, p, 0)
        BY DEF Follows
    <2> HIDE DEF first
    <2> QED BY <1>1, <1>3, <2>1
<1>4. CASE n # 0
    <2>1. n - 1 \in Nat /\ n - 1 \notin Short
        BY <1>1, <1>2, <1>4
    <2>2. PICK up : Follows(up, table, p, n - 1)
        BY <2>1
    <2> DEFINE last == IF up[n - 1] \in Pid THEN table[up[n - 1]].parent ELSE NoPid
               longer == [hop \in 0..n |-> IF hop = n THEN last ELSE up[hop]]
    <2>3. \A hop \in 0..n - 1 : up[hop] = IF hop = 0 THEN table[p].parent
                                          ELSE IF up[hop - 1] \in Pid THEN table[up[hop - 1]].parent ELSE NoPid
        BY <2>2 DEF Follows
    <2>4. \A hop \in 0..n : longer[hop] = IF hop = 0 THEN table[p].parent
                                          ELSE IF longer[hop - 1] \in Pid THEN table[longer[hop - 1]].parent ELSE NoPid
        <3> SUFFICES ASSUME NEW hop \in 0..n
                     PROVE  longer[hop] = IF hop = 0 THEN table[p].parent
                                          ELSE IF longer[hop - 1] \in Pid THEN table[longer[hop - 1]].parent ELSE NoPid
            OBVIOUS
        <3>1. CASE hop = n
            BY <1>2, <1>4, <3>1
        <3>2. CASE hop # n
            <4>1. hop \in 0..n - 1 /\ (hop # 0 => hop - 1 \in 0..n /\ hop - 1 # n)
                BY <1>2, <3>2
            <4> QED BY <2>3, <3>2, <4>1
        <3> QED BY <3>1, <3>2
    <2>5. Follows(longer, table, p, n)
        BY <2>4 DEF Follows
    <2> HIDE DEF longer
    <2> QED BY <1>1, <2>5
<1> QED BY <1>3, <1>4

\* What Chain gives: the parent, its parent, and so on.
LEMMA ChainIs ==
    ASSUME NEW table, NEW p, NEW hop \in 0..MAX_PARENT_HOPS
    PROVE  Chain(table, p)[hop] =
               IF hop = 0 THEN table[p].parent
               ELSE IF Chain(table, p)[hop - 1] \in Pid THEN table[Chain(table, p)[hop - 1]].parent ELSE NoPid
<1>1. \E up : Follows(up, table, p, MAX_PARENT_HOPS)
    BY ChainsExist, ReaperAssumption DEF ReaperAssumption
<1>2. Follows(Chain(table, p), table, p, MAX_PARENT_HOPS)
    BY <1>1 DEF Chain, Follows
<1> QED BY <1>2 DEF Follows

\* Whose child a process of each class may be.
Above(class) ==
    CASE class = "stdio" -> {"client", "shell", "supervisor", "session"}
      [] class = "shell" -> {"client", "session"}
      [] class = "http"  -> {"shell", "session"}
      [] class = "exec"  -> {"runner"}
      [] OTHER           -> {}
Family(h) ==
    \A p \in Pid : /\ h[p].class = "free" => h[p].parent = NoPid
                   /\ h[p].parent \in Pid => h[h[p].parent].class \in Above(h[p].class)

\* Until a pass is over, a pid of its table is that process or nobody, which keeps its
\* parent or is given to init or a session manager.
TableIsPast ==
    \A p \in Pid : sweep.table[p].class # "free" =>
        /\ host[p].class \in {"free", sweep.table[p].class}
        /\ host[p].class # "free" => host[p].parent \in {sweep.table[p].parent, Init1} \cup Of("session")
        /\ sweep.table[p].parent \in Pid => sweep.table[sweep.table[p].parent].class # "free"

\* Whom a pass has marked may be ended from then on, and after its end.
Spared(p) ==
    /\ p # Self
    /\ host[p].class = "stdio" => ~Driven(p)
    /\ host[p].class = "runner" => p # owner
MarkedAreSpared == \A p \in (sweep.doomed \ {Init1}) \cup struck : Spared(p)
StruckRun == \A p \in struck : host[p].class # "free"
PortIsOwned == \A p \in Of("http") : registry = p
ServerRuns == host[Self].class = "stdio"
Sweeps == [at : {"off", "assess", "apply"}, auto : BOOLEAN, table : [Pid -> Procs],
           todo : SUBSET (Pid \cup {Init1}), doomed : SUBSET (Pid \cup {Init1}), shared : SUBSET Pid, count : Nat]
HostTyped ==
    /\ host \in [Pid -> Procs]
    /\ ledger \subseteq Pid /\ seen \in [Pid -> Pid \cup {NoPid, Init1}]
    /\ registry \in Pid \cup {NoPid} /\ owner \in Pid \cup {NoPid}
    /\ struck \subseteq Pid
RInv == /\ HostTyped /\ sweep \in Sweeps
        /\ Family(host) /\ TableIsPast /\ MarkedAreSpared /\ StruckRun /\ PortIsOwned /\ ServerRuns

\* The pids that are none.
LEMMA NoPids == NoPid \notin Pid /\ Init1 \notin Pid /\ NoPid # Init1 /\ Self \in Pid
BY ReaperAssumption DEF ReaperAssumption, NoPid, Init1

\* A client above a server is its parent, or the parent of the shell it is in.
Clients(h) == {p \in Pid : h[p].class = "client"}
Near(h, p) ==
    \/ MAX_PARENT_HOPS >= 1 /\ h[p].parent \in Clients(h)
    \/ MAX_PARENT_HOPS >= 2 /\ h[p].parent \in Pid /\ h[h[p].parent].parent \in Clients(h)

\* So no longer chain leads to a client: nobody is a child of a server or of an exec child.
LEMMA DrivenIsNear ==
    ASSUME NEW h \in [Pid -> Procs], Family(h), NEW p \in Pid, h[p].class = "stdio"
    PROVE  (\E hop \in 0..MAX_PARENT_HOPS - 1 : Chain(h, p)[hop] \in Clients(h)) <=> Near(h, p)
<1> DEFINE c == Chain(h, p)
<1>1. \A hop \in 0..MAX_PARENT_HOPS :
          c[hop] = IF hop = 0 THEN h[p].parent ELSE IF c[hop - 1] \in Pid THEN h[c[hop - 1]].parent ELSE NoPid
    BY ChainIs
<1>3. MAX_PARENT_HOPS \in Nat
    BY ReaperAssumption DEF ReaperAssumption
<1>4. Clients(h) \subseteq Pid
    BY DEF Clients
<1> HIDE DEF c
<1>5. ASSUME Near(h, p) PROVE \E hop \in 0..MAX_PARENT_HOPS - 1 : c[hop] \in Clients(h)
    <2>1. CASE MAX_PARENT_HOPS >= 1 /\ h[p].parent \in Clients(h)
        <3>1. 0 \in 0..MAX_PARENT_HOPS - 1 /\ c[0] = h[p].parent
            BY <1>1, <1>3, <2>1
        <3> QED BY <2>1, <3>1
    <2>2. CASE MAX_PARENT_HOPS >= 2 /\ h[p].parent \in Pid /\ h[h[p].parent].parent \in Clients(h)
        <3>1. 1 \in 0..MAX_PARENT_HOPS - 1 /\ 0 \in 0..MAX_PARENT_HOPS /\ 1 \in 0..MAX_PARENT_HOPS
            BY <1>3, <2>2
        <3>2. c[0] = h[p].parent /\ c[1] = h[c[0]].parent
            BY <1>1, <2>2, <3>1
        <3> QED BY <2>2, <3>1, <3>2
    <2> QED BY <1>5, <2>1, <2>2 DEF Near
<1>6. ASSUME NEW hop \in 0..MAX_PARENT_HOPS - 1, c[hop] \in Clients(h) PROVE Near(h, p)
    <2>1. c[hop] \in Clients(h)
        BY <1>6
    <2>2. CASE hop = 0
        BY <1>1, <1>3, <2>1, <2>2 DEF Near
    <2>3. CASE hop = 1
        <3>1. MAX_PARENT_HOPS >= 2 /\ 0 \in 0..MAX_PARENT_HOPS /\ 1 \in 0..MAX_PARENT_HOPS
            BY <1>3, <2>3
        <3>2. c[0] = h[p].parent /\ c[0] \in Pid /\ c[1] = h[c[0]].parent
            BY <1>1, <1>4, <2>1, <2>3, <3>1, NoPids
        <3> QED BY <2>1, <2>3, <3>1, <3>2 DEF Near
    <2>4. CASE hop > 1
        <3>1. hop \in 0..MAX_PARENT_HOPS /\ hop - 1 \in 0..MAX_PARENT_HOPS /\ hop - 2 \in 0..MAX_PARENT_HOPS /\ hop - 1 # 0
            BY <1>3, <2>4
        <3>2. c[hop - 1] \in Pid /\ c[hop] = h[c[hop - 1]].parent
            BY <1>1, <1>4, <2>1, <2>4, <3>1, NoPids
        <3>3. c[hop - 2] \in Pid /\ c[hop - 1] = h[c[hop - 2]].parent
            <4>1. c[hop - 1] = IF c[(hop - 1) - 1] \in Pid THEN h[c[(hop - 1) - 1]].parent ELSE NoPid
                BY <1>1, <3>1
            <4> QED BY <3>2, <4>1, NoPids
        <3>4. \E q \in Pid : h[q].parent = c[hop - 2]
            <4>1. CASE hop = 2
                BY <1>1, <3>1, <4>1
            <4>2. CASE hop > 2
                <5>1. hop - 2 # 0 /\ (hop - 2) - 1 = hop - 3
                    BY <4>2
                <5>2. c[hop - 2] = IF c[hop - 3] \in Pid THEN h[c[hop - 3]].parent ELSE NoPid
                    BY <1>1, <3>1, <5>1
                <5> QED BY <3>3, <5>2, NoPids
            <4> QED BY <2>4, <4>1, <4>2
        <3>5. PICK q \in Pid : h[q].parent = c[hop - 2]
            BY <3>4
        <3>6. h[c[hop]].class = "client" /\ c[hop] \in Pid
            BY <2>1 DEF Clients
        <3>7. h[c[hop - 1]].class \in {"stdio", "shell"}
            BY <3>2, <3>6 DEF Family, Above
        <3>8. h[c[hop - 2]].class \in {"stdio", "http"}
            BY <3>2, <3>3, <3>7 DEF Family, Above
        <3> QED BY <3>3, <3>5, <3>8 DEF Family, Above
    <2> QED BY <2>2, <2>3, <2>4
<1>7. (\E hop \in 0..MAX_PARENT_HOPS - 1 : c[hop] \in Clients(h)) <=> Near(h, p)
    BY <1>5, <1>6
<1> QED BY <1>7 DEF c


\* What the host does to processes that run: they end, or lose a parent to init or a session.
GoesOn ==
    \A q \in Pid : host[q].class # "free" =>
        /\ host'[q].class \in {"free", host[q].class}
        /\ host'[q].class # "free" =>
               \/ host'[q].parent \in {host[q].parent, Init1}
               \/ host'[q].parent \in Pid /\ host'[host'[q].parent].class = "session"

\* No client comes to be above a server.
LEMMA StaysUndriven ==
    ASSUME host \in [Pid -> Procs], Family(host), host' \in [Pid -> Procs], Family(host'), GoesOn,
           NEW p \in Pid, host[p].class = "stdio", host'[p].class = "stdio", Driven(p)'
    PROVE  Driven(p)
<1>1. Near(host', p)
    BY DrivenIsNear DEF Driven, Of, Clients
<1>2. Near(host, p) => Driven(p)
    BY DrivenIsNear DEF Driven, Of, Clients
<1>3. \A q \in Pid : host'[q].parent \in Pid /\ host[q].class # "free" /\ host'[q].class # "free" =>
          host'[q].parent = host[q].parent \/ host'[host'[q].parent].class = "session"
    BY NoPids DEF GoesOn
<1>4. CASE MAX_PARENT_HOPS >= 1 /\ host'[p].parent \in Clients(host')
    <2>1. host'[p].parent = host[p].parent /\ host[p].parent \in Pid
        BY <1>3, <1>4 DEF Clients
    <2>2. host[host[p].parent].class = "client"
        BY <1>4, <2>1 DEF GoesOn, Family, Above, Clients
    <2> QED BY <1>2, <1>4, <2>1, <2>2 DEF Near, Clients
<1>5. CASE MAX_PARENT_HOPS >= 2 /\ host'[p].parent \in Pid /\ host'[host'[p].parent].parent \in Clients(host')
    <2>1. PICK r \in Pid : r = host'[p].parent
        BY <1>5
    <2>2. PICK g \in Pid : g = host'[r].parent /\ host'[g].class = "client"
        BY <1>5, <2>1 DEF Clients
    <2>3. host'[r].class \in {"client", "shell", "supervisor", "session"}
        BY <2>1 DEF Family, Above
    <2>4. host'[r].class = "shell"
        BY <2>2, <2>3 DEF Family, Above
    <2>5. host[p].parent = r
        BY <1>3, <2>1, <2>4
    <2>6. host[r].class = "shell"
        BY <2>4, <2>5 DEF Family, Above, GoesOn
    <2>7. host[r].parent = g
        BY <1>3, <2>2, <2>4, <2>6
    <2>8. host[g].class = "client"
        BY <2>2, <2>6, <2>7 DEF Family, Above, GoesOn
    <2> QED BY <1>2, <1>5, <2>5, <2>7, <2>8 DEF Near, Clients
<1> QED BY <1>1, <1>4, <1>5 DEF Near

\* Whom the walk over the table finds no client above has none: what is above it now was there then.
LEMMA LeakedIsSpared ==
    ASSUME RInv, NEW p \in Pid, LeakedServer(p)
    PROVE  Spared(p)
<1>0. host \in [Pid -> Procs] /\ Family(host) /\ TableIsPast /\ MAX_PARENT_HOPS \in Nat
    BY ReaperAssumption DEF RInv, HostTyped, ReaperAssumption
<1>1. sweep.table[p].class = "stdio" /\ p # Self /\ host[p].class = "stdio"
    BY <1>0, NoPids DEF LeakedServer, TableIsPast, Runs
<1> SUFFICES ASSUME Driven(p) PROVE FALSE
    BY <1>1 DEF Spared
<1>2. Near(host, p)
    BY <1>0, <1>1, DrivenIsNear DEF Driven, Of, Clients
<1>3. ~ClientInChain(p)
    BY DEF LeakedServer, ClientAbove
<1> DEFINE c == Chain(sweep.table, p)
<1>4. \A hop \in 0..MAX_PARENT_HOPS : c[hop] = IF hop = 0 THEN sweep.table[p].parent
                                               ELSE IF c[hop - 1] \in Pid THEN sweep.table[c[hop - 1]].parent ELSE NoPid
    BY ChainIs
<1>5. ~ \E hop \in 0..MAX_PARENT_HOPS - 1 : /\ \A h \in 0..hop : c[h] \in Pid /\ Runs(c[h])
                                            /\ sweep.table[c[hop]].class = "client"
    BY <1>3 DEF ClientInChain
<1> HIDE DEF c
\* A parent that is no session manager is the one in the table, of the class it had.
<1>6. ASSUME NEW q \in Pid, NEW r \in Pid, sweep.table[q].class # "free", host[q].class # "free",
             r = host[q].parent, host[r].class \notin {"free", "session"}
      PROVE  r = sweep.table[q].parent /\ sweep.table[r].class = host[r].class
    <2>1. r = sweep.table[q].parent
        BY <1>0, <1>6, NoPids DEF TableIsPast, Of
    <2> QED BY <1>0, <1>6, <2>1 DEF TableIsPast
<1>7. CASE MAX_PARENT_HOPS >= 1 /\ host[p].parent \in Clients(host)
    <2>1. PICK r \in Pid : r = host[p].parent /\ host[r].class = "client"
        BY <1>7 DEF Clients
    <2>2. r = sweep.table[p].parent /\ sweep.table[r].class = "client"
        BY <1>1, <1>6, <2>1
    <2>3. 0 \in 0..MAX_PARENT_HOPS /\ 0 \in 0..MAX_PARENT_HOPS - 1 /\ 0..0 = {0}
        BY <1>0, <1>7
    <2>4. c[0] = r
        BY <1>4, <2>2, <2>3
    <2>5. Runs(r)
        BY <2>1 DEF Runs
    <2> QED BY <1>5, <2>2, <2>3, <2>4, <2>5
<1>8. CASE MAX_PARENT_HOPS >= 2 /\ host[p].parent \in Pid /\ host[host[p].parent].parent \in Clients(host)
    <2>1. PICK r \in Pid : r = host[p].parent
        BY <1>8
    <2>2. PICK g \in Pid : g = host[r].parent /\ host[g].class = "client"
        BY <1>8, <2>1 DEF Clients
    <2>3. host[r].class = "shell"
        BY <1>0, <1>1, <2>1, <2>2 DEF Family, Above
    <2>4. r = sweep.table[p].parent /\ sweep.table[r].class = "shell"
        BY <1>1, <1>6, <2>1, <2>3
    <2>5. g = sweep.table[r].parent /\ sweep.table[g].class = "client"
        BY <1>6, <2>2, <2>3, <2>4
    <2>6. /\ 0 \in 0..MAX_PARENT_HOPS /\ 1 \in 0..MAX_PARENT_HOPS /\ 1 \in 0..MAX_PARENT_HOPS - 1
          /\ 0..1 = {0, 1} /\ 1 - 1 = 0
        BY <1>0, <1>8
    <2>7. c[0] = r
        BY <1>4, <2>4, <2>6
    <2>8. c[1] = g
        BY <1>4, <2>5, <2>6, <2>7
    <2>9. Runs(r) /\ Runs(g)
        BY <2>2, <2>3 DEF Runs
    <2> QED BY <1>5, <2>5, <2>6, <2>7, <2>8, <2>9
<1> QED BY <1>2, <1>7, <1>8 DEF Near

\* Between two passes.
LEMMA NoSweepFits ==
    /\ NoSweep \in Sweeps /\ NoSweep.doomed = {} /\ \A p \in Pid : NoSweep.table[p].class = "free"
BY DEF NoSweep, Sweeps, Free, Procs

\* Before the first pass nothing is marked.
LEMMA ReapStarts == ReapInit => RInv
<1> SUFFICES ASSUME ReapInit PROVE RInv
    OBVIOUS
<1>1. First \in Pid \ {Self}
    BY NoPids, ReaperAssumption DEF ReaperAssumption, First
<1>2. HostTyped
    BY <1>1, NoPids DEF ReapInit, HostTyped, Procs, Class, Free
<1>3. Family(host) /\ ServerRuns
    BY <1>1, NoPids DEF ReapInit, Family, Above, Free, ServerRuns
<1>4. PortIsOwned
    BY <1>1 DEF ReapInit, PortIsOwned, Of, Free
<1>5. sweep \in Sweeps /\ TableIsPast /\ MarkedAreSpared /\ StruckRun
    BY NoSweepFits DEF ReapInit, TableIsPast, MarkedAreSpared, StruckRun
<1> QED BY <1>2, <1>3, <1>4, <1>5 DEF RInv

\* The host goes on, and a pass with what it has read.
LEMMA HostMoves ==
    ASSUME RInv, host' \in [Pid -> Procs], Family(host'), GoesOn, sweep' = sweep,
           \A q \in Pid : host[q].class = "free" /\ host'[q].class # "free" =>
               sweep.table[q].class = "free" /\ q \notin sweep.doomed,
           struck' \subseteq struck, \A q \in struck' : host'[q].class # "free",
           \A q \in Pid : host[q].class = "runner" /\ owner' = q => owner = q
    PROVE  (TableIsPast /\ MarkedAreSpared /\ StruckRun)'
<1>0. host \in [Pid -> Procs] /\ Family(host) /\ struck \subseteq Pid /\ sweep.doomed \subseteq Pid \cup {Init1}
    BY DEF RInv, HostTyped, Sweeps
<1>1. TableIsPast'
    <2> SUFFICES ASSUME NEW q \in Pid, sweep.table[q].class # "free"
                 PROVE  /\ host'[q].class \in {"free", sweep.table[q].class}
                        /\ host'[q].class # "free" => host'[q].parent \in {sweep.table[q].parent, Init1} \cup Of("session")'
        BY DEF RInv, TableIsPast
    <2>1. host'[q].class # "free" => host[q].class # "free"
        OBVIOUS
    <2>2. host'[q].class \in {"free", sweep.table[q].class}
        BY <2>1 DEF RInv, TableIsPast, GoesOn
    <2>3. ASSUME host'[q].class # "free"
          PROVE  host'[q].parent \in {sweep.table[q].parent, Init1} \cup Of("session")'
        <3>1. CASE host'[q].parent = host[q].parent /\ host[q].parent \in Of("session")
            <4>1. host'[q].parent \in Pid /\ host[host'[q].parent].class = "session"
                BY <3>1 DEF Of
            <4>2. host'[host'[q].parent].class # "free"
                BY <4>1 DEF Family, Above
            <4>3. host'[host'[q].parent].class = "session"
                BY <4>1, <4>2 DEF GoesOn
            <4> QED BY <4>1, <4>3 DEF Of
        <3>2. CASE host'[q].parent = host[q].parent /\ host[q].parent \in {sweep.table[q].parent, Init1}
            BY <3>2
        <3>3. CASE host'[q].parent = Init1
            BY <3>3
        <3>4. CASE host'[q].parent \in Pid /\ host'[host'[q].parent].class = "session"
            BY <3>4 DEF Of
        <3> QED BY <2>1, <2>3, <3>1, <3>2, <3>3, <3>4 DEF GoesOn, RInv, TableIsPast
    <2> QED BY <2>2, <2>3
<1>2. MarkedAreSpared'
    <2> SUFFICES ASSUME NEW q \in (sweep.doomed \ {Init1}) \cup struck' PROVE Spared(q)'
        BY DEF MarkedAreSpared
    <2>1. q \in Pid /\ Spared(q)
        BY <1>0 DEF RInv, MarkedAreSpared
    <2>2. host[q].class = "free" => host'[q].class = "free"
        BY <2>1 DEF RInv, StruckRun
    <2>3. host'[q].class = "stdio" => ~Driven(q)'
        BY <1>0, <2>1, <2>2, StaysUndriven DEF Spared, GoesOn
    <2>4. host'[q].class = "runner" => q # owner'
        BY <2>1, <2>2 DEF Spared, GoesOn
    <2> QED BY <2>1, <2>3, <2>4 DEF Spared
<1>3. StruckRun'
    BY DEF StruckRun
<1> QED BY <1>1, <1>2, <1>3

\* A process that starts is above nobody.
LEMMA StartSteps ==
    ASSUME RInv, NEW p \in Pid, NEW class \in Class, NEW parent \in Pid \cup {Init1}, Starts(p, class, parent)
    PROVE  RInv'
<1>0. HostTyped /\ Family(host) /\ host[p].class = "free" /\ sweep' = sweep /\ struck' = struck
    BY DEF RInv, Starts
<1> DEFINE born == [class |-> class, parent |-> parent, old |-> FALSE]
<1>1. host' = [host EXCEPT ![p] = born] /\ born \in Procs
    BY DEF Starts, Procs
<1>2. class # "free"
    BY DEF Class
<1>3. parent \in Pid => host[parent].class \in Above(class)
    BY NoPids DEF Starts, Starters, Of, Above, Class
<1>4. parent # p
    BY <1>0, <1>3 DEF Above
<1>5. \A q \in Pid : host[q].parent # p
    BY <1>0 DEF Family, Above
<1>6. host'[p] = born /\ \A q \in Pid \ {p} : host'[q] = host[q]
    BY <1>0, <1>1 DEF HostTyped
<1>7. HostTyped'
    BY <1>0, <1>1 DEF HostTyped, Starts
<1>8. Family(host')
    BY <1>0, <1>2, <1>3, <1>4, <1>5, <1>6 DEF Family
<1>9. GoesOn
    BY <1>0, <1>6 DEF GoesOn
<1>10. p \notin struck
    BY <1>0 DEF RInv, StruckRun
<1>11. \A q \in struck' : host'[q].class # "free"
    BY <1>0, <1>6, <1>10 DEF RInv, StruckRun, HostTyped
<1>12. \A q \in Pid : host[q].class = "runner" /\ owner' = q => owner = q
    BY <1>0 DEF Starts
<1>13. \A q \in Pid : host[q].class = "free" /\ host'[q].class # "free" =>
           sweep.table[q].class = "free" /\ q \notin sweep.doomed
    BY <1>6 DEF Starts
<1>14. (TableIsPast /\ MarkedAreSpared /\ StruckRun)'
    BY <1>0, <1>7, <1>8, <1>9, <1>11, <1>12, <1>13, HostMoves DEF HostTyped
<1>15. PortIsOwned'
    BY <1>0, <1>6 DEF RInv, PortIsOwned, Of, Starts
<1>16. ServerRuns'
    BY <1>0, <1>6, NoPids DEF RInv, ServerRuns
<1> QED BY <1>0, <1>7, <1>8, <1>14, <1>15, <1>16 DEF RInv

\* The children of one that ends lose what was above it.
LEMMA EndSteps ==
    ASSUME RInv, NEW p \in Pid, Ends(p)
    PROVE  RInv'
<1>0. /\ HostTyped /\ Family(host) /\ host[p].class # "free" /\ p # Self /\ sweep' = sweep
      /\ UNCHANGED <<ledger, registry, owner, seen>> /\ struck' = struck \ {p}
    BY NoPids DEF RInv, Ends, Runs
<1> DEFINE heir == IF host[p].parent \in Of("session") THEN host[p].parent ELSE Init1
<1>1. host' = [q \in Pid |-> IF q = p THEN Free
                             ELSE IF host[q].parent = p THEN [host[q] EXCEPT !.parent = heir] ELSE host[q]]
    BY DEF Ends
<1>2. heir \in Pid \cup {Init1}
    BY DEF Of
<1>3. heir \in Pid => /\ heir # p /\ host[heir].class = "session" /\ host[heir].parent \notin Pid
                      /\ host[p].class \in {"stdio", "shell", "http"}
    BY <1>0, NoPids DEF Of, Family, Above
<1> HIDE DEF heir
<1>4. /\ host'[p] = Free
      /\ \A q \in Pid \ {p} : /\ host'[q].class = host[q].class
                              /\ host'[q].parent = IF host[q].parent = p THEN heir ELSE host[q].parent
    BY <1>0, <1>1 DEF HostTyped, Procs
<1>5. host' \in [Pid -> Procs]
    <2>1. Free \in Procs
        BY DEF Free, Procs
    <2>2. \A q \in Pid : host[q] \in Procs /\ [host[q] EXCEPT !.parent = heir] \in Procs
        BY <1>0, <1>2 DEF HostTyped, Procs
    <2> QED BY <1>1, <2>1, <2>2
<1>6. Family(host')
    <2> SUFFICES ASSUME NEW q \in Pid
                 PROVE  /\ host'[q].class = "free" => host'[q].parent = NoPid
                        /\ host'[q].parent \in Pid => host'[host'[q].parent].class \in Above(host'[q].class)
        BY DEF Family
    <2>1. CASE q = p
        BY <1>4, <2>1, NoPids DEF Free
    <2>2. CASE q # p /\ host[q].parent = p
        <3>1. host[p].class \in Above(host[q].class) /\ host[q].class # "free"
            BY <1>0, <2>2 DEF Family, Above
        <3>2. heir \in Pid => "session" \in Above(host[q].class)
            BY <1>3, <3>1 DEF Above
        <3>3. heir \in Pid => host'[heir].class = "session"
            BY <1>3, <1>4
        <3> QED BY <1>4, <2>2, <3>1, <3>2, <3>3
    <2>3. CASE q # p /\ host[q].parent # p
        BY <1>0, <1>4, <2>3 DEF Family
    <2> QED BY <2>1, <2>2, <2>3
<1>7. GoesOn
    <2>1. heir \in Pid => host'[heir].class = "session"
        BY <1>3, <1>4
    <2> QED BY <1>2, <1>4, <2>1 DEF GoesOn, Free
<1>8. \A q \in struck' : host'[q].class # "free"
    BY <1>0, <1>4 DEF RInv, StruckRun, HostTyped
<1>9. \A q \in Pid : host[q].class = "free" /\ host'[q].class # "free" =>
           sweep.table[q].class = "free" /\ q \notin sweep.doomed
    BY <1>0, <1>4
<1>10. (TableIsPast /\ MarkedAreSpared /\ StruckRun)'
    BY <1>0, <1>5, <1>6, <1>7, <1>8, <1>9, HostMoves
<1>11. PortIsOwned'
    BY <1>0, <1>4 DEF RInv, PortIsOwned, Of, Free
<1>12. ServerRuns'
    BY <1>0, <1>4, NoPids DEF RInv, ServerRuns
<1>13. HostTyped'
    BY <1>0, <1>5 DEF HostTyped
<1> QED BY <1>0, <1>6, <1>10, <1>11, <1>12, <1>13 DEF RInv

\* Age changes nobody's parent.
LEMMA AgeSteps ==
    ASSUME RInv, NEW p \in Pid, Ages(p)
    PROVE  RInv'
<1>0. /\ HostTyped /\ Family(host) /\ sweep' = sweep
      /\ UNCHANGED <<ledger, registry, owner, struck, seen>> /\ host' = [host EXCEPT ![p].old = TRUE]
    BY DEF RInv, Ages
<1>1. \A q \in Pid : host'[q].class = host[q].class /\ host'[q].parent = host[q].parent
    BY <1>0 DEF HostTyped, Procs
<1>2. host' \in [Pid -> Procs]
    BY <1>0 DEF HostTyped, Procs
<1>3. Family(host') /\ GoesOn
    BY <1>0, <1>1 DEF Family, GoesOn
<1>4. (TableIsPast /\ MarkedAreSpared /\ StruckRun)'
    <2>1. \A q \in struck' : host'[q].class # "free"
        BY <1>0, <1>1 DEF RInv, StruckRun, HostTyped
    <2> QED BY <1>0, <1>1, <1>2, <1>3, <2>1, HostMoves
<1>5. PortIsOwned' /\ ServerRuns'
    BY <1>0, <1>1, NoPids DEF RInv, PortIsOwned, ServerRuns, Of
<1>6. HostTyped'
    BY <1>0, <1>2 DEF HostTyped
<1> QED BY <1>0, <1>3, <1>4, <1>5, <1>6 DEF RInv

\* A pass reads and signals, the host stands still.
LEMMA PassMoves ==
    ASSUME RInv, host' = host, UNCHANGED <<ledger, owner>>, sweep' \in Sweeps,
           seen' \in [Pid -> Pid \cup {NoPid, Init1}], sweep'.table = sweep.table,
           registry' \in {NoPid, registry}, registry' # registry => Of("http") = {},
           struck' \subseteq Pid, \A q \in struck' : host[q].class # "free",
           \A q \in (sweep'.doomed \ {Init1}) \cup struck' : Spared(q)
    PROVE  RInv'
<1>1. HostTyped' /\ Family(host') /\ ServerRuns' /\ StruckRun'
    BY DEF RInv, HostTyped, ServerRuns, StruckRun
<1>2. TableIsPast' /\ PortIsOwned'
    BY DEF RInv, TableIsPast, PortIsOwned, Of
<1>3. MarkedAreSpared'
    BY DEF MarkedAreSpared, Spared, Driven, Of
<1> QED BY <1>1, <1>2, <1>3 DEF RInv

\* What is found is spared, as the host is when it is judged.
LEMMA AssessSteps ==
    ASSUME RInv, NEW p \in Pid \cup {Init1}, Assess(p)
    PROVE  RInv'
<1>0. /\ HostTyped /\ sweep \in Sweeps /\ p \in sweep.todo /\ UNCHANGED <<host, ledger, registry, owner, struck>>
      /\ sweep.table \in [Pid -> Procs]
    BY DEF RInv, Assess, Sweeps
<1>1. PICK quiet \in BOOLEAN :
          sweep' = [sweep EXCEPT !.todo = @ \ {p},
                       !.doomed = @ \cup IF p = Init1
                       THEN {q \in {Init1} : StaleRecord} \cup {q \in Pid \ {Self} : IdleHttp(q)}
                       ELSE {q \in {p} : LeakedServer(q) \/ (quiet /\ StaleRunner(q))}]
    BY DEF Assess
<1> DEFINE found == IF p = Init1
                    THEN {q \in {Init1} : StaleRecord} \cup {q \in Pid \ {Self} : IdleHttp(q)}
                    ELSE {q \in {p} : LeakedServer(q) \/ (quiet /\ StaleRunner(q))}
<1>2. found \subseteq Pid \cup {Init1}
    OBVIOUS
<1>3. \A q \in found \ {Init1} : Spared(q)
    <2> SUFFICES ASSUME NEW q \in found \ {Init1} PROVE Spared(q)
        OBVIOUS
    <2>1. CASE q \in Pid \ {Self} /\ IdleHttp(q)
        BY <2>1 DEF IdleHttp, Listeners, Of, Spared
    <2>2. CASE q \in Pid /\ LeakedServer(q)
        BY <2>2, LeakedIsSpared
    <2>3. CASE q \in Pid /\ StaleRunner(q)
        BY <2>3, NoPids DEF StaleRunner, NotHolder, Runs, RInv, TableIsPast, ServerRuns, Spared
    <2> QED BY <2>1, <2>2, <2>3
<1> HIDE DEF found
<1>4. sweep' = [sweep EXCEPT !.todo = @ \ {p}, !.doomed = @ \cup found]
    BY <1>1 DEF found
<1>5. sweep' \in Sweeps /\ sweep'.table = sweep.table /\ sweep'.doomed = sweep.doomed \cup found
    BY <1>0, <1>2, <1>4 DEF Sweeps
<1>6. seen' \in [Pid -> Pid \cup {NoPid, Init1}]
    <2>1. p # Init1 => p \in Pid /\ sweep.table[p].parent \in Pid \cup {NoPid, Init1}
        BY <1>0 DEF Procs
    <2>2. seen' = seen \/ (p # Init1 /\ seen' = [seen EXCEPT ![p] = sweep.table[p].parent])
        BY DEF Assess
    <2> QED BY <1>0, <2>1, <2>2 DEF HostTyped
<1>7. \A q \in (sweep'.doomed \ {Init1}) \cup struck' : Spared(q)
    BY <1>0, <1>3, <1>5 DEF RInv, MarkedAreSpared
<1> QED BY <1>0, <1>5, <1>6, <1>7, PassMoves DEF RInv, HostTyped, StruckRun

\* Each step of a pass.
LEMMA SweepSteps ==
    ASSUME RInv, SweepStep
    PROVE  RInv'
<1>0. HostTyped /\ sweep \in Sweeps
    BY DEF RInv
<1>1. CASE BeginSweep
    <2>1. PICK auto \in BOOLEAN :
              sweep' = [NoSweep EXCEPT !.at = "assess", !.auto = auto, !.table = host,
                           !.todo = Of("stdio") \cup Of("runner") \cup {q \in {Init1} : registry # NoPid}]
        BY <1>1 DEF BeginSweep
    <2>2. UNCHANGED <<host, ledger, registry, owner, struck>>
        BY <1>1 DEF BeginSweep
    <2>3. sweep' \in Sweeps /\ sweep'.table = host /\ sweep'.doomed = {}
        BY <1>0, <2>1 DEF NoSweep, Sweeps, HostTyped, Of
    <2>4. seen' \in [Pid -> Pid \cup {NoPid, Init1}]
        BY <1>0, <1>1 DEF BeginSweep, HostTyped
    <2>5. HostTyped' /\ Family(host') /\ ServerRuns' /\ StruckRun' /\ PortIsOwned'
        BY <2>2, <2>4 DEF RInv, HostTyped, ServerRuns, StruckRun, PortIsOwned, Of
    <2>6. TableIsPast'
        BY <2>2, <2>3 DEF TableIsPast, RInv, Family, Above
    <2>7. MarkedAreSpared'
        BY <2>2, <2>3 DEF RInv, MarkedAreSpared, Spared, Driven, Of
    <2> QED BY <2>3, <2>5, <2>6, <2>7 DEF RInv
<1>2. CASE \E p \in Pid \cup {Init1} : Assess(p)
    BY <1>2, AssessSteps
<1>3. CASE Assessed
    <2>1. /\ UNCHANGED <<host, ledger, registry, owner, struck, seen>>
          /\ sweep' = [sweep EXCEPT !.at = "apply", !.shared = Listeners] /\ Listeners \subseteq Pid
        BY <1>3 DEF Assessed, Listeners, Of
    <2>2. sweep' \in Sweeps /\ sweep'.table = sweep.table /\ sweep'.doomed = sweep.doomed
        BY <1>0, <2>1 DEF Sweeps
    <2> QED BY <1>0, <2>1, <2>2, PassMoves DEF RInv, HostTyped, StruckRun, MarkedAreSpared
<1>4. CASE DropRecord
    <2>1. /\ UNCHANGED <<host, ledger, owner, struck, seen>>
          /\ sweep' = [sweep EXCEPT !.doomed = @ \ {Init1}]
          /\ registry' = IF RecordDead THEN NoPid ELSE registry
        BY <1>4 DEF DropRecord
    <2>2. sweep' \in Sweeps /\ sweep'.table = sweep.table /\ sweep'.doomed \subseteq sweep.doomed
        BY <1>0, <2>1 DEF Sweeps
    <2>3. RecordDead => Of("http") = {}
        BY NoPids DEF RInv, PortIsOwned, Of, RecordDead, Recorded, Runs
    <2> QED BY <1>0, <2>1, <2>2, <2>3, PassMoves DEF RInv, HostTyped, StruckRun, MarkedAreSpared
<1>5. CASE \E p \in Pid : Signal(p)
    <2>1. PICK p \in Pid : Signal(p)
        BY <1>5
    <2> DEFINE signals == IF MaySignal(p) THEN sweep.count + 1 ELSE sweep.count
    <2>2. /\ UNCHANGED <<host, ledger, registry, owner, seen>> /\ p \in sweep.doomed \ {Init1}
          /\ sweep' = [sweep EXCEPT !.doomed = @ \ {p}, !.count = signals]
          /\ struck' = struck \/ (Runs(p) /\ struck' = struck \cup {p})
        BY <1>0, <2>1 DEF Signal, Sweeps
    <2>3. signals \in Nat
        BY <1>0 DEF Sweeps
    <2> HIDE DEF signals
    <2>4. sweep' \in Sweeps /\ sweep'.table = sweep.table /\ sweep'.doomed \subseteq sweep.doomed
        BY <1>0, <2>2, <2>3 DEF Sweeps
    <2>5. Runs(p) => host[p].class # "free"
        BY NoPids DEF Runs
    <2>6. struck' \subseteq Pid /\ \A q \in struck' : host[q].class # "free"
        BY <1>0, <2>2, <2>5 DEF RInv, HostTyped, StruckRun
    <2>7. \A q \in (sweep'.doomed \ {Init1}) \cup struck' : Spared(q)
        BY <2>2, <2>4 DEF RInv, MarkedAreSpared
    <2> QED BY <1>0, <2>2, <2>4, <2>6, <2>7, PassMoves DEF HostTyped
<1>6. CASE EndSweep
    <2>1. UNCHANGED <<host, ledger, registry, owner, struck, seen>> /\ sweep' = NoSweep
        BY <1>6 DEF EndSweep
    <2>2. HostTyped' /\ Family(host') /\ ServerRuns' /\ StruckRun' /\ PortIsOwned'
        BY <2>1 DEF RInv, HostTyped, ServerRuns, StruckRun, PortIsOwned, Of
    <2>3. TableIsPast' /\ MarkedAreSpared' /\ sweep' \in Sweeps
        BY <2>1, NoSweepFits DEF RInv, TableIsPast, MarkedAreSpared, Spared, Driven, Of
    <2> QED BY <2>2, <2>3 DEF RInv
<1> QED BY <1>1, <1>2, <1>3, <1>4, <1>5, <1>6 DEF SweepStep

\* Every step of the host and of a pass, and none.
LEMMA ReapSteps == RInv /\ ReapNext => RInv'
BY StartSteps, EndSteps, AgeSteps, SweepSteps DEF ReapNext

\* Nothing changes while the server does not reap.
LEMMA ReapRests == RInv /\ UNCHANGED reapVars => RInv'
<1> SUFFICES ASSUME RInv, UNCHANGED reapVars PROVE RInv'
    OBVIOUS
<1>1. HostTyped' /\ sweep' \in Sweeps /\ Family(host') /\ ServerRuns'
    BY DEF reapVars, RInv, HostTyped, ServerRuns
<1>2. TableIsPast' /\ StruckRun' /\ PortIsOwned'
    BY DEF reapVars, RInv, TableIsPast, StruckRun, PortIsOwned, Of
<1>3. MarkedAreSpared'
    BY DEF reapVars, RInv, MarkedAreSpared, Spared, Driven, Of
<1> QED BY <1>1, <1>2, <1>3 DEF RInv

\* The properties of the reaper follow.
LEMMA ReapSafe == RInv => ReaperInv
<1>1. RInv => ReapTypeOK
    BY DEF RInv, HostTyped, Sweeps, ReapTypeOK
<1>2. RInv => SparesTheLiving
    BY DEF RInv, SparesTheLiving, MarkedAreSpared, Spared, PortIsOwned
<1> QED BY <1>1, <1>2 DEF ReaperInv

(* ReaperInv, of runLeakWatchPass and leakWatchReport: for any set of pids,   *)
(* any depth of the walk over the parents and any number of processes, no     *)
(* server with a client above it is signalled, nor the runner that holds the  *)
(* lock, nor the server itself, and no record of an HTTP server that runs is  *)
(* dropped, however the host changes between the table, the evidence and the  *)
(* signal.                                                                    *)
THEOREM ReaperKept == HostSpec => []ReaperInv
<1>1. HostInit => RInv
    BY ReapStarts DEF HostInit
<1>2. RInv /\ [HostNext]_hostVars => RInv'
    BY ReapSteps, ReapRests DEF HostNext, Reaps, Drifts, hostVars, reapVars
<1>3. RInv => ReaperInv
    BY ReapSafe
<1> QED BY <1>1, <1>2, <1>3, PTL DEF HostSpec

-----------------------------------------------------------------------------
(* The release bridge.                                                        *)

\* The stages of a run, and of those the ones between the first question and the record of its outcome.
RunStages == {"off", "acquire", "write", "judge", "rename", "load", "retry", "limits", "ask",
              "compare", "download", "backup", "install", "record", "signal", "settle", "release"}
Asking(p) == run[p].at \in {"ask", "compare", "download", "backup", "install", "record", "signal", "settle"}
RunForms == [at : RunStages, again : BOOLEAN, seen : States, part : Part, release : Version, old : Version,
         want : Builds, limited : {"no", "until", "past"}, owed : Builds \cup {None}]
BridgeTyped ==
    /\ latest \in [Part -> Release] /\ file \in Builds /\ recorded \in Version
    /\ lock \in [by : Proc \cup {None}, pid : Proc \cup {None}, old : BOOLEAN]
    /\ state \in States
    /\ daemon \in Builds \cup {None} /\ status \in {"none", "older", "own"}
    /\ throttled \in {"no", "told", "forgotten"}
    /\ run \in [Proc -> RunForms]
    /\ faults \in 0..MaxFault /\ overlapped \in BOOLEAN

\* What a run saw of the limits is so until it asks or ends.
InStep == \A p \in Proc : run[p].at \in {"retry", "limits"} =>
              run[p].seen.recent = state.recent /\ run[p].seen.backoff = state.backoff

\* That GitHub refuses is known to the run that asks, or is on record.
AskersKnow == throttled = "told" => \A p \in Proc : Asking(p) => run[p].limited = "until"
ToldIsKept == throttled = "told" => state.backoff \/ \E p \in Proc : Asking(p) /\ run[p].limited = "until"

\* Until a lock is taken from the run that holds it, there is one such run.
Alone == \A p, q \in Proc : Locked(p) /\ Locked(q) => p = q
LimitsInv == ~overlapped => Alone /\ InStep /\ AskersKnow /\ ToldIsKept
BridgeInv == BridgeTyped /\ LimitsInv

\* The constants of the bridge are typed.
LEMMA PartsAre == /\ NothingWanted \in Builds /\ NoRun \in RunForms /\ NoRun.at = "off" /\ NoRun.limited = "no"
                  /\ {"runner", "guest"} \subseteq Part /\ Release \subseteq Version /\ None \in Version
<1>1. NothingWanted \in Builds
    BY DEF NothingWanted, Builds, Version
<1> QED BY <1>1 DEF NoRun, RunForms, RunStages, States, Part, Version

\* Before the first run nothing is known of GitHub and nobody holds the lock.
LEMMA BridgeStarts == Init => BridgeInv
<1> SUFFICES ASSUME Init PROVE BridgeInv
    OBVIOUS
<1>1. 1 \in Release /\ MaxFault \in Nat
    BY BoundAssumption DEF BoundAssumption, Release
<1>2. file \in Builds
    BY <1>1 DEF Init, Builds, Version
<1>3. recorded \in Version
    BY <1>1 DEF Init, Part, Version
<1>4. BridgeTyped
    <2>1. state \in States /\ lock \in [by : Proc \cup {None}, pid : Proc \cup {None}, old : BOOLEAN]
        BY DEF Init, NoLock, States
    <2>2. run \in [Proc -> RunForms] /\ latest \in [Part -> Release] /\ faults \in 0..MaxFault
        BY <1>1, PartsAre DEF Init
    <2> QED BY <1>2, <1>3, <2>1, <2>2 DEF Init, BridgeTyped
<1>5. \A p \in Proc : run[p].at = "off"
    BY PartsAre DEF Init
<1>6. LimitsInv
    BY <1>5 DEF Init, LimitsInv, Alone, Locked, InStep, AskersKnow, ToldIsKept
<1> QED BY <1>4, <1>6 DEF BridgeInv

\* A run is led on to the other repository, or to its end.
LEMMA ReconciledIs ==
    ASSUME NEW r \in RunForms
    PROVE  /\ Reconciled(r) \in RunForms /\ Reconciled(r).at \in {"ask", "signal", "settle"}
           /\ Reconciled(r).limited = r.limited
BY PartsAre DEF Reconciled, RunForms, RunStages

\* One run goes on, the others are where they were.
LEMMA OneRun ==
    ASSUME BridgeTyped, NEW p \in Proc, NEW r \in RunForms, run' = [run EXCEPT ![p] = r]
    PROVE  run' \in [Proc -> RunForms] /\ run'[p] = r /\ \A q \in Proc \ {p} : run'[q] = run[q]
BY DEF BridgeTyped

\* A step that is neither the taking of the lock nor about the limits.
Quietly(p) ==
    /\ UNCHANGED <<overlapped, throttled>> /\ state' = state
    /\ run'[p] \in RunForms /\ run' = [run EXCEPT ![p] = run'[p]]
    /\ Locked(p)' => Locked(p)
    /\ run'[p].at \in {"retry", "limits"} =>
           overlapped \/ (run'[p].seen.recent = state.recent /\ run'[p].seen.backoff = state.backoff)
    /\ Asking(p)' => Asking(p) \/ overlapped \/ throttled # "told"
    /\ Asking(p) => Asking(p)' /\ run'[p].limited = run[p].limited

\* Such a step keeps what is known of the limits.
LEMMA QuietSteps ==
    ASSUME BridgeInv, NEW p \in Proc, Quietly(p)
    PROVE  LimitsInv' /\ run' \in [Proc -> RunForms]
<1>0. BridgeTyped /\ LimitsInv
    BY DEF BridgeInv
<1>1. run' \in [Proc -> RunForms] /\ \A q \in Proc \ {p} : run'[q] = run[q]
    BY <1>0, OneRun DEF Quietly
<1> SUFFICES ASSUME ~overlapped PROVE (Alone /\ InStep /\ AskersKnow /\ ToldIsKept)'
    BY <1>1 DEF LimitsInv, Quietly
<1>2. Alone'
    BY <1>0, <1>1 DEF LimitsInv, Alone, Locked, Quietly
<1>3. InStep'
    BY <1>0, <1>1 DEF LimitsInv, InStep, Quietly
<1>4. AskersKnow'
    BY <1>0, <1>1 DEF LimitsInv, AskersKnow, Asking, Quietly
<1>5. ToldIsKept'
    BY <1>0, <1>1 DEF LimitsInv, ToldIsKept, Asking, Quietly
<1> QED BY <1>2, <1>3, <1>4, <1>5

\* A run that begins to ask knows of no reason not to.
LEMMA AsksKnowing ==
    ASSUME BridgeInv, NEW p \in Proc, Asks(p)
    PROVE  overlapped \/ (throttled # "told" /\ ~state.recent)
<1> SUFFICES ASSUME ~overlapped PROVE throttled # "told" /\ ~state.recent
    OBVIOUS
<1>1. ~state.recent /\ ~state.backoff
    BY DEF BridgeInv, LimitsInv, InStep, Asks, At, MayAsk
<1>2. Locked(p) /\ ~Asking(p)
    BY DEF Asks, At, Locked, Asking
<1>3. \A q \in Proc : Asking(q) => Locked(q)
    BY DEF Asking, Locked
<1> QED BY <1>1, <1>2, <1>3 DEF BridgeInv, LimitsInv, Alone, ToldIsKept

\* The steps of a run that leave the limits as they are.
QuietStep(p) ==
    \/ Launch(p) \/ LockWrite(p) \/ LockExists(p) \/ LockJudge(p) \/ LockRename(p) \/ LockRelease(p)
    \/ LoadState(p) \/ RetryPendingSignal(p) \/ Asks(p)
    \/ Answered(p) \/ AskFails(p) \/ Compare(p) \/ Downloaded(p) \/ ReconcileFails(p)
    \/ Backup(p) \/ Install(p) \/ InstallFails(p) \/ Record(p) \/ RecordFails(p)

\* A run comes to its next stage with all it knows.
LEMMA GoesIs ==
    ASSUME BridgeTyped, NEW p \in Proc, NEW stage \in RunStages, Goes(p, stage)
    PROVE  /\ run'[p] \in RunForms /\ run' = [run EXCEPT ![p] = run'[p]]
           /\ run'[p].at = stage /\ run'[p].limited = run[p].limited /\ run'[p].seen = run[p].seen
<1> DEFINE r == [run[p] EXCEPT !.at = stage]
<1>0. run[p] \in RunForms
    BY DEF BridgeTyped
<1>1. r \in RunForms /\ r.at = stage /\ r.limited = run[p].limited /\ r.seen = run[p].seen
    BY <1>0 DEF RunForms
<1>2. run' = [run EXCEPT ![p] = r]
    BY DEF Goes
<1> HIDE DEF r
<1> QED BY <1>1, <1>2, OneRun

\* A process ends its run and forgets it.
LEMMA StopsIs ==
    ASSUME BridgeTyped, NEW p \in Proc, Stops(p)
    PROVE  run'[p] = NoRun /\ run'[p] \in RunForms /\ run' = [run EXCEPT ![p] = run'[p]]
<1>1. run' = [run EXCEPT ![p] = NoRun]
    BY DEF Stops
<1> QED BY <1>1, PartsAre, OneRun

\* A run has done with a repository.
LEMMA LeavesIs ==
    ASSUME BridgeTyped, NEW p \in Proc, NEW r \in RunForms, run' = [run EXCEPT ![p] = Reconciled(r)]
    PROVE  /\ run'[p] \in RunForms /\ run' = [run EXCEPT ![p] = run'[p]]
           /\ run'[p].at \in {"ask", "signal", "settle"} /\ run'[p].limited = r.limited
<1>1. PICK s \in RunForms : s = Reconciled(r) /\ s.at \in {"ask", "signal", "settle"} /\ s.limited = r.limited
    BY ReconciledIs
<1>2. run' = [run EXCEPT ![p] = s]
    BY <1>1
<1> QED BY <1>1, <1>2, OneRun

\* While the lock is taken and given back.
LEMMA LockingIsQuiet ==
    ASSUME BridgeInv, NEW p \in Proc,
           \/ Launch(p) \/ LockWrite(p) \/ LockExists(p) \/ LockJudge(p) \/ LockRename(p) \/ LockRelease(p)
    PROVE  Quietly(p)
<1>0. BridgeTyped /\ run[p] \in RunForms
    BY DEF BridgeInv, BridgeTyped
<1>1. {"acquire", "judge", "rename", "load"} \subseteq RunStages
    BY DEF RunStages
<1>2. ASSUME Retries(p) PROVE run'[p] \in RunForms /\ run' = [run EXCEPT ![p] = run'[p]] /\ run'[p].at \in {"off", "acquire"}
    <2> DEFINE r == IF run[p].again THEN NoRun ELSE [NoRun EXCEPT !.at = "acquire", !.again = TRUE]
    <2>1. r \in RunForms /\ r.at \in {"off", "acquire"}
        BY <1>1, PartsAre DEF RunForms
    <2>2. run' = [run EXCEPT ![p] = r]
        BY <1>2 DEF Retries
    <2> HIDE DEF r
    <2> QED BY <1>0, <2>1, <2>2, OneRun
<1>3. CASE Launch(p)
    <2>1. Goes(p, "acquire")
        BY <1>3 DEF Launch
    <2> QED BY <1>0, <1>1, <1>3, <2>1, GoesIs DEF Launch, Quietly, At, Locked, Asking
<1>4. CASE LockWrite(p)
    <2>1. Goes(p, "load")
        BY <1>4 DEF LockWrite
    <2> QED BY <1>0, <1>1, <1>4, <2>1, GoesIs DEF LockWrite, Quietly, At, Locked, Asking
<1>5. CASE LockExists(p)
    <2>1. Goes(p, "judge")
        BY <1>5 DEF LockExists
    <2> QED BY <1>0, <1>1, <1>5, <2>1, GoesIs DEF LockExists, Quietly, At, Locked, Asking
<1>6. CASE LockJudge(p)
    <2>1. /\ run'[p] \in RunForms /\ run' = [run EXCEPT ![p] = run'[p]] /\ run'[p].at \in {"off", "acquire", "rename"}
        <3>1. CASE Retries(p)
            BY <1>2, <3>1
        <3>2. CASE Goes(p, "rename")
            BY <1>0, <1>1, <3>2, GoesIs
        <3>3. CASE Stops(p)
            BY <1>0, <3>3, StopsIs, PartsAre
        <3> QED BY <1>6, <3>1, <3>2, <3>3 DEF LockJudge
    <2> QED BY <1>6, <2>1 DEF LockJudge, Quietly, At, Locked, Asking
<1>7. CASE LockRename(p)
    <2>1. /\ run'[p] \in RunForms /\ run' = [run EXCEPT ![p] = run'[p]] /\ run'[p].at \in {"off", "acquire"}
        <3>1. CASE Retries(p)
            BY <1>2, <3>1
        <3>2. CASE Stops(p)
            BY <1>0, <3>2, StopsIs, PartsAre
        <3> QED BY <1>7, <3>1, <3>2 DEF LockRename
    <2> QED BY <1>7, <2>1 DEF LockRename, Quietly, At, Locked, Asking
<1>8. CASE LockRelease(p)
    <2>1. run'[p] \in RunForms /\ run' = [run EXCEPT ![p] = run'[p]] /\ run'[p].at = "off"
        BY <1>0, <1>8, StopsIs, PartsAre DEF LockRelease
    <2> QED BY <1>8, <2>1 DEF LockRelease, Quietly, At, Locked, Asking
<1> QED BY <1>3, <1>4, <1>5, <1>6, <1>7, <1>8

\* Until it asks, a run looks at the state file and asks for the signal put off.
LEMMA DecidingIsQuiet ==
    ASSUME BridgeInv, NEW p \in Proc, LoadState(p) \/ RetryPendingSignal(p) \/ Asks(p)
    PROVE  Quietly(p)
<1>0. BridgeTyped /\ run[p] \in RunForms /\ state \in States
    BY DEF BridgeInv, BridgeTyped
<1>1. CASE LoadState(p)
    <2> DEFINE stage == IF state.pending = None THEN "limits" ELSE "retry"
               r == [run[p] EXCEPT !.seen = state, !.at = stage]
    <2>1. r \in RunForms /\ r.at \in {"limits", "retry"} /\ r.seen = state /\ r.limited = run[p].limited
        BY <1>0 DEF RunForms, RunStages
    <2>2. run' = [run EXCEPT ![p] = r]
        BY <1>1 DEF LoadState
    <2> HIDE DEF r
    <2>3. run'[p] = r /\ run' = [run EXCEPT ![p] = run'[p]]
        BY <1>0, <2>1, <2>2, OneRun
    <2> QED BY <1>1, <2>1, <2>3 DEF LoadState, Quietly, At, Locked, Asking
<1>2. CASE RetryPendingSignal(p)
    <2>1. PICK verdict \in Verdicts(run[p].seen.pending) :
             run' = [run EXCEPT ![p].at = IF verdict = "thrown" THEN "release" ELSE "limits",
                                ![p].seen.pending = IF verdict = "deferred" THEN @ ELSE None]
        BY <1>2 DEF RetryPendingSignal
    <2> DEFINE stage == IF verdict = "thrown" THEN "release" ELSE "limits"
               pending == IF verdict = "deferred" THEN run[p].seen.pending ELSE None
               r == [run[p] EXCEPT !.at = stage, !.seen.pending = pending]
    <2>2. run[p].seen \in States /\ pending \in Builds \cup {None}
        BY <1>0 DEF RunForms, States
    <2>3. r \in RunForms /\ r.at \in {"limits", "release"} /\ r.limited = run[p].limited
        BY <1>0, <2>2 DEF RunForms, RunStages, States
    <2>4. r.seen.recent = run[p].seen.recent /\ r.seen.backoff = run[p].seen.backoff
        BY <1>0, <2>2 DEF RunForms, States
    <2>5. run' = [run EXCEPT ![p] = r]
        BY <1>0, <2>1 DEF BridgeTyped, RunForms, States
    <2> HIDE DEF r
    <2>6. run'[p] = r /\ run' = [run EXCEPT ![p] = run'[p]]
        BY <1>0, <2>3, <2>5, OneRun
    <2>7. overlapped \/ (run[p].seen.recent = state.recent /\ run[p].seen.backoff = state.backoff)
        BY <1>2 DEF BridgeInv, LimitsInv, InStep, RetryPendingSignal, At
    <2> QED BY <1>2, <2>3, <2>4, <2>6, <2>7 DEF RetryPendingSignal, Quietly, At, Locked, Asking
<1>3. CASE Asks(p)
    <2>1. Goes(p, "ask") /\ "ask" \in RunStages
        BY <1>3 DEF Asks, RunStages
    <2>2. overlapped \/ throttled # "told"
        BY <1>3, AsksKnowing
    <2> QED BY <1>0, <1>3, <2>1, <2>2, GoesIs DEF Asks, Quietly, At, Locked, Asking
<1> QED BY <1>1, <1>2, <1>3

\* While a repository is reconciled.
LEMMA ReconcilingIsQuiet ==
    ASSUME BridgeInv, NEW p \in Proc,
           \/ Answered(p) \/ AskFails(p) \/ Compare(p) \/ Downloaded(p) \/ ReconcileFails(p)
           \/ Backup(p) \/ Install(p) \/ InstallFails(p) \/ Record(p) \/ RecordFails(p)
    PROVE  Quietly(p)
<1>0. BridgeTyped /\ run[p] \in RunForms /\ state \in States /\ file \in Builds /\ latest \in [Part -> Release]
    BY DEF BridgeInv, BridgeTyped
<1>1. {"ask", "compare", "download", "backup", "install", "record"} \subseteq RunStages
    BY DEF RunStages
<1>2. ASSUME Leaves(p)
      PROVE  /\ run'[p] \in RunForms /\ run' = [run EXCEPT ![p] = run'[p]]
             /\ run'[p].at \in {"ask", "signal", "settle"} /\ run'[p].limited = run[p].limited
    <2>1. run' = [run EXCEPT ![p] = Reconciled(run[p])]
        BY <1>2 DEF Leaves
    <2> QED BY <1>0, <2>1, LeavesIs
<1>3. ASSUME NEW r \in RunForms, run' = [run EXCEPT ![p] = r], r.limited = run[p].limited,
             r.at \in {"compare", "install", "backup"}
      PROVE  /\ run'[p] \in RunForms /\ run' = [run EXCEPT ![p] = run'[p]]
             /\ run'[p].at \in {"compare", "install", "backup"} /\ run'[p].limited = run[p].limited
    BY <1>0, <1>3, OneRun
<1>4. CASE Answered(p)
    <2> DEFINE r == [run[p] EXCEPT !.release = latest[run[p].part], !.at = "compare"]
    <2>1. latest[run[p].part] \in Version
        BY <1>0 DEF RunForms, Version
    <2>2. r \in RunForms /\ r.at = "compare" /\ r.limited = run[p].limited
        BY <1>0, <1>1, <2>1 DEF RunForms
    <2>3. run' = [run EXCEPT ![p] = r]
        BY <1>4 DEF Answered
    <2> HIDE DEF r
    <2> QED BY <1>3, <1>4, <2>2, <2>3 DEF Answered, Quietly, At, Locked, Asking
<1>5. CASE AskFails(p)
    BY <1>2, <1>5 DEF AskFails, Quietly, At, Locked, Asking
<1>6. CASE Compare(p)
    <2>1. CASE Goes(p, "download")
        BY <1>0, <1>1, <1>6, <2>1, GoesIs DEF Compare, Quietly, At, Locked, Asking
    <2>2. CASE Leaves(p)
        BY <1>2, <1>6, <2>2 DEF Compare, Quietly, At, Locked, Asking
    <2> QED BY <1>6, <2>1, <2>2 DEF Compare
<1>7. CASE Downloaded(p)
    <2> DEFINE stage == IF file[run[p].part] = None THEN "install" ELSE "backup"
               r == [run[p] EXCEPT !.old = file[run[p].part], !.at = stage]
    <2>1. file[run[p].part] \in Version
        BY <1>0 DEF RunForms, Builds
    <2>2. r \in RunForms /\ r.at \in {"install", "backup"} /\ r.limited = run[p].limited
        BY <1>0, <1>1, <2>1 DEF RunForms
    <2>3. run' = [run EXCEPT ![p] = r]
        BY <1>7 DEF Downloaded
    <2> HIDE DEF r
    <2> QED BY <1>3, <1>7, <2>2, <2>3 DEF Downloaded, Quietly, At, Locked, Asking
<1>8. CASE ReconcileFails(p)
    BY <1>2, <1>8 DEF ReconcileFails, Quietly, At, Locked, Asking
<1>9. CASE Backup(p)
    <2>1. Goes(p, "install")
        BY <1>9 DEF Backup
    <2> QED BY <1>0, <1>1, <1>9, <2>1, GoesIs DEF Backup, Quietly, At, Locked, Asking
<1>10. CASE Install(p)
    <2>1. Goes(p, "record")
        BY <1>10 DEF Install
    <2> QED BY <1>0, <1>1, <1>10, <2>1, GoesIs DEF Install, Quietly, At, Locked, Asking
<1>11. CASE InstallFails(p)
    BY <1>2, <1>11 DEF InstallFails, Quietly, At, Locked, Asking
<1>12. CASE Record(p)
    <2> DEFINE wants == [run[p].want EXCEPT ![run[p].part] = run[p].release]
               r == [run[p] EXCEPT !.want = wants]
    <2>1. wants \in Builds
        BY <1>0 DEF RunForms, Builds
    <2>2. r \in RunForms /\ r.limited = run[p].limited
        BY <1>0, <2>1 DEF RunForms
    <2>3. run' = [run EXCEPT ![p] = Reconciled(r)]
        BY <1>12 DEF Record
    <2> HIDE DEF r
    <2>4. /\ run'[p] \in RunForms /\ run' = [run EXCEPT ![p] = run'[p]]
          /\ run'[p].at \in {"ask", "signal", "settle"} /\ run'[p].limited = run[p].limited
        BY <1>0, <2>2, <2>3, LeavesIs
    <2> QED BY <1>12, <2>4 DEF Record, Quietly, At, Locked, Asking
<1>13. CASE RecordFails(p)
    BY <1>2, <1>13 DEF RecordFails, Quietly, At, Locked, Asking
<1> QED BY <1>4, <1>5, <1>6, <1>7, <1>8, <1>9, <1>10, <1>11, <1>12, <1>13

\* The lock is created under its name, by one run at a time unless another was renamed away.
LEMMA CreateSteps ==
    ASSUME BridgeInv, NEW p \in Proc, LockCreate(p)
    PROVE  LimitsInv' /\ run' \in [Proc -> RunForms]
<1>0. BridgeTyped /\ LimitsInv /\ Goes(p, "write") /\ "write" \in RunStages
    BY DEF BridgeInv, LockCreate, RunStages
<1>1. /\ run' \in [Proc -> RunForms] /\ run'[p].at = "write" /\ run'[p].limited = run[p].limited
      /\ \A q \in Proc \ {p} : run'[q] = run[q]
    BY <1>0, GoesIs, OneRun
<1> SUFFICES ASSUME ~overlapped' PROVE (Alone /\ InStep /\ AskersKnow /\ ToldIsKept)'
    BY <1>1 DEF LimitsInv
<1>2. ~overlapped /\ UNCHANGED <<throttled, state>> /\ \A q \in Proc : ~Locked(q)
    BY DEF LockCreate
<1>3. Alone'
    BY <1>1, <1>2 DEF Alone, Locked
<1>4. InStep'
    BY <1>0, <1>1, <1>2 DEF LimitsInv, InStep
<1>5. \A q \in Proc : ~Asking(q) /\ ~Asking(q)'
    BY <1>1, <1>2 DEF Asking, Locked
<1>6. AskersKnow' /\ ToldIsKept'
    BY <1>0, <1>2, <1>5 DEF LimitsInv, AskersKnow, ToldIsKept
<1> QED BY <1>3, <1>4, <1>6

\* GitHub says when it will answer again: the run knows, and goes on to write it down.
LEMMA RateLimitedSteps ==
    ASSUME BridgeInv, NEW p \in Proc, RateLimited(p)
    PROVE  LimitsInv' /\ run' \in [Proc -> RunForms]
<1>0. BridgeTyped /\ LimitsInv /\ run[p] \in RunForms /\ run[p].at = "ask"
    BY DEF BridgeInv, BridgeTyped, RateLimited, At
<1> DEFINE r == [run[p] EXCEPT !.limited = "until"]
<1>1. r \in RunForms /\ r.limited = "until"
    BY <1>0 DEF RunForms
<1>2. run' = [run EXCEPT ![p] = Reconciled(r)]
    BY DEF RateLimited
<1> HIDE DEF r
<1>3. /\ run'[p] \in RunForms /\ run' = [run EXCEPT ![p] = run'[p]]
      /\ run'[p].at \in {"ask", "signal", "settle"} /\ run'[p].limited = "until"
    BY <1>0, <1>1, <1>2, LeavesIs
<1>4. run' \in [Proc -> RunForms] /\ \A q \in Proc \ {p} : run'[q] = run[q]
    BY <1>0, <1>3, OneRun
<1> SUFFICES ASSUME ~overlapped PROVE (Alone /\ InStep /\ AskersKnow /\ ToldIsKept)'
    BY <1>4 DEF LimitsInv, RateLimited
<1>5. \A q \in Proc \ {p} : ~Locked(q) /\ ~Locked(q)'
    BY <1>0, <1>4 DEF LimitsInv, Alone, Locked
<1>6. Alone'
    BY <1>5 DEF Alone
<1>7. InStep'
    BY <1>0, <1>3, <1>4 DEF LimitsInv, InStep, RateLimited
<1>8. AskersKnow'
    BY <1>3, <1>5 DEF AskersKnow, Asking, Locked
<1>9. ToldIsKept'
    BY <1>3 DEF ToldIsKept, Asking
<1> QED BY <1>6, <1>7, <1>8, <1>9

\* The state file is written by the run that is in step with it or knows more.
LEMMA WritingSteps ==
    ASSUME BridgeInv, NEW p \in Proc, Settle(p) \/ AsksNot(p)
    PROVE  LimitsInv' /\ run' \in [Proc -> RunForms]
<1>0. BridgeTyped /\ LimitsInv /\ Goes(p, "release") /\ "release" \in RunStages
    BY DEF BridgeInv, Settle, AsksNot, RunStages
<1>1. /\ run' \in [Proc -> RunForms] /\ run'[p].at = "release"
      /\ \A q \in Proc \ {p} : run'[q] = run[q]
    BY <1>0, GoesIs, OneRun
<1> SUFFICES ASSUME ~overlapped PROVE (Alone /\ InStep /\ AskersKnow /\ ToldIsKept)'
    BY <1>1 DEF LimitsInv, Settle, AsksNot
<1>2. Locked(p) /\ run[p].at \in {"settle", "limits"} /\ UNCHANGED throttled
    BY DEF Settle, AsksNot, At, Locked
<1>3. \A q \in Proc \ {p} : ~Locked(q) /\ ~Locked(q)'
    BY <1>0, <1>1, <1>2 DEF LimitsInv, Alone, Locked
<1>4. \A q \in Proc : ~Asking(q)' /\ run'[q].at \notin {"retry", "limits"}
    BY <1>1, <1>3 DEF Asking, Locked
<1>5. throttled = "told" => state'.backoff
    <2>1. CASE Settle(p)
        <3>1. throttled = "told" => run[p].limited = "until"
            BY <1>0, <2>1 DEF LimitsInv, AskersKnow, Asking, Settle, At
        <3> QED BY <2>1, <3>1 DEF Settle, Settled
    <2>2. CASE AsksNot(p)
        <3>1. state'.backoff = state.backoff
            BY <1>0, <2>2 DEF LimitsInv, InStep, AsksNot, At
        <3>2. \A q \in Proc : ~Asking(q)
            BY <1>3, <2>2 DEF Asking, Locked, AsksNot, At
        <3> QED BY <1>0, <3>1, <3>2 DEF LimitsInv, ToldIsKept
    <2> QED BY <2>1, <2>2
<1>6. Alone' /\ InStep' /\ AskersKnow' /\ ToldIsKept'
    BY <1>2, <1>3, <1>4, <1>5 DEF Alone, InStep, AskersKnow, ToldIsKept
<1> QED BY <1>6

\* A run that ends, or fails with its signal, takes what it was told with it.
LEMMA EndingSteps ==
    ASSUME BridgeInv, NEW p \in Proc, Crash(p) \/ SignalSwap(p)
    PROVE  LimitsInv' /\ run' \in [Proc -> RunForms]
<1>0. BridgeTyped /\ LimitsInv /\ run[p] \in RunForms
    BY DEF BridgeInv, BridgeTyped
<1>1. CASE Crash(p)
    <2>1. run'[p] = NoRun /\ run' \in [Proc -> RunForms] /\ \A q \in Proc \ {p} : run'[q] = run[q]
        BY <1>0, <1>1, StopsIs, OneRun DEF Crash
    <2>2. run'[p].at = "off"
        BY <2>1, PartsAre
    <2> SUFFICES ASSUME ~overlapped PROVE (Alone /\ InStep /\ AskersKnow /\ ToldIsKept)'
        BY <1>1, <2>1 DEF LimitsInv, Crash
    <2>3. UNCHANGED state /\ throttled' = Forgotten(p)
        BY <1>1 DEF Crash
    <2>4. throttled' = "told" => throttled = "told" /\ run[p].limited # "until"
        BY <2>3 DEF Forgotten
    <2>5. Alone' /\ InStep'
        BY <1>0, <2>1, <2>2, <2>3 DEF LimitsInv, Alone, InStep, Locked
    <2>6. AskersKnow'
        BY <1>0, <2>1, <2>2, <2>4 DEF LimitsInv, AskersKnow, Asking
    <2>7. ToldIsKept'
        BY <1>0, <2>1, <2>3, <2>4 DEF LimitsInv, ToldIsKept, Asking
    <2> QED BY <2>5, <2>6, <2>7
<1>2. CASE SignalSwap(p)
    <2>1. PICK verdict \in Verdicts(run[p].want) :
             run' = [run EXCEPT ![p].at   = IF verdict = "thrown" THEN "release" ELSE "settle",
                                ![p].owed = IF verdict = "deferred" THEN run[p].want ELSE None]
        BY <1>2 DEF SignalSwap
    <2> DEFINE stage == IF verdict = "thrown" THEN "release" ELSE "settle"
               owes == IF verdict = "deferred" THEN run[p].want ELSE None
               r == [run[p] EXCEPT !.at = stage, !.owed = owes]
    <2>2. owes \in Builds \cup {None}
        BY <1>0 DEF RunForms
    <2>3. r \in RunForms /\ r.at \in {"settle", "release"} /\ r.limited = run[p].limited
        BY <1>0, <2>2 DEF RunForms, RunStages
    <2>4. run' = [run EXCEPT ![p] = r]
        BY <1>0, <2>1 DEF BridgeTyped, RunForms
    <2> HIDE DEF r
    <2>5. run' \in [Proc -> RunForms] /\ run'[p] = r /\ \A q \in Proc \ {p} : run'[q] = run[q]
        BY <1>0, <2>3, <2>4, OneRun
    <2> SUFFICES ASSUME ~overlapped PROVE (Alone /\ InStep /\ AskersKnow /\ ToldIsKept)'
        BY <1>2, <2>5 DEF LimitsInv, SignalSwap
    <2>6. UNCHANGED state /\ run[p].at = "signal"
        BY <1>2 DEF SignalSwap, At
    <2>7. throttled' = IF run'[p].at = "release" THEN Forgotten(p) ELSE throttled
        BY <1>2 DEF SignalSwap
    <2>8. throttled' = "told" => throttled = "told" /\ (run'[p].at = "settle" \/ run[p].limited # "until")
        BY <2>3, <2>5, <2>7 DEF Forgotten
    <2>9. Alone' /\ InStep'
        BY <1>0, <2>3, <2>5, <2>6 DEF LimitsInv, Alone, InStep, Locked
    <2>10. AskersKnow'
        BY <1>0, <2>3, <2>5, <2>6, <2>8 DEF LimitsInv, AskersKnow, Asking
    <2>11. ToldIsKept'
        BY <1>0, <2>3, <2>5, <2>6, <2>8 DEF LimitsInv, ToldIsKept, Asking
    <2> QED BY <2>9, <2>10, <2>11
<1> QED BY <1>1, <1>2

\* Time passes: what is over is over for the file and for the runs that read it.
LEMMA TimeSteps ==
    ASSUME BridgeInv, IntervalEnds \/ ThrottleEnds
    PROVE  BridgeInv'
<1>0. BridgeTyped /\ LimitsInv /\ state \in States /\ run \in [Proc -> RunForms]
    BY DEF BridgeInv, BridgeTyped
<1>1. CASE IntervalEnds
    <2>1. state' = [state EXCEPT !.recent = FALSE] /\ run' = [p \in Proc |-> [run[p] EXCEPT !.seen.recent = FALSE]]
        BY <1>1 DEF IntervalEnds
    <2>2. state' \in States /\ state'.recent = FALSE /\ state'.backoff = state.backoff
        BY <1>0, <2>1 DEF States
    <2>3. ASSUME NEW p \in Proc
          PROVE  /\ [run[p] EXCEPT !.seen.recent = FALSE] \in RunForms
                 /\ run'[p].at = run[p].at /\ run'[p].limited = run[p].limited
                 /\ run'[p].seen.recent = FALSE /\ run'[p].seen.backoff = run[p].seen.backoff
        <3>1. run[p] \in RunForms /\ run'[p] = [run[p] EXCEPT !.seen.recent = FALSE]
            BY <1>0, <2>1
        <3> QED BY <3>1 DEF RunForms, States
    <2>4. run' \in [Proc -> RunForms]
        BY <2>1, <2>3
    <2>5. BridgeTyped'
        BY <1>0, <1>1, <2>2, <2>4 DEF IntervalEnds, BridgeTyped, installVars, daemonVars
    <2>6. UNCHANGED <<overlapped, throttled>>
        BY <1>1 DEF IntervalEnds
    <2>7. LimitsInv'
        BY <1>0, <2>2, <2>3, <2>6 DEF LimitsInv, Alone, Locked, InStep, AskersKnow, ToldIsKept, Asking
    <2> QED BY <2>5, <2>7 DEF BridgeInv
<1>2. CASE ThrottleEnds
    <2>1. /\ state' = [state EXCEPT !.backoff = FALSE]
          /\ run' = [p \in Proc |-> [run[p] EXCEPT !.seen.backoff = FALSE,
                                                   !.limited = IF @ = "no" THEN "no" ELSE "past"]]
        BY <1>2 DEF ThrottleEnds
    <2>2. state' \in States /\ state'.backoff = FALSE /\ state'.recent = state.recent
        BY <1>0, <2>1 DEF States
    <2>3. ASSUME NEW p \in Proc
          PROVE  /\ run'[p] \in RunForms /\ run'[p].at = run[p].at
                 /\ run'[p].seen.backoff = FALSE /\ run'[p].seen.recent = run[p].seen.recent
        <3> DEFINE limit == IF run[p].limited = "no" THEN "no" ELSE "past"
                   saw == [run[p].seen EXCEPT !.backoff = FALSE]
                   r == [run[p] EXCEPT !.seen = saw, !.limited = limit]
        <3>1. run[p] \in RunForms /\ run[p].seen \in States /\ limit \in {"no", "past"}
            BY <1>0 DEF RunForms
        <3>2. saw \in States /\ saw.backoff = FALSE /\ saw.recent = run[p].seen.recent
            BY <3>1 DEF States
        <3>3. run'[p] = r
            BY <2>1, <3>1 DEF RunForms
        <3> HIDE DEF saw, limit
        <3>4. r \in RunForms /\ r.at = run[p].at /\ r.seen = saw
            BY <3>1, <3>2 DEF RunForms
        <3> QED BY <3>2, <3>3, <3>4
    <2>4. run' \in [Proc -> RunForms]
        <3>1. DOMAIN run' = Proc /\ run' = [p \in Proc |-> run'[p]]
            BY <2>1
        <3> QED BY <2>3, <3>1
    <2>5. BridgeTyped'
        BY <1>0, <1>2, <2>2, <2>4 DEF ThrottleEnds, BridgeTyped, installVars, daemonVars
    <2>6. UNCHANGED overlapped /\ throttled' = "no"
        BY <1>2 DEF ThrottleEnds
    <2>7. LimitsInv'
        BY <1>0, <2>2, <2>3, <2>6 DEF LimitsInv, Alone, Locked, InStep, AskersKnow, ToldIsKept, Asking
    <2> QED BY <2>5, <2>7 DEF BridgeInv
<1> QED BY <1>1, <1>2

\* Upstream, the daemon and the age of the lock say nothing of the limits.
LEMMA OutsideSteps ==
    ASSUME BridgeInv,
           DaemonStarts \/ DaemonReports \/ DaemonExits \/ LockAges \/ \E part \in Part : Publish(part)
    PROVE  BridgeInv'
<1>0. BridgeTyped /\ LimitsInv
    BY DEF BridgeInv
<1>1. UNCHANGED <<run, state, throttled, overlapped, faults, file, recorded>>
    BY DEF DaemonStarts, DaemonReports, DaemonExits, LockAges, Publish, installVars, daemonVars
<1>2. LimitsInv'
    BY <1>0, <1>1 DEF LimitsInv, Alone, Locked, InStep, AskersKnow, ToldIsKept, Asking
<1>3. latest' \in [Part -> Release]
    <2>1. CASE \E part \in Part : Publish(part)
        <3>1. PICK part \in Part : latest[part] < LastRelease /\ latest' = [latest EXCEPT ![part] = @ + 1]
            BY <2>1 DEF Publish
        <3>2. LastRelease \in Nat /\ latest[part] \in Release
            BY <1>0, BoundAssumption DEF BoundAssumption, BridgeTyped
        <3>3. latest[part] + 1 \in Release
            BY <3>1, <3>2 DEF Release
        <3> QED BY <1>0, <3>1, <3>3 DEF BridgeTyped
    <2>2. CASE DaemonStarts \/ DaemonReports \/ DaemonExits \/ LockAges
        BY <1>0, <2>2 DEF BridgeTyped, DaemonStarts, DaemonReports, DaemonExits, LockAges, installVars
    <2> QED BY <2>1, <2>2
<1>4. lock' \in [by : Proc \cup {None}, pid : Proc \cup {None}, old : BOOLEAN]
    <2>1. lock' = [lock EXCEPT !.old = TRUE] \/ lock' = lock
        BY DEF DaemonStarts, DaemonReports, DaemonExits, LockAges, Publish
    <2> QED BY <1>0, <2>1 DEF BridgeTyped
<1>5. daemon' \in Builds \cup {None} /\ status' \in {"none", "older", "own"}
    BY <1>0 DEF BridgeTyped, DaemonStarts, DaemonReports, DaemonExits, LockAges, Publish, daemonVars
<1>6. BridgeTyped'
    BY <1>0, <1>1, <1>3, <1>4, <1>5 DEF BridgeTyped
<1> QED BY <1>2, <1>6 DEF BridgeInv

\* What a step of a run does to the files, the lock and the daemon.
LEMMA RunStepsTyped ==
    ASSUME BridgeTyped, NEW p \in Proc, run' \in [Proc -> RunForms],
           Launch(p) \/ Continues(p) \/ Crash(p)
    PROVE  BridgeTyped'
<1>0. /\ run[p] \in RunForms /\ run[p].part \in Part /\ run[p].release \in Version /\ run[p].old \in Version
      /\ None \in Version
    BY PartsAre DEF BridgeTyped, RunForms
<1>1. UNCHANGED latest
    BY DEF Launch, Crash, Continues, TakesLock, Decides, Reconciles, EndsRun,
           LockCreate, LockWrite, LockExists, LockJudge, LockRename, LockRelease, LoadState, RetryPendingSignal,
           Asks, AsksNot, Answered, AskFails, RateLimited, Compare, Downloaded, ReconcileFails, Backup, Install,
           InstallFails, Record, RecordFails, SignalSwap, Settle, installVars
<1>2. file' \in Builds /\ recorded' \in Version
    <2>1. CASE Backup(p)
        <3>1. file' = [file EXCEPT ![run[p].part] = None] /\ recorded' = recorded
            BY <2>1 DEF Backup
        <3> QED BY <1>0, <3>1 DEF BridgeTyped, Builds
    <2>2. CASE Install(p)
        <3>1. file' = [file EXCEPT ![run[p].part] = run[p].release] /\ recorded' = recorded
            BY <2>2 DEF Install
        <3> QED BY <1>0, <3>1 DEF BridgeTyped, Builds
    <2>3. CASE InstallFails(p)
        <3>1. /\ file' = file \/ file' = [file EXCEPT ![run[p].part] = run[p].old]
              /\ recorded' = recorded
            BY <2>3 DEF InstallFails
        <3> QED BY <1>0, <3>1 DEF BridgeTyped, Builds
    <2>4. CASE Record(p) \/ RecordFails(p)
        BY <1>0, <2>4 DEF Record, RecordFails, BridgeTyped
    <2>5. CASE UNCHANGED <<file, recorded>>
        BY <2>5 DEF BridgeTyped
    <2> QED BY <2>1, <2>2, <2>3, <2>4, <2>5
            DEF Launch, Crash, Continues, TakesLock, Decides, Reconciles, EndsRun,
                LockCreate, LockWrite, LockExists, LockJudge, LockRename, LockRelease, LoadState, RetryPendingSignal,
                Asks, AsksNot, Answered, AskFails, RateLimited, Compare, Downloaded, ReconcileFails,
                SignalSwap, Settle, installVars
<1>3. lock' \in [by : Proc \cup {None}, pid : Proc \cup {None}, old : BOOLEAN]
    <2> DEFINE Locks == [by : Proc \cup {None}, pid : Proc \cup {None}, old : BOOLEAN]
               mine == [by |-> p, pid |-> None, old |-> FALSE]
               written == [lock EXCEPT !.pid = p]
    <2>1. lock' \in {mine, NoLock, written, lock}
        BY DEF Launch, Crash, Continues, TakesLock, Decides, Reconciles, EndsRun,
               LockCreate, LockWrite, LockExists, LockJudge, LockRename, LockRelease, LoadState, RetryPendingSignal,
               Asks, AsksNot, Answered, AskFails, RateLimited, Compare, Downloaded, ReconcileFails, Backup, Install,
               InstallFails, Record, RecordFails, SignalSwap, Settle
    <2>2. mine \in Locks /\ NoLock \in Locks
        BY DEF NoLock
    <2>3. written \in Locks /\ lock \in Locks
        BY DEF BridgeTyped
    <2> HIDE DEF Locks, mine, written
    <2>4. lock' \in Locks
        BY <2>1, <2>2, <2>3
    <2> QED BY <2>4 DEF Locks
<1>4. state' \in States
    <2>1. CASE AsksNot(p)
        BY <1>0, <2>1 DEF AsksNot, RunForms
    <2>2. CASE Settle(p)
        <3>1. Settled(run[p]) \in States
            BY <1>0 DEF Settled, States, RunForms
        <3> QED BY <2>2, <3>1 DEF Settle
    <2>3. CASE UNCHANGED state
        BY <2>3 DEF BridgeTyped
    <2> QED BY <2>1, <2>2, <2>3
            DEF Launch, Crash, Continues, TakesLock, Decides, Reconciles, EndsRun,
                LockCreate, LockWrite, LockExists, LockJudge, LockRename, LockRelease, LoadState, RetryPendingSignal,
                Asks, Answered, AskFails, RateLimited, Compare, Downloaded, ReconcileFails, Backup, Install,
                InstallFails, Record, RecordFails, SignalSwap
<1>5. daemon' \in Builds \cup {None} /\ status' \in {"none", "older", "own"}
    <2>1. (daemon' = daemon \/ daemon' = None) /\ status' = status
        BY DEF Launch, Crash, Continues, TakesLock, Decides, Reconciles, EndsRun,
               LockCreate, LockWrite, LockExists, LockJudge, LockRename, LockRelease, LoadState, RetryPendingSignal,
               Asks, AsksNot, Answered, AskFails, RateLimited, Compare, Downloaded, ReconcileFails, Backup, Install,
               InstallFails, Record, RecordFails, SignalSwap, Settle, SignalDaemon, daemonVars
    <2> QED BY <2>1 DEF BridgeTyped
<1>6. throttled' \in {"no", "told", "forgotten"}
    <2>1. throttled' = "told" \/ throttled' = Forgotten(p) \/ throttled' = throttled
        BY DEF Launch, Crash, Continues, TakesLock, Decides, Reconciles, EndsRun,
               LockCreate, LockWrite, LockExists, LockJudge, LockRename, LockRelease, LoadState, RetryPendingSignal,
               Asks, AsksNot, Answered, AskFails, RateLimited, Compare, Downloaded, ReconcileFails, Backup, Install,
               InstallFails, Record, RecordFails, SignalSwap, Settle
    <2> QED BY <2>1 DEF BridgeTyped, Forgotten
<1>7. faults' \in 0..MaxFault
    <2>1. Fault \/ faults' = faults
        BY DEF Launch, Crash, Continues, TakesLock, Decides, Reconciles, EndsRun,
               LockCreate, LockWrite, LockExists, LockJudge, LockRename, LockRelease, LoadState, RetryPendingSignal,
               Asks, AsksNot, Answered, AskFails, RateLimited, Compare, Downloaded, ReconcileFails, Backup, Install,
               InstallFails, Record, RecordFails, SignalSwap, Settle
    <2>2. MaxFault \in Nat /\ faults \in 0..MaxFault
        BY BoundAssumption DEF BoundAssumption, BridgeTyped
    <2> QED BY <2>1, <2>2 DEF Fault
<1>8. overlapped' \in BOOLEAN
    <2>1. overlapped' = (overlapped \/ \E q \in Proc : Locked(q)) \/ overlapped' = overlapped
        BY DEF Launch, Crash, Continues, TakesLock, Decides, Reconciles, EndsRun,
               LockCreate, LockWrite, LockExists, LockJudge, LockRename, LockRelease, LoadState, RetryPendingSignal,
               Asks, AsksNot, Answered, AskFails, RateLimited, Compare, Downloaded, ReconcileFails, Backup, Install,
               InstallFails, Record, RecordFails, SignalSwap, Settle
    <2> QED BY <2>1 DEF BridgeTyped
<1> QED BY <1>1, <1>2, <1>3, <1>4, <1>5, <1>6, <1>7, <1>8 DEF BridgeTyped

\* Every step of the servers, the daemon, time and upstream.
LEMMA BridgeSteps ==
    ASSUME BridgeInv, [Next]_vars
    PROVE  BridgeInv' /\ \A p \in Proc : Asks(p) => overlapped \/ (throttled # "told" /\ ~state.recent)
<1>1. \A p \in Proc : Asks(p) => overlapped \/ (throttled # "told" /\ ~state.recent)
    BY AsksKnowing
<1> SUFFICES BridgeInv'
    BY <1>1
<1>2. CASE \E p \in Proc : Launch(p) \/ Continues(p) \/ Crash(p)
    <2>1. PICK p \in Proc : Launch(p) \/ Continues(p) \/ Crash(p)
        BY <1>2
    <2>2. LimitsInv' /\ run' \in [Proc -> RunForms]
        <3>1. CASE LockCreate(p)
            BY <3>1, CreateSteps
        <3>2. CASE RateLimited(p)
            BY <3>2, RateLimitedSteps
        <3>3. CASE Settle(p) \/ AsksNot(p)
            BY <3>3, WritingSteps
        <3>4. CASE Crash(p) \/ SignalSwap(p)
            BY <3>4, EndingSteps
        <3>5. CASE Quietly(p)
            BY <3>5, QuietSteps
        <3> QED BY <2>1, <3>1, <3>2, <3>3, <3>4, <3>5, LockingIsQuiet, DecidingIsQuiet, ReconcilingIsQuiet
                DEF Continues, TakesLock, Decides, Reconciles, EndsRun
    <2> QED BY <2>1, <2>2, RunStepsTyped DEF BridgeInv
<1>3. CASE DaemonStarts \/ DaemonReports \/ DaemonExits \/ LockAges \/ \E part \in Part : Publish(part)
    BY <1>3, OutsideSteps
<1>4. CASE IntervalEnds \/ ThrottleEnds
    BY <1>4, TimeSteps
<1>5. CASE UNCHANGED vars
    BY <1>5 DEF vars, installVars, daemonVars, BridgeInv, BridgeTyped, LimitsInv, Alone, Locked, InStep, AskersKnow,
                ToldIsKept, Asking
<1> QED BY <1>2, <1>3, <1>4, <1>5 DEF Next

\* BridgeSafe, of runReleaseBridge: for every set of servers, any number of releases and
\* faults, no run begins to ask GitHub within the interval of the last check or before the
\* reset time an earlier run was given, unless a lock was taken from the run that held it
\* or the run that was told ended before it settled.
THEOREM BridgeIsSafe == Spec => BridgeSafe
<1>1. BridgeInv => TypeOK
    BY DEF BridgeInv, BridgeTyped, TypeOK, RunForms, RunStages
<1>2. BridgeInv /\ [Next]_vars => BridgeInv'
    BY BridgeSteps
<1>3. BridgeInv /\ [Next]_vars =>
          [\A p \in Proc : Asks(p) => overlapped \/ (throttled # "told" /\ ~state.recent)]_vars
    BY BridgeSteps
<1> QED BY BridgeStarts, <1>1, <1>2, <1>3, PTL DEF Spec, BridgeSafe, LimitsKept
==================================================================================
