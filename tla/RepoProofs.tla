------------------------------- MODULE RepoProofs -------------------------------
(* For every value of the constants: theorems about what gm-mcp does with      *)
(* repositories and with the directories on disk - the answers git gave it,    *)
(* the commits its lanes publish, what a housekeeping pass archives and what   *)
(* the janitor's sweep removes.                                                *)
EXTENDS Publish, Housekeep, GitRepo, Janitor, FiniteSetTheorems, WellFoundedInduction, TLAPS

-----------------------------------------------------------------------------
(* GitRepo: the cache of top levels, and the lock file of an index.          *)

\* Of some naturals one is the least.
LEMMA LeastOf ==
    ASSUME NEW S \in SUBSET Nat, S # {}
    PROVE  \E n \in S : \A m \in S : n <= m
<1> DEFINE Less == {p \in Nat \X Nat : p[1] < p[2]}
<1>1. IsWellFoundedOn(Less, Nat)
    BY NatLessThanWellFounded DEF OpToRel
<1>2. PICK n \in S : \A m \in S : ~ (<<m, n>> \in Less)
    <2> HIDE DEF Less
    <2> QED BY <1>1, WFMin
<1>3. \A m \in S : ~(m < n)
    BY <1>2
<1> QED BY <1>3

\* A directory is a sequence of names, and of a length.
LEMMA DirsAreSeqs ==
    ASSUME NEW d \in Dir
    PROVE  Len(d) \in Nat /\ DOMAIN d = 1..Len(d)
BY RepoShape

\* A prefix is the same at each of its places.
LEMMA PrefixAt ==
    ASSUME NEW d \in Dir, NEW e \in Dir
    PROVE  IsPrefix(e, d) <=> Len(e) <= Len(d) /\ \A i \in 1..Len(e) : e[i] = d[i]
<1>1. Len(d) \in Nat /\ Len(e) \in Nat /\ d \in Seq(Range(d)) /\ e \in Seq(Range(e))
    BY RepoShape
<1>2. SubSeq(e, 1, Len(e)) = [i \in 1..Len(e) |-> e[i]]
    BY <1>1
<1>3. SubSeq(d, 1, Len(e)) = [i \in 1..Len(e) |-> d[i]]
    BY <1>1
<1> QED BY <1>1, <1>2, <1>3 DEF IsPrefix

\* Two prefixes of one directory: the shorter is a prefix of the longer.
LEMMA PrefixChain ==
    ASSUME NEW d \in Dir, NEW e \in Dir, NEW f \in Dir
    PROVE  /\ IsPrefix(e, f) /\ IsPrefix(f, d) => IsPrefix(e, d)
           /\ IsPrefix(e, d) /\ IsPrefix(f, d) /\ Len(f) <= Len(e) => IsPrefix(f, e)
           /\ IsPrefix(d, d)
BY PrefixAt, DirsAreSeqs

\* The nearest directory upwards is the longest.
LEMMA ToplevelIsAbove ==
    ASSUME NEW d \in Dir, NEW within \in SUBSET Dir, Above(d, within) # {}
    PROVE  Toplevel(d, within) \in Above(d, within)
<1> DEFINE Depths == {n \in Nat : \E e \in Above(d, within) : n = Len(d) - Len(e)}
<1>1. \A e \in Above(d, within) : e \in Dir /\ IsPrefix(e, d) /\ Len(e) \in Nat /\ Len(e) <= Len(d)
    BY DirsAreSeqs, PrefixAt DEF Above
<1>2. Depths # {}
    <2>1. PICK e : e \in Above(d, within)
        OBVIOUS
    <2>2. Len(d) - Len(e) \in Nat
        BY <1>1, <2>1, DirsAreSeqs
    <2> QED BY <2>1, <2>2
<1>3. PICK n \in Depths : \A m \in Depths : n <= m
    <2>1. Depths \in SUBSET Nat
        OBVIOUS
    <2> HIDE DEF Depths
    <2> QED BY <1>2, <2>1, LeastOf
<1>4. PICK e \in Above(d, within) : n = Len(d) - Len(e)
    OBVIOUS
<1>5. \A f \in Above(d, within) : Len(d) - Len(f) \in Depths
    BY <1>1, DirsAreSeqs
<1>6. \A f \in Above(d, within) : Len(f) <= Len(e)
    <2> HIDE DEF Depths
    <2> QED BY <1>1, <1>3, <1>4, <1>5, DirsAreSeqs
<1>7. \A f \in Above(d, within) : IsPrefix(f, e)
    BY <1>1, <1>6, PrefixChain
<1> QED BY <1>7 DEF Toplevel

CacheTyped ==
    /\ repos \subseteq Dir /\ DOMAIN layout \subseteq Dir /\ \A d \in DOMAIN layout : layout[d] \in Dir
    /\ foreign \subseteq DOMAIN layout
    /\ IsFiniteSet(DOMAIN layout) /\ Cardinality(DOMAIN layout) <= MaxEntries

LockFileTyped ==
    /\ lock \in {"none", "empty", "full"} /\ lockOld \in BOOLEAN /\ fd \subseteq GitProc
    /\ git \in [GitProc -> {"idle", "holding"}]
    /\ judge \in [LockServer -> {"idle", "seen", "unheld"}]

GitIInv == CacheTyped /\ LockFileTyped /\ LayoutIsGits

\* An empty cache and no lock file to begin with.
LEMMA GitStarts == GitInit => GitIInv
<1> SUFFICES ASSUME GitInit PROVE GitIInv
    OBVIOUS
<1>1. DOMAIN layout = {} /\ IsFiniteSet({}) /\ Cardinality({}) = 0
    BY FS_EmptySet DEF GitInit
<1>2. repos \subseteq Dir
    BY RepoShape DEF GitInit
<1>3. CacheTyped
    BY <1>1, <1>2, RepoShape DEF GitInit, CacheTyped
<1>4. LockFileTyped /\ LayoutIsGits
    BY <1>1 DEF GitInit, LockFileTyped, LayoutIsGits
<1> QED BY <1>3, <1>4 DEF GitIInv

\* What is forgotten leaves entries that nothing at d can have changed.
LEMMA ForgetsEnough ==
    ASSUME GitIInv, NEW d \in Dir
    PROVE  LET F == Forgotten(d)
           IN  /\ DOMAIN F \subseteq DOMAIN layout /\ \A e \in DOMAIN F : F[e] = layout[e] /\ ~Overlap(e, d)
               /\ IsFiniteSet(DOMAIN F) /\ Cardinality(DOMAIN F) <= MaxEntries
<1> DEFINE F == Forgotten(d)
<1>1. DOMAIN F \subseteq DOMAIN layout /\ \A e \in DOMAIN F : F[e] = layout[e] /\ ~Overlap(e, d)
    BY DEF Forgotten
<1> HIDE DEF F
<1>2. IsFiniteSet(DOMAIN layout) /\ Cardinality(DOMAIN layout) <= MaxEntries /\ MaxEntries \in Nat
    BY RepoShape DEF GitIInv, CacheTyped
<1>3. IsFiniteSet(DOMAIN F) /\ Cardinality(DOMAIN F) <= Cardinality(DOMAIN layout)
    BY <1>1, <1>2, FS_Subset
<1>4. Cardinality(DOMAIN F) <= MaxEntries
    BY <1>2, <1>3, FS_CardinalityType
<1> QED BY <1>1, <1>3, <1>4 DEF F

\* A lookup, a new repository and an eviction keep what the cache says true.
LEMMA CacheSteps == ASSUME GitIInv, LayoutNext PROVE GitIInv'
<1>0. /\ repos \subseteq Dir /\ DOMAIN layout \subseteq Dir /\ \A d \in DOMAIN layout : layout[d] \in Dir
      /\ foreign \subseteq DOMAIN layout /\ IsFiniteSet(DOMAIN layout) /\ Cardinality(DOMAIN layout) <= MaxEntries
      /\ MaxEntries \in Nat \ {0}
    BY RepoShape DEF GitIInv, CacheTyped
<1>1. UNCHANGED lockVars => LockFileTyped'
    BY DEF lockVars, GitIInv, LockFileTyped
<1>2. ASSUME NEW d \in Dir, AskLayout(d) PROVE GitIInv'
    <2>1. UNCHANGED <<repos, lockVars>> /\ foreign' = (foreign \cap DOMAIN layout') \ {d} /\ d \notin DOMAIN layout
        BY <1>2 DEF AskLayout
    <2>2. CASE Above(d, repos) = {}
        <3>1. layout' = Forgotten(d)
            BY <1>2, <2>2 DEF AskLayout
        <3>2. /\ DOMAIN layout' \subseteq DOMAIN layout /\ \A e \in DOMAIN layout' : layout'[e] = layout[e]
              /\ IsFiniteSet(DOMAIN layout') /\ Cardinality(DOMAIN layout') <= MaxEntries
            BY <3>1, ForgetsEnough
        <3>3. d \notin DOMAIN layout'
            BY <2>1, <3>2
        <3>4. foreign' = foreign \cap DOMAIN layout'
            BY <2>1, <3>3
        <3>5. CacheTyped'
            BY <1>0, <2>1, <3>2, <3>4 DEF CacheTyped
        <3>6. LayoutIsGits'
            BY <2>1, <3>2, <3>4 DEF GitIInv, LayoutIsGits, Above, Toplevel
        <3> QED BY <1>1, <2>1, <3>5, <3>6 DEF GitIInv
    <2>3. CASE Above(d, repos) # {}
        <3> DEFINE room == IF Full THEN <<>> ELSE layout
                   D == DOMAIN room \cup {d}
                   top == Toplevel(d, repos)
        <3>1. layout' = [e \in D |-> IF e = d THEN top ELSE room[e]]
            BY <1>2, <2>3 DEF AskLayout
        <3>2. DOMAIN room \subseteq DOMAIN layout /\ \A e \in DOMAIN room : room[e] = layout[e]
            <4>1. DOMAIN (<<>>) = {}
                OBVIOUS
            <4> QED BY <4>1
        <3>3. top \in Dir
            BY <1>0, <2>3, ToplevelIsAbove DEF Above
        <3>4. IsFiniteSet(DOMAIN room) /\ Cardinality(DOMAIN room) + 1 <= MaxEntries
            <4>1. CASE Full
                <5>1. DOMAIN room = {}
                    BY <4>1
                <5>2. IsFiniteSet({}) /\ Cardinality({}) = 0
                    BY FS_EmptySet
                <5> QED BY <1>0, <5>1, <5>2
            <4>2. CASE ~Full
                <5>1. room = layout /\ ~(Cardinality(DOMAIN layout) >= MaxEntries) /\ Cardinality(DOMAIN layout) \in Nat
                    BY <1>0, <4>2, FS_CardinalityType DEF Full
                <5> QED BY <1>0, <5>1
            <4> QED BY <4>1, <4>2
        <3>5. d \notin DOMAIN room /\ d \notin foreign
            BY <1>0, <2>1, <3>2
        <3> HIDE DEF room, top
        <3>6. DOMAIN layout' = D /\ layout'[d] = top /\ \A e \in DOMAIN room : e # d /\ layout'[e] = layout[e]
            BY <3>1, <3>2, <3>5
        <3>7. IsFiniteSet(D) /\ Cardinality(D) <= MaxEntries
            BY <3>4, <3>5, FS_AddElement
        <3>8. foreign' = foreign \cap DOMAIN room
            BY <2>1, <3>5, <3>6
        <3>9. CacheTyped'
            BY <1>0, <2>1, <3>2, <3>3, <3>6, <3>7, <3>8 DEF CacheTyped
        <3>10. LayoutIsGits'
            <4>1. ASSUME NEW e \in DOMAIN layout' \ foreign' PROVE Above(e, repos) # {} /\ layout'[e] = Toplevel(e, repos)
                <5>1. CASE e = d
                    BY <2>3, <3>6, <5>1 DEF top
                <5>2. CASE e # d
                    <6>1. e \in DOMAIN layout \ foreign /\ layout'[e] = layout[e]
                        BY <3>2, <3>6, <3>8, <5>2, <4>1
                    <6> QED BY <6>1 DEF GitIInv, LayoutIsGits
                <5> QED BY <5>1, <5>2
            <4> QED BY <2>1, <4>1 DEF LayoutIsGits, Above, Toplevel
        <3> QED BY <1>1, <2>1, <3>9, <3>10 DEF GitIInv
    <2> QED BY <2>2, <2>3
<1>3. ASSUME NEW e \in Dir, NEW d \in Dir, ~IsPrefix(e, d) PROVE Above(d, repos) = Above(d, Toggled(e))
    BY <1>0, <1>3 DEF Above, Toggled
<1>4. ASSUME NEW d \in Dir, RunGit(d) PROVE GitIInv'
    <2>1. PICK e \in Dir : IsPrefix(d, e) /\ repos' \in {repos, Toggled(e)}
        BY <1>4 DEF RunGit
    <2>2. UNCHANGED lockVars /\ foreign' = foreign \cap DOMAIN layout'
        BY <1>4 DEF RunGit
    <2>3. layout' = Forgotten(d)
        BY <1>4 DEF RunGit
    <2>4. /\ DOMAIN layout' \subseteq DOMAIN layout /\ \A f \in DOMAIN layout' : layout'[f] = layout[f] /\ ~Overlap(f, d)
          /\ IsFiniteSet(DOMAIN layout') /\ Cardinality(DOMAIN layout') <= MaxEntries
        BY <2>3, ForgetsEnough
    <2>5. repos' \subseteq Dir
        BY <1>0, <2>1 DEF Toggled
    <2>6. CacheTyped'
        BY <1>0, <2>2, <2>4, <2>5 DEF CacheTyped
    <2>7. ASSUME NEW f \in DOMAIN layout' PROVE Above(f, repos') = Above(f, repos)
        <3>1. f \in Dir /\ ~IsPrefix(d, f)
            BY <1>0, <2>4 DEF Overlap
        <3>2. ~IsPrefix(e, f)
            BY <2>1, <3>1, PrefixChain
        <3> QED BY <1>3, <2>1, <3>1, <3>2
    <2>8. LayoutIsGits'
        BY <2>2, <2>4, <2>7 DEF GitIInv, LayoutIsGits, Toplevel
    <2> QED BY <1>1, <2>2, <2>6, <2>8 DEF GitIInv
<1>5. ASSUME NEW e \in Dir, OthersGit(e) PROVE GitIInv'
    <2>1. repos' = Toggled(e) /\ foreign' = foreign \cup {f \in DOMAIN layout : IsPrefix(e, f)} /\ UNCHANGED <<layout, lockVars>>
        BY <1>5 DEF OthersGit
    <2>2. CacheTyped'
        BY <1>0, <2>1 DEF CacheTyped, Toggled
    <2>3. ASSUME NEW f \in DOMAIN layout \ foreign' PROVE Above(f, repos') = Above(f, repos) /\ f \notin foreign
        BY <1>0, <1>3, <2>1, <2>3
    <2>4. LayoutIsGits'
        BY <2>1, <2>3 DEF GitIInv, LayoutIsGits, Toplevel
    <2> QED BY <1>1, <2>1, <2>2, <2>4 DEF GitIInv
<1> QED BY <1>2, <1>4, <1>5 DEF LayoutNext

\* Each step of the git processes and of the server that clears a lock keeps whose lock it is.
LEMMA LockFileSteps == ASSUME GitIInv, LockNext PROVE GitIInv'
<1>1. UNCHANGED repoVars
    BY DEF LockNext, GitTakes, GitWrites, GitReleases, GitDies, SeesStale, FindsHolders, Quarantine, LockGetsOld
<1>2. LockFileTyped'
    BY DEF GitIInv, LockFileTyped, LockNext, GitTakes, GitWrites, GitReleases, GitDies, SeesStale, FindsHolders,
        Quarantine, LockGetsOld, JudgeGoes
<1> QED BY <1>1, <1>2 DEF repoVars, GitIInv, CacheTyped, LayoutIsGits, Above, Toplevel

\* Nothing changes while the part rests.
LEMMA GitRests == GitIInv /\ UNCHANGED gitVars => GitIInv'
BY DEF gitVars, repoVars, lockVars, GitIInv, CacheTyped, LockFileTyped, LayoutIsGits, Above, Toplevel

(* Whatever directory runGit is asked about, and whatever gm-mcp's own calls  *)
(* made or removed in between, the top level it answers from its cache is the *)
(* one git would find (cachedLayout, forgetLayout), but for what other        *)
(* processes did to .git; and the cache stays within its limit.               *)
THEOREM LayoutKept == GitSpec => []GitRepoInv
<1>1. GitIInv /\ [GitNext]_gitVars => GitIInv'
    BY CacheSteps, LockFileSteps, GitRests DEF GitNext
<1>2. GitIInv => GitRepoInv
    BY DEF GitIInv, CacheTyped, LockFileTyped, GitRepoInv, GitTypeOK, Range
<1> QED BY <1>1, <1>2, GitStarts, PTL DEF GitSpec

-----------------------------------------------------------------------------
(* Publish: lanes that land on origin/main.                                  *)

\* Each lane works in a clone of its own.
OwnClones == \A l, m \in Lane : CloneOf[l] = CloneOf[m] => l = m

\* What a call of the lane takes away.
TakenBy(l) == Drops[l] \cup (IF l \in Closing THEN {RowFile} ELSE {})

\* Now keeps what was, but for what the lane takes away, and has the lane's work.
Keeps(l, was, now) ==
    /\ \A p \in Path \ TakenBy(l) : was.files[p] \subseteq now.files[p]
    /\ \A p \in Edits[l] \ TakenBy(l) : l \in now.files[p]
    /\ l \in Closing => l \in now.files[ClosesFile]
    /\ was.pin <= now.pin /\ Pins[l] <= now.pin

Stages == {"idle", "fetch", "fork", "read", "merge", "commit", "check", "push",
           "refetch", "rebase", "retry", "verify", "published", "refused"}
Locals == [at : Stages, base : {0, 1}, index : Trees, todo : SUBSET (Path \cup {"pin"}), conflict : BOOLEAN,
           commit : [parent : Nat, tree : Trees]]
PubTyped ==
    /\ origin \in Seq(Trees) /\ Len(origin) \in Nat \ {0} /\ origin[1] = FirstTree
    /\ track \in [Clone -> 1..Len(origin)]
    /\ lane \in [Lane -> Locals] /\ landed \subseteq Lane

\* A pin on origin only moves forward.
PinsGrow == \A i, j \in 1..Len(origin) : i <= j => origin[i].pin <= origin[j].pin

\* Who has not landed is in no file of origin, and has a hand in no index but its own.
Authors == \A i \in 1..Len(origin), p \in Path : origin[i].files[p] \subseteq landed \cup {Text}
OwnHand(l) ==
    /\ lane[l].commit.parent <= Len(origin)
    /\ \A p \in Path : /\ lane[l].index.files[p] \subseteq landed \cup {Text, l}
                       /\ lane[l].commit.tree.files[p] \subseteq landed \cup {Text, l}

\* What was merged of the listed paths, while the tip is the one the index began with.
Merging(l) ==
    /\ lane[l].base = 1 /\ lane[l].todo \subseteq Listed(l) \cup {"pin"}
    /\ \A p \in Path : p \in lane[l].todo \/ p \notin Listed(l) => lane[l].index.files[p] = Tip(l).files[p]
    /\ \A p \in Listed(l) \ lane[l].todo :
           \/ p \in TakenBy(l) \/ (p = ClosesFile /\ l \in Closing) \/ lane[l].conflict
           \/ Tip(l).files[p] \subseteq lane[l].index.files[p] /\ l \in lane[l].index.files[p]
    /\ "pin" \in lane[l].todo => lane[l].index.pin = Tip(l).pin /\ Pins[l] # 0
    /\ Tip(l).pin <= lane[l].index.pin
    /\ "pin" \notin lane[l].todo => lane[l].conflict \/ Pins[l] <= lane[l].index.pin

\* A commit is made of its parent.
Committed(l) ==
    /\ lane[l].commit.parent \in 1..track[CloneOf[l]]
    /\ Keeps(l, origin[lane[l].commit.parent], lane[l].commit.tree)

Unlanded(l) == \A p \in Path : l \notin origin[lane[l].commit.parent].files[p]

Early == {"idle", "fetch", "fork", "read", "merge", "commit", "check"}
Built(l) ==
    /\ lane[l].at \in Early => l \notin landed
    /\ lane[l].at = "read" => lane[l].base = 1
    /\ lane[l].at = "merge" => Merging(l)
    /\ lane[l].at = "commit" => Keeps(l, Tip(l), lane[l].index)
    /\ lane[l].at \in {"check", "push", "refetch", "rebase"} => Committed(l) /\ Unlanded(l)
    /\ lane[l].at = "retry" => Committed(l)

PubIInv == PubTyped /\ PinsGrow /\ Authors /\ (\A l \in Lane : OwnHand(l) /\ Built(l)) /\ LandedStays

\* The first tree of origin/main is one.
LEMMA FirstTreeTyped == FirstTree \in Trees
BY PublishAssumption DEF FirstTree, Trees

\* Three that differ are three.
LEMMA ThreeThings == ASSUME NEW x, NEW y, NEW z, x # y, x # z, y # z PROVE Cardinality({x, y, z}) = 3
<1>1. IsFiniteSet({x}) /\ Cardinality({x}) = 1
    BY FS_Singleton
<1>2. IsFiniteSet({x} \cup {y}) /\ Cardinality({x} \cup {y}) = 2
    BY <1>1, FS_AddElement
<1>3. Cardinality(({x} \cup {y}) \cup {z}) = 3
    BY <1>2, FS_AddElement
<1>4. ({x} \cup {y}) \cup {z} = {x, y, z}
    OBVIOUS
<1> QED BY <1>3, <1>4

\* The tip a lane knows is a commit of origin.
LEMMA TipTyped ==
    ASSUME PubTyped, NEW l \in Lane
    PROVE  /\ track[CloneOf[l]] \in 1..Len(origin) /\ CloneOf[l] \in Clone
           /\ Tip(l) \in Trees /\ Tip(l) = origin[track[CloneOf[l]]]
           /\ \A i \in 1..Len(origin) : origin[i] \in Trees
BY DEF PubTyped, Tip, Clone

\* No call has begun, and origin/main has its first commit.
LEMMA PubStarts == PubInit => PubIInv
<1> SUFFICES ASSUME PubInit PROVE PubIInv
    OBVIOUS
<1>1. origin \in Seq(Trees) /\ Len(origin) = 1 /\ origin[1] = FirstTree
    BY FirstTreeTyped DEF PubInit
<1>2. NotCalled \in Locals
    BY FirstTreeTyped DEF NotCalled, NoCommit, Locals, Stages
<1>3. PubTyped
    BY <1>1, <1>2 DEF PubInit, PubTyped
<1>4. \A p \in Path : FirstTree.files[p] \subseteq {Text}
    BY DEF FirstTree
<1>5. PinsGrow /\ Authors /\ LandedStays
    BY <1>1, <1>4, FirstTreeTyped DEF PubInit, PinsGrow, Authors, LandedStays, Trees
<1>6. ASSUME NEW l \in Lane PROVE OwnHand(l) /\ Built(l)
    BY <1>4 DEF PubInit, NotCalled, NoCommit, OwnHand, Built
<1> QED BY <1>3, <1>5, <1>6 DEF PubIInv

\* A step of one lane on its own.
LEMMA LaneMoves ==
    ASSUME PubIInv, NEW l \in Lane, UNCHANGED <<origin, track, landed>>, lane' \in [Lane -> Locals],
           \A m \in Lane \ {l} : lane'[m] = lane[m], OwnHand(l)', Built(l)'
    PROVE  PubIInv'
<1>1. PubTyped'
    BY DEF PubIInv, PubTyped
<1>2. ASSUME NEW m \in Lane \ {l} PROVE OwnHand(m)' /\ Built(m)'
    BY DEF PubIInv, OwnHand, Built, Merging, Committed, Unlanded, Tip
<1> QED BY <1>1, <1>2 DEF PubIInv, PinsGrow, Authors, LandedStays

\* A lane that only fetches leaves every other with the tip it has.
LEMMA LaneFetches ==
    ASSUME PubIInv, OwnClones, NEW l \in Lane, Fetches(l), UNCHANGED <<origin, landed>>, lane' \in [Lane -> Locals],
           \A m \in Lane \ {l} : lane'[m] = lane[m], OwnHand(l)', Built(l)'
    PROVE  PubIInv'
<1>1. Len(origin) \in 1..Len(origin)
    BY DEF PubIInv, PubTyped
<1>2. PubTyped'
    BY <1>1, TipTyped DEF PubIInv, PubTyped, Fetches
<1>3. ASSUME NEW m \in Lane \ {l} PROVE OwnHand(m)' /\ Built(m)'
    <2>1. CloneOf[m] # CloneOf[l] /\ CloneOf[m] \in Clone /\ CloneOf[l] \in Clone
        BY DEF OwnClones, Clone
    <2>2. track'[CloneOf[m]] = track[CloneOf[m]]
        BY <2>1 DEF Fetches, PubIInv, PubTyped
    <2>3. Tip(m)' = Tip(m)
        BY <2>2 DEF Tip
    <2> QED BY <2>2, <2>3 DEF PubIInv, OwnHand, Built, Merging, Committed, Unlanded
<1> QED BY <1>2, <1>3 DEF PubIInv, PinsGrow, Authors, LandedStays

\* The fields of a lane's locals.
LEMMA LocalsTyped ==
    ASSUME PubIInv, NEW l \in Lane
    PROVE  /\ lane \in [Lane -> Locals] /\ lane[l] \in Locals /\ lane[l].index \in Trees /\ lane[l].todo \subseteq Path \cup {"pin"}
           /\ lane[l].conflict \in BOOLEAN /\ lane[l].commit.parent \in Nat /\ lane[l].commit.tree \in Trees
           /\ lane[l].commit \in [parent : Nat, tree : Trees] /\ lane[l].base \in {0, 1}
           /\ OwnHand(l) /\ Built(l)
BY DEF PubIInv, PubTyped, Locals

\* A lane that only goes on to another stage.
LEMMA LaneGoesOn ==
    ASSUME PubIInv, NEW l \in Lane, NEW stage \in Stages, LaneGoes(l, stage)
    PROVE  /\ lane' \in [Lane -> Locals] /\ \A m \in Lane \ {l} : lane'[m] = lane[m]
           /\ lane'[l].at = stage /\ lane'[l].index = lane[l].index /\ lane'[l].commit = lane[l].commit
           /\ lane'[l].todo = lane[l].todo /\ lane'[l].base = lane[l].base /\ lane'[l].conflict = lane[l].conflict
<1>1. lane[l] \in Locals /\ lane \in [Lane -> Locals]
    BY LocalsTyped
<1>2. [lane[l] EXCEPT !.at = stage] \in Locals
    BY <1>1 DEF Locals
<1> QED BY <1>1, <1>2 DEF LaneGoes, Locals

\* A call begins, fails or looks at its commit: nothing it has built is another's.
LEMMA CallSteps == ASSUME PubIInv, NEW l \in Lane, Call(l) \/ BuildFails(l) \/ PushRefused(l) \/ CheckCommit(l) PROVE PubIInv'
<1>1. PICK stage \in Stages : LaneGoes(l, stage)
    BY DEF Call, BuildFails, PushRefused, CheckCommit, Stages
<1>2. UNCHANGED <<origin, track, landed>>
    BY DEF Call, BuildFails, PushRefused, CheckCommit
<1>3. OwnHand(l)'
    BY <1>1, <1>2, LaneGoesOn, LocalsTyped DEF OwnHand
<1>4. /\ stage \in {"fetch", "refused", "push", "refetch"}
      /\ stage = "fetch" => lane[l].at = "idle"
      /\ stage = "push" => lane[l].at = "check"
      /\ stage = "refetch" => lane[l].at = "push"
    <2>1. lane'[l].at = stage
        BY <1>1, LaneGoesOn
    <2>2. \A s \in Stages : LaneGoes(l, s) => lane'[l].at = s
        BY LaneGoesOn
    <2> QED BY <2>1, <2>2 DEF Call, BuildFails, PushRefused, CheckCommit, LaneAt, Stages
<1>5. Built(l)'
    BY <1>1, <1>2, <1>4, LaneGoesOn, LocalsTyped DEF Built, Committed, Unlanded, Early
<1> QED BY <1>1, <1>2, <1>3, <1>5, LaneGoesOn, LaneMoves

\* A fetch brings the clone up to origin/main; a call that saw its commit there has landed.
LEMMA FetchSteps == ASSUME PubIInv, OwnClones, NEW l \in Lane, FetchOrigin(l) \/ Refetch(l) \/ Verify(l) PROVE PubIInv'
<1>1. PICK stage \in Stages : LaneGoes(l, stage) /\ lane'[l].at = stage
    BY LaneGoesOn DEF FetchOrigin, Refetch, Verify, Stages
<1>2. UNCHANGED <<origin, landed>> /\ (Fetches(l) \/ UNCHANGED track)
    BY DEF FetchOrigin, Refetch, Verify
<1>3. OwnHand(l)'
    BY <1>1, <1>2, LaneGoesOn, LocalsTyped DEF OwnHand
<1>4. /\ stage \in {"fork", "rebase", "published"}
      /\ stage = "fork" => lane[l].at = "fetch"
      /\ stage = "rebase" => lane[l].at = "refetch"
    <2>1. \A s \in Stages : LaneGoes(l, s) => lane'[l].at = s
        BY LaneGoesOn
    <2> QED BY <1>1, <2>1 DEF FetchOrigin, Refetch, Verify, LaneAt, Stages
<1>5. track[CloneOf[l]] <= track'[CloneOf[l]] /\ 1..track[CloneOf[l]] \subseteq 1..track'[CloneOf[l]]
    <2>1. track[CloneOf[l]] \in Nat /\ track[CloneOf[l]] <= Len(origin) /\ Len(origin) \in Nat
        BY TipTyped DEF PubIInv, PubTyped
    <2>2. track' = track \/ track'[CloneOf[l]] = Len(origin)
        BY <1>2, TipTyped DEF Fetches, PubIInv, PubTyped
    <2> QED BY <2>1, <2>2
<1>6. Built(l)'
    BY <1>1, <1>2, <1>4, <1>5, LaneGoesOn, LocalsTyped DEF Built, Committed, Unlanded, Early, Keeps
<1> QED BY <1>1, <1>2, <1>3, <1>6, LaneGoesOn, LaneMoves, LaneFetches

\* What the assumption says of one lane.
LEMMA LaneListed ==
    ASSUME NEW l \in Lane
    PROVE  /\ Edits[l] \subseteq Path /\ Drops[l] \subseteq Path /\ Edits[l] \cap Drops[l] = {}
           /\ Listed(l) \subseteq Path /\ TakenBy(l) \subseteq Listed(l) /\ Pins[l] \in Nat /\ l # Text
<1>1. Edits[l] \in SUBSET Path /\ Drops[l] \in SUBSET Path /\ Pins[l] \in Nat /\ Edits[l] \cap Drops[l] = {} /\ l # Text
    BY PublishAssumption
<1>2. ClosesFile \in Path /\ RowFile \in Path
    BY PublishAssumption
<1> QED BY <1>1, <1>2 DEF Listed, TakenBy

\* The index begins as the tip.
LEMMA ReadSteps == ASSUME PubIInv, NEW l \in Lane, FindFork(l) \/ ReadTree(l) PROVE PubIInv'
<1>0. UNCHANGED <<origin, track, landed>>
    BY DEF FindFork, ReadTree
<1>1. CASE FindFork(l)
    <2> DEFINE now == [lane[l] EXCEPT !.at = "read", !.base = 1]
    <2>1. now \in Locals
        BY LocalsTyped DEF Locals, Stages
    <2>2. lane' = [lane EXCEPT ![l] = now]
        BY <1>1 DEF FindFork, ForkPoint
    <2>3. now.at = "read" /\ now.base = 1 /\ now.index = lane[l].index /\ now.commit = lane[l].commit
        BY LocalsTyped DEF Locals
    <2> HIDE DEF now
    <2>4. lane' \in [Lane -> Locals] /\ lane'[l] = now /\ \A m \in Lane \ {l} : lane'[m] = lane[m]
        BY <2>1, <2>2, LocalsTyped
    <2>5. OwnHand(l)'
        BY <1>0, <2>3, <2>4, LocalsTyped DEF OwnHand
    <2>6. Built(l)'
        BY <1>0, <1>1, <2>3, <2>4, LocalsTyped DEF Built, FindFork, LaneAt, Early
    <2> QED BY <1>0, <2>4, <2>5, <2>6, LaneMoves
<1>2. CASE ReadTree(l)
    <2> DEFINE todo == Listed(l) \cup (IF Pins[l] # 0 THEN {"pin"} ELSE {})
               now == [lane[l] EXCEPT !.at = "merge", !.index = Tip(l), !.todo = todo]
    <2>0. Tip(l) \in Trees /\ Tip(l) = origin[track[CloneOf[l]]] /\ track[CloneOf[l]] \in 1..Len(origin)
        BY TipTyped DEF PubIInv
    <2>a. Listed(l) \subseteq Path /\ Pins[l] \in Nat
        BY LaneListed
    <2>1. now \in Locals
        <3>1. todo \in SUBSET (Path \cup {"pin"}) /\ lane[l] \in Locals
            BY <2>a, LocalsTyped
        <3> HIDE DEF todo
        <3> QED BY <2>0, <3>1 DEF Locals, Stages
    <2>2. lane' = [lane EXCEPT ![l] = now]
        BY <1>2 DEF ReadTree
    <2>3. now.at = "merge" /\ now.base = lane[l].base /\ now.index = Tip(l) /\ now.commit = lane[l].commit /\ now.todo = todo
        BY LocalsTyped DEF Locals
    <2> HIDE DEF now
    <2>4. lane' \in [Lane -> Locals] /\ lane'[l] = now /\ \A m \in Lane \ {l} : lane'[m] = lane[m]
        BY <2>1, <2>2, LocalsTyped
    <2>b. \A p \in Path : Tip(l).files[p] \subseteq landed \cup {Text}
        BY <2>0 DEF PubIInv, Authors
    <2>5. OwnHand(l)'
        BY <1>0, <2>b, <2>3, <2>4, LocalsTyped DEF OwnHand
    <2>c. Tip(l)' = Tip(l) /\ Tip(l).pin \in Nat
        BY <1>0, <2>0 DEF Tip, Trees
    <2>6. Merging(l)'
        <3>1. lane'[l].base = 1
            BY <1>2, <2>3, <2>4, LocalsTyped DEF ReadTree, LaneAt, Built
        <3>2. lane'[l].index = Tip(l)' /\ lane'[l].todo = todo
            BY <2>3, <2>4, <2>c
        <3>3. "pin" \in todo <=> Pins[l] # 0
            BY <2>a, PublishAssumption
        <3>4. Listed(l) \subseteq todo /\ todo \subseteq Listed(l) \cup {"pin"}
            OBVIOUS
        <3> HIDE DEF todo
        <3> QED BY <2>c, <2>a, <3>1, <3>2, <3>3, <3>4 DEF Merging
    <2>7. Built(l)'
        BY <1>0, <1>2, <2>3, <2>4, <2>6, LocalsTyped DEF Built, ReadTree, LaneAt, Early
    <2> QED BY <1>0, <2>4, <2>5, <2>7, LaneMoves
<1> QED BY <1>1, <1>2

\* What was tracked and what the lane has of a listed path.
LEMMA OursIs ==
    ASSUME NEW l \in Lane, NEW p \in Listed(l), ~(Ours(l, p) = {} \/ (p = RowFile /\ l \in Closing))
    PROVE  /\ p \in Edits[l] /\ Ours(l, p) = FirstTree.files[p] \cup {l} /\ l \notin FirstTree.files[p]
           /\ FirstTree.files[p] \subseteq {Text}
<1>1. FirstTree.files[p] \subseteq {Text} /\ FirstTree.files[ClosesFile] = {} /\ l \notin FirstTree.files[p]
    BY LaneListed, PublishAssumption DEF FirstTree
<1>2. CASE p \in Edits[l]
    BY <1>1, <1>2, LaneListed DEF Ours
<1>3. CASE p \in Drops[l]
    BY <1>3, LaneListed DEF Ours
<1>4. CASE p \notin Edits[l] /\ p \notin Drops[l]
    <2>1. p \in {ClosesFile, RowFile} /\ l \in Closing /\ Ours(l, p) = FirstTree.files[p]
        BY <1>4 DEF Listed, Ours
    <2> QED BY <1>1, <2>1
<1> QED BY <1>2, <1>3, <1>4

\* A path the lane did not edit has nothing of it to merge.
LEMMA OursEmpty ==
    ASSUME NEW l \in Lane, NEW p \in Listed(l), Ours(l, p) = {} \/ (p = RowFile /\ l \in Closing)
    PROVE  p \in TakenBy(l) \/ (p = ClosesFile /\ l \in Closing)
<1>1. p \in Edits[l] => Ours(l, p) # {}
    BY LaneListed DEF Ours
<1> QED BY <1>1 DEF Listed, TakenBy

\* One path more is staged: what was merged before is as it was.
LEMMA StageKeeps ==
    ASSUME PubIInv, NEW l \in Lane, LaneAt(l, "merge"), NEW p \in lane[l].todo \cap Path,
           NEW edits \in SUBSET (landed \cup {Text, l}), NEW conflict \in BOOLEAN, Stage(l, p, edits, conflict),
           UNCHANGED <<origin, track, landed>>,
           p \in TakenBy(l) \/ (p = ClosesFile /\ l \in Closing) \/ conflict \/ (Tip(l).files[p] \subseteq edits /\ l \in edits)
    PROVE  PubIInv'
<1> DEFINE was == lane[l]
           files == [was.index.files EXCEPT ![p] = edits]
           index == [was.index EXCEPT !.files = files]
           now == [was EXCEPT !.index = index, !.conflict = was.conflict \/ conflict, !.todo = was.todo \ {p}]
<1>1. /\ was \in Locals /\ was.index \in Trees /\ was.todo \subseteq Path \cup {"pin"} /\ was.conflict \in BOOLEAN
      /\ OwnHand(l) /\ Built(l) /\ lane \in [Lane -> Locals] /\ was.at = "merge"
    BY LocalsTyped DEF LaneAt
<1>2. landed \subseteq Lane
    BY DEF PubIInv, PubTyped
<1>3. files \in [Path -> SUBSET (Lane \cup {Text})]
    BY <1>1, <1>2 DEF Trees
<1>4. files[p] = edits /\ \A q \in Path \ {p} : files[q] = was.index.files[q]
    BY <1>1 DEF Trees
<1>5. index \in Trees /\ index.files = files /\ index.pin = was.index.pin
    <2> HIDE DEF files
    <2> QED BY <1>1, <1>3 DEF Trees
<1>6. now \in Locals
    <2> HIDE DEF index
    <2> QED BY <1>1, <1>5 DEF Locals
<1>7. /\ now.at = was.at /\ now.base = was.base /\ now.index = index /\ now.todo = was.todo \ {p}
      /\ now.conflict = (was.conflict \/ conflict) /\ now.commit = was.commit
    <2> HIDE DEF index
    <2> QED BY <1>1 DEF Locals
<1>8. lane' = [lane EXCEPT ![l] = now]
    BY <1>1 DEF Stage, Locals, Trees
<1> HIDE DEF now, index, files
<1>9. lane' \in [Lane -> Locals] /\ lane'[l] = now /\ \A m \in Lane \ {l} : lane'[m] = lane[m]
    BY <1>1, <1>6, <1>8
<1>10. OwnHand(l)'
    BY <1>1, <1>4, <1>5, <1>7, <1>9 DEF OwnHand
<1>11. Merging(l) /\ Tip(l)' = Tip(l)
    BY <1>1 DEF Built, Tip
<1>12. Merging(l)'
    <2>1. ASSUME NEW q \in Path, q \in now.todo \/ q \notin Listed(l) PROVE index.files[q] = Tip(l).files[q]
        <3>1. p \in Listed(l)
            BY <1>11, PublishAssumption DEF Merging
        <3>2. q # p /\ (q \in was.todo \/ q \notin Listed(l))
            BY <1>7, <2>1, <3>1
        <3> QED BY <1>4, <1>5, <1>11, <3>2 DEF Merging
    <2>2. ASSUME NEW q \in Listed(l) \ now.todo
          PROVE  \/ q \in TakenBy(l) \/ (q = ClosesFile /\ l \in Closing) \/ now.conflict
                 \/ Tip(l).files[q] \subseteq index.files[q] /\ l \in index.files[q]
        <3>1. CASE q = p
            BY <1>4, <1>5, <1>7, <3>1
        <3>2. CASE q # p
            <4>1. q \in Listed(l) \ was.todo /\ q \in Path
                BY <1>7, <3>2, LaneListed
            <4> QED BY <1>4, <1>5, <1>7, <1>11, <3>2, <4>1 DEF Merging
        <3> QED BY <3>1, <3>2
    <2>3. p # "pin"
        BY PublishAssumption
    <2>4. /\ "pin" \in now.todo => index.pin = Tip(l).pin /\ Pins[l] # 0
          /\ Tip(l).pin <= index.pin
          /\ "pin" \notin now.todo => now.conflict \/ Pins[l] <= index.pin
        BY <1>5, <1>7, <1>11, <2>3 DEF Merging
    <2> QED BY <1>7, <1>9, <1>11, <2>1, <2>2, <2>4 DEF Merging
<1>13. Built(l)'
    BY <1>1, <1>7, <1>9, <1>12 DEF Built, Early
<1> QED BY <1>9, <1>10, <1>13, LaneMoves

\* A path that is merged has the tip's text and the lane's.
LEMMA MergePathSteps == ASSUME PubIInv, NEW l \in Lane, MergePath(l) PROVE PubIInv'
<1>1. LaneAt(l, "merge") /\ UNCHANGED <<origin, track, landed>>
    BY DEF MergePath
<1>2. PICK p \in lane[l].todo \cap Path :
          IF Ours(l, p) = {} \/ (p = RowFile /\ l \in Closing) THEN RemoveFile(l, p) ELSE MergeFile(l, p)
    BY DEF MergePath
<1>3. Merging(l) /\ OwnHand(l)
    BY <1>1, LocalsTyped DEF LaneAt, Built
<1>4. p \in Listed(l) /\ lane[l].base = 1
    BY <1>2, <1>3, PublishAssumption DEF Merging
<1>5. CASE Ours(l, p) = {} \/ (p = RowFile /\ l \in Closing)
    <2>1. Stage(l, p, {}, FALSE)
        BY <1>2, <1>5 DEF RemoveFile
    <2>2. p \in TakenBy(l) \/ (p = ClosesFile /\ l \in Closing)
        BY <1>4, <1>5, OursEmpty
    <2> QED BY <1>1, <2>1, <2>2, StageKeeps
<1>6. CASE ~(Ours(l, p) = {} \/ (p = RowFile /\ l \in Closing))
    <2> DEFINE fork == origin[lane[l].base].files[p]
               theirs == Tip(l).files[p]
    <2>1. /\ p \in Edits[l] /\ Ours(l, p) = FirstTree.files[p] \cup {l} /\ l \notin FirstTree.files[p]
          /\ FirstTree.files[p] \subseteq {Text}
        BY <1>4, <1>6, OursIs
    <2>2. fork = FirstTree.files[p]
        BY <1>4 DEF PubIInv, PubTyped
    <2>3. theirs \subseteq landed \cup {Text}
        BY TipTyped DEF PubIInv, Authors
    <2>4. l \notin theirs
        <3>1. l \notin landed
            BY <1>1, LocalsTyped DEF LaneAt, Built, Early
        <3> QED BY <2>3, <3>1, LaneListed
    <2>5. MergeFile(l, p)
        BY <1>2, <1>6
    <2>6. lane[l].index.files[p] \subseteq landed \cup {Text, l}
        BY <1>3 DEF OwnHand
    <2>7. CASE Clash3(fork, Ours(l, p), theirs)
        <3>1. Stage(l, p, lane[l].index.files[p], TRUE)
            BY <2>5, <2>7 DEF MergeFile
        <3> QED BY <1>1, <2>6, <3>1, StageKeeps
    <2>8. CASE ~Clash3(fork, Ours(l, p), theirs)
        <3>1. ~(theirs = {} /\ fork # {})
            <4> SUFFICES ASSUME theirs = {}, fork # {} PROVE FALSE
                OBVIOUS
            <4>1. Ours(l, p) # theirs /\ Ours(l, p) # fork /\ theirs # fork /\ {} \in {fork, Ours(l, p), theirs}
                BY <2>1, <2>2
            <4> HIDE DEF fork, theirs
            <4> QED BY <2>8, <4>1 DEF Clash3
        <3>2. Stage(l, p, Merge3(fork, Ours(l, p), theirs), FALSE)
            BY <2>5, <2>8, <3>1 DEF MergeFile
        <3>3. Merge3(fork, Ours(l, p), theirs) = theirs \cup {l}
            BY <2>1, <2>2 DEF Merge3
        <3> DEFINE edits == theirs \cup {l}
        <3>4. edits \in SUBSET (landed \cup {Text, l}) /\ theirs \subseteq edits /\ l \in edits
            BY <2>3
        <3>5. Stage(l, p, edits, FALSE)
            BY <3>2, <3>3
        <3> HIDE DEF edits
        <3> QED BY <1>1, <3>4, <3>5, StageKeeps
    <2> QED BY <2>7, <2>8
<1> QED BY <1>5, <1>6

\* A pin that is merged is the greater of the two.
LEMMA MergePinSteps == ASSUME PubIInv, NEW l \in Lane, MergePin(l) PROVE PubIInv'
<1> DEFINE was == lane[l]
           unchanged == Pins[l] \in {origin[was.base].pin, was.index.pin}
           conflict == was.conflict \/ (~unchanged /\ PinConflicts(l))
           pin == IF unchanged \/ PinConflicts(l) THEN was.index.pin ELSE Pins[l]
           index == [was.index EXCEPT !.pin = pin]
           now == [was EXCEPT !.todo = was.todo \ {"pin"}, !.conflict = conflict, !.index = index]
<1>1. /\ was \in Locals /\ was.index \in Trees /\ was.todo \subseteq Path \cup {"pin"} /\ was.conflict \in BOOLEAN
      /\ OwnHand(l) /\ Built(l) /\ lane \in [Lane -> Locals] /\ was.at = "merge"
    BY LocalsTyped DEF LaneAt, MergePin
<1>2. UNCHANGED <<origin, track, landed>> /\ "pin" \in was.todo
    BY DEF MergePin
<1>3. pin \in Nat
    BY <1>1, LaneListed DEF Trees
<1>4. index \in Trees /\ index.files = was.index.files /\ index.pin = pin
    <2> HIDE DEF pin
    <2> QED BY <1>1, <1>3 DEF Trees
<1>5. conflict \in BOOLEAN
    BY <1>1 DEF PinConflicts
<1>6. now \in Locals
    <2> HIDE DEF index, conflict
    <2> QED BY <1>1, <1>4, <1>5 DEF Locals
<1>7. /\ now.at = was.at /\ now.base = was.base /\ now.index = index /\ now.todo = was.todo \ {"pin"}
      /\ now.conflict = conflict /\ now.commit = was.commit
    <2> HIDE DEF index, conflict
    <2> QED BY <1>1 DEF Locals
<1>8. lane' = [lane EXCEPT ![l] = now]
    BY <1>1 DEF MergePin, Locals, Trees
<1>9. Merging(l) /\ Tip(l)' = Tip(l)
    BY <1>1, <1>2 DEF Built, Tip
<1>10. /\ was.index.pin = Tip(l).pin /\ Tip(l).pin \in Nat /\ origin[was.base].pin = 1 /\ origin[1] = FirstTree
       /\ 1 <= Tip(l).pin /\ Pins[l] # 0
    <2>1. was.base = 1 /\ origin[1].pin = 1 /\ 1 \in 1..Len(origin)
        BY <1>9 DEF Merging, PubIInv, PubTyped, FirstTree
    <2>2. Tip(l) = origin[track[CloneOf[l]]] /\ track[CloneOf[l]] \in 1..Len(origin) /\ Tip(l) \in Trees
        BY TipTyped DEF PubIInv
    <2>3. origin[1].pin <= Tip(l).pin
        BY <2>1, <2>2 DEF PubIInv, PinsGrow
    <2> QED BY <1>2, <1>9, <2>1, <2>2, <2>3 DEF Merging, Trees, PubIInv, PubTyped
<1>11. Tip(l).pin <= pin /\ (conflict \/ Pins[l] <= pin)
    <2>1. Pins[l] \in Nat
        BY LaneListed
    <2>2. CASE unchanged
        BY <1>10, <2>1, <2>2
    <2>3. CASE ~unchanged /\ PinConflicts(l)
        BY <1>10, <2>3
    <2>4. CASE ~unchanged /\ ~PinConflicts(l)
        <3>1. pin = Pins[l] /\ ~(Tip(l).pin # 1 /\ Pins[l] < Tip(l).pin)
            BY <1>10, <2>4 DEF PinConflicts
        <3> QED BY <1>10, <2>1, <3>1
    <2> QED BY <2>2, <2>3, <2>4
<1> HIDE DEF now, index, conflict, pin
<1>12. lane' \in [Lane -> Locals] /\ lane'[l] = now /\ \A m \in Lane \ {l} : lane'[m] = lane[m]
    BY <1>1, <1>6, <1>8
<1>13. OwnHand(l)'
    BY <1>1, <1>2, <1>4, <1>7, <1>12 DEF OwnHand
<1>14. was.conflict => conflict
    BY <1>1 DEF conflict
<1>15. Merging(l)'
    <2>1. \A p \in Path : p \in now.todo \/ p \notin Listed(l) => p \in was.todo \/ p \notin Listed(l)
        BY <1>7
    <2>2. \A p \in Listed(l) \ now.todo : p \in Listed(l) \ was.todo
        BY <1>7, LaneListed, PublishAssumption
    <2>3. /\ now.base = 1 /\ now.todo \subseteq Listed(l) \cup {"pin"}
          /\ \A p \in Path : p \in now.todo \/ p \notin Listed(l) => index.files[p] = Tip(l).files[p]
        BY <1>4, <1>7, <1>9, <2>1 DEF Merging
    <2>4. \A p \in Listed(l) \ now.todo :
              \/ p \in TakenBy(l) \/ (p = ClosesFile /\ l \in Closing) \/ now.conflict
              \/ Tip(l).files[p] \subseteq index.files[p] /\ l \in index.files[p]
        BY <1>4, <1>7, <1>9, <1>14, <2>2 DEF Merging
    <2>5. "pin" \notin now.todo
        BY <1>7
    <2> QED BY <1>4, <1>7, <1>9, <1>11, <1>12, <2>3, <2>4, <2>5 DEF Merging
<1>16. Built(l)'
    BY <1>1, <1>2, <1>7, <1>12, <1>15 DEF Built, Early
<1> QED BY <1>2, <1>12, <1>13, <1>16, LaneMoves

\* When every path is merged, and the row taken away, the index keeps what the tip has.
LEMMA MergedSteps == ASSUME PubIInv, NEW l \in Lane, Merged(l) PROVE PubIInv'
<1> DEFINE was == lane[l]
           record == Tip(l).files[ClosesFile] \cup {l}
           files == IF l \in Closing THEN [was.index.files EXCEPT ![ClosesFile] = record] ELSE was.index.files
           index == [was.index EXCEPT !.files = files]
           stage == IF was.conflict THEN "refused" ELSE "commit"
           now == [was EXCEPT !.at = stage, !.index = index]
<1>1. /\ was \in Locals /\ was.index \in Trees /\ was.conflict \in BOOLEAN
      /\ OwnHand(l) /\ Built(l) /\ lane \in [Lane -> Locals] /\ was.at = "merge" /\ was.todo = {}
    BY LocalsTyped DEF LaneAt, Merged
<1>2. UNCHANGED <<origin, track, landed>> /\ Merging(l) /\ l \notin landed
    BY <1>1 DEF Merged, Built, Early
<1>3. Tip(l) \in Trees /\ \A p \in Path : Tip(l).files[p] \subseteq landed \cup {Text}
    BY TipTyped DEF PubIInv, Authors
<1>4. landed \subseteq Lane /\ ClosesFile \in Path
    BY PublishAssumption DEF PubIInv, PubTyped
<1>5. was.index.files \in [Path -> SUBSET (Lane \cup {Text})]
    BY <1>1 DEF Trees
<1>6. files \in [Path -> SUBSET (Lane \cup {Text})]
    <2>1. record \in SUBSET (Lane \cup {Text})
        BY <1>3, <1>4
    <2> HIDE DEF record
    <2> QED BY <1>5, <2>1
<1>7. /\ l \in Closing => files[ClosesFile] = record /\ \A p \in Path \ {ClosesFile} : files[p] = was.index.files[p]
      /\ l \notin Closing => files = was.index.files
    BY <1>4, <1>5
<1>8. index \in Trees /\ index.files = files /\ index.pin = was.index.pin
    <2> HIDE DEF files
    <2> QED BY <1>1, <1>6 DEF Trees
<1>9. stage \in Stages
    BY DEF Stages
<1>10. now \in Locals /\ now.at = stage /\ now.index = index /\ now.commit = was.commit
    <2> HIDE DEF index, stage
    <2> QED BY <1>1, <1>8, <1>9 DEF Locals
<1>11. CloseRecord(l) = index
    <2>1. CASE l \in Closing
        BY <1>1, <2>1 DEF CloseRecord, Trees
    <2>2. CASE l \notin Closing
        BY <1>1, <2>2 DEF CloseRecord, Trees
    <2> QED BY <2>1, <2>2
<1>12. lane' = [lane EXCEPT ![l] = now]
    <2>1. lane' = [lane EXCEPT ![l].at = stage, ![l].index = index]
        BY <1>11 DEF Merged
    <2> HIDE DEF index, stage
    <2> QED BY <1>1, <2>1 DEF Locals
<1> HIDE DEF now, index, files
<1>13. lane' \in [Lane -> Locals] /\ lane'[l] = now /\ \A m \in Lane \ {l} : lane'[m] = lane[m]
    BY <1>1, <1>10, <1>12
<1>14. \A p \in Path : files[p] \subseteq landed \cup {Text, l}
    BY <1>1, <1>3, <1>7 DEF OwnHand
<1>15. OwnHand(l)'
    BY <1>1, <1>2, <1>8, <1>10, <1>13, <1>14 DEF OwnHand
<1>16. ~was.conflict => Keeps(l, Tip(l), index)
    <2> SUFFICES ASSUME ~was.conflict PROVE Keeps(l, Tip(l), index)
        OBVIOUS
    <2>1. ASSUME NEW p \in Path \ TakenBy(l)
          PROVE  Tip(l).files[p] \subseteq files[p] /\ (p \in Edits[l] => l \in files[p])
        <3>1. CASE p = ClosesFile /\ l \in Closing
            BY <1>7, <3>1
        <3>2. CASE ~(p = ClosesFile /\ l \in Closing)
            <4>1. files[p] = was.index.files[p]
                BY <1>7, <3>2
            <4>2. CASE p \in Listed(l)
                BY <1>1, <1>2, <2>1, <3>2, <4>1, <4>2 DEF Merging
            <4>3. CASE p \notin Listed(l)
                BY <1>2, <2>1, <4>1, <4>3 DEF Merging, Listed
            <4> QED BY <4>2, <4>3
        <3> QED BY <3>1, <3>2
    <2>2. l \in Closing => l \in files[ClosesFile]
        BY <1>7
    <2>3. Tip(l).pin <= index.pin /\ Pins[l] <= index.pin
        BY <1>1, <1>2, <1>8 DEF Merging
    <2>4. Edits[l] \subseteq Path
        BY LaneListed
    <2> QED BY <1>8, <2>1, <2>2, <2>3, <2>4 DEF Keeps
<1>17. Built(l)'
    <2>1. Tip(l)' = Tip(l)
        BY <1>2 DEF Tip
    <2> QED BY <1>2, <1>10, <1>13, <1>16, <2>1 DEF Built, Early
<1> QED BY <1>2, <1>13, <1>15, <1>17, LaneMoves

\* The commit is made from the index, its parent is the tip it was merged with.
LEMMA CommitSteps == ASSUME PubIInv, NEW l \in Lane, CommitTree(l) PROVE PubIInv'
<1> DEFINE was == lane[l]
           stage == IF was.index = Tip(l) THEN "refused" ELSE "check"
           parent == track[CloneOf[l]]
           commit == [parent |-> parent, tree |-> was.index]
           now == [was EXCEPT !.at = stage, !.commit = commit]
<1>1. /\ was \in Locals /\ was.index \in Trees /\ OwnHand(l) /\ Built(l) /\ lane \in [Lane -> Locals] /\ was.at = "commit"
    BY LocalsTyped DEF LaneAt, CommitTree
<1>2. UNCHANGED <<origin, track, landed>> /\ Keeps(l, Tip(l), was.index) /\ l \notin landed
    BY <1>1 DEF CommitTree, Built, Early
<1>3. parent \in 1..Len(origin) /\ Tip(l) = origin[parent] /\ Len(origin) \in Nat
    BY TipTyped DEF PubIInv, PubTyped
<1>4. parent \in Nat /\ parent \in 1..parent
    BY <1>3
<1>5. stage \in Stages /\ stage \in {"refused", "check"} /\ commit \in [parent : Nat, tree : Trees]
    BY <1>1, <1>4 DEF Stages
<1>6. now \in Locals /\ now.at = stage /\ now.index = was.index /\ now.commit = commit
    <2> HIDE DEF stage, commit
    <2> QED BY <1>1, <1>5 DEF Locals
<1>7. lane' = [lane EXCEPT ![l] = now]
    BY <1>1 DEF CommitTree, Locals
<1> HIDE DEF now, stage
<1>8. lane' \in [Lane -> Locals] /\ lane'[l] = now /\ \A m \in Lane \ {l} : lane'[m] = lane[m]
    BY <1>1, <1>6, <1>7
<1>9. OwnHand(l)'
    <2>1. lane'[l].commit.parent <= Len(origin') /\ lane'[l].commit.tree = was.index /\ lane'[l].index = was.index
        BY <1>2, <1>3, <1>6, <1>8
    <2> QED BY <1>1, <1>2, <2>1 DEF OwnHand
<1>10. Committed(l)'
    <2>1. lane'[l].commit.parent = parent /\ lane'[l].commit.tree = was.index
        BY <1>6, <1>8
    <2> HIDE DEF parent
    <2>2. Keeps(l, origin[parent], was.index)
        BY <1>2, <1>3
    <2>3. parent = track'[CloneOf[l]]
        BY <1>2 DEF parent
    <2> QED BY <1>2, <1>4, <2>1, <2>2, <2>3 DEF Committed, Keeps
<1>11. Unlanded(l)'
    BY <1>2, <1>3, <1>6, <1>8, LaneListed DEF Unlanded, PubIInv, Authors
<1>12. Built(l)'
    BY <1>2, <1>5, <1>6, <1>8, <1>10, <1>11 DEF Built
<1> QED BY <1>2, <1>8, <1>9, <1>12, LaneMoves

\* A replay on the new tip keeps what that has, or stops.
LEMMA RebaseSteps == ASSUME PubIInv, NEW l \in Lane, Rebase(l) PROVE PubIInv'
<1> DEFINE me == lane[l]
           refuses == \/ ReplayConflicts(l)
                      \/ Unintended(l, Tip(l), Replayed(l))
                      \/ Replayed(l) = Tip(l)
           stage == IF refuses THEN "refused" ELSE "retry"
           parent == track[CloneOf[l]]
           tree == Replayed(l)
           commit == [parent |-> parent, tree |-> tree]
           now == [me EXCEPT !.at = stage, !.commit = commit]
           was == origin[me.commit.parent]
           made == me.commit.tree
<1>1. /\ me \in Locals /\ made \in Trees /\ OwnHand(l) /\ Built(l) /\ lane \in [Lane -> Locals] /\ me.at = "rebase"
    BY LocalsTyped DEF LaneAt, Rebase
<1>2. UNCHANGED <<origin, track, landed>> /\ Committed(l) /\ Unlanded(l)
    BY <1>1 DEF Rebase, Built
<1>3. parent \in 1..Len(origin) /\ Tip(l) = origin[parent] /\ Len(origin) \in Nat /\ Tip(l) \in Trees
    BY TipTyped DEF PubIInv, PubTyped
<1>4. parent \in Nat /\ parent \in 1..parent
    BY <1>3
<1>5. /\ me.commit.parent \in 1..Len(origin) /\ was \in Trees /\ me.commit.parent <= parent /\ was.pin <= Tip(l).pin
    <2>1. me.commit.parent \in 1..parent
        BY <1>2 DEF Committed
    <2>2. me.commit.parent \in 1..Len(origin) /\ me.commit.parent <= parent
        BY <1>3, <2>1
    <2>3. was \in Trees /\ was.pin <= Tip(l).pin
        BY <1>3, <2>2, TipTyped DEF PubIInv, PinsGrow
    <2> QED BY <2>2, <2>3
<1>6. /\ tree.files = [p \in Path |-> Merge3(was.files[p], made.files[p], Tip(l).files[p])]
      /\ tree.pin = IF made.pin = was.pin THEN Tip(l).pin ELSE made.pin
      /\ tree = [files |-> tree.files, pin |-> tree.pin]
    BY DEF Replayed
<1>7. \A p \in Path : Merge3(was.files[p], made.files[p], Tip(l).files[p]) \in SUBSET (Lane \cup {Text})
    BY <1>1, <1>3 DEF Merge3, Trees
<1>8. tree.files \in [Path -> SUBSET (Lane \cup {Text})] /\ tree.pin \in Nat
    BY <1>1, <1>3, <1>6, <1>7 DEF Trees
<1>9. tree \in Trees
    <2> HIDE DEF tree
    <2> QED BY <1>6, <1>8 DEF Trees
<1>10. stage \in Stages /\ stage \in {"refused", "retry"} /\ commit \in [parent : Nat, tree : Trees]
    BY <1>4, <1>9 DEF Stages
<1>11. now \in Locals /\ now.at = stage /\ now.index = me.index /\ now.commit = commit
    <2> HIDE DEF stage, commit
    <2> QED BY <1>1, <1>10 DEF Locals
<1>12. lane' = [lane EXCEPT ![l] = now]
    BY <1>1 DEF Rebase, Locals
<1>13. stage = "retry" => ~ReplayConflicts(l)
    OBVIOUS
<1> HIDE DEF now, stage, tree
<1>14. lane' \in [Lane -> Locals] /\ lane'[l] = now /\ \A m \in Lane \ {l} : lane'[m] = lane[m]
    BY <1>1, <1>11, <1>12
<1>15. \A p \in Path : tree.files[p] \subseteq landed \cup {Text, l}
    <2>1. \A p \in Path : Tip(l).files[p] \subseteq landed \cup {Text} /\ made.files[p] \subseteq landed \cup {Text, l}
        BY <1>1, <1>3 DEF PubIInv, Authors, OwnHand
    <2>2. ASSUME NEW p \in Path PROVE tree.files[p] \subseteq landed \cup {Text, l}
        <3>1. tree.files[p] = Merge3(was.files[p], made.files[p], Tip(l).files[p])
            BY <1>6
        <3>2. Merge3(was.files[p], made.files[p], Tip(l).files[p]) \subseteq made.files[p] \cup Tip(l).files[p]
            BY DEF Merge3
        <3> QED BY <2>1, <3>1, <3>2
    <2> QED BY <2>2
<1>16. OwnHand(l)'
    <2>1. lane'[l].commit.parent <= Len(origin') /\ lane'[l].commit.tree = tree /\ lane'[l].index = me.index
        BY <1>2, <1>3, <1>11, <1>14
    <2> QED BY <1>1, <1>2, <1>15, <2>1 DEF OwnHand
<1>17. stage = "retry" => Keeps(l, Tip(l), tree)
    <2> SUFFICES ASSUME stage = "retry" PROVE Keeps(l, Tip(l), tree)
        OBVIOUS
    <2>1. Keeps(l, was, made) /\ \A p \in Path : l \notin was.files[p]
        BY <1>2 DEF Committed, Unlanded
    <2>2. \A p \in Path \ TakenBy(l) : Tip(l).files[p] \subseteq tree.files[p]
        BY <1>6, <2>1 DEF Keeps, Merge3
    <2>3. Edits[l] \subseteq Path /\ ClosesFile \in Path /\ Pins[l] \in Nat
        BY LaneListed, PublishAssumption
    <2>4. \A p \in Edits[l] \ TakenBy(l) : l \in tree.files[p]
        BY <1>6, <2>1, <2>3 DEF Keeps, Merge3
    <2>5. l \in Closing => l \in tree.files[ClosesFile]
        BY <1>6, <2>1, <2>3 DEF Keeps, Merge3
    <2>6. Tip(l).pin <= tree.pin /\ Pins[l] <= tree.pin
        <3>1. was.pin \in Nat /\ made.pin \in Nat /\ Tip(l).pin \in Nat /\ was.pin <= made.pin /\ Pins[l] <= made.pin
            BY <1>1, <1>3, <1>5, <2>1 DEF Keeps, Trees
        <3>2. CASE made.pin = was.pin
            BY <1>5, <1>6, <2>3, <3>1, <3>2
        <3>3. CASE made.pin # was.pin
            <4>1. Cardinality({was.pin, made.pin, Tip(l).pin}) # 3
                BY <1>13 DEF ReplayConflicts
            <4>2. Tip(l).pin \in {was.pin, made.pin}
                <5> SUFFICES ASSUME Tip(l).pin \notin {was.pin, made.pin} PROVE FALSE
                    OBVIOUS
                <5> DEFINE x == was.pin y == made.pin z == Tip(l).pin
                <5>1. x # y /\ x # z /\ y # z
                    BY <3>3
                <5> HIDE DEF x, y, z
                <5>2. Cardinality({x, y, z}) = 3
                    BY <5>1, ThreeThings
                <5> QED BY <4>1, <5>2 DEF x, y, z
            <4> QED BY <1>6, <3>1, <3>3, <4>2
        <3> QED BY <3>2, <3>3
    <2> QED BY <2>2, <2>4, <2>5, <2>6 DEF Keeps
<1>18. Built(l)'
    <2>1. lane'[l].commit.parent = parent /\ lane'[l].commit.tree = tree
        BY <1>11, <1>14
    <2> HIDE DEF parent
    <2>2. stage = "retry" => Keeps(l, origin[parent], tree)
        BY <1>3, <1>17
    <2>3. parent = track'[CloneOf[l]]
        BY <1>2 DEF parent
    <2>4. stage = "retry" => Committed(l)'
        BY <1>2, <1>4, <2>1, <2>2, <2>3 DEF Committed, Keeps
    <2> QED BY <1>10, <1>11, <1>14, <2>4 DEF Built, Early
<1> QED BY <1>2, <1>14, <1>16, <1>18, LaneMoves

\* A commit that lands is the last of origin, which else stays.
LEMMA LandsLast ==
    ASSUME PubIInv, NEW l \in Lane, PushLands(l)
    PROVE  /\ lane[l].at \in {"push", "retry"} /\ landed' = landed \cup {l} /\ Committed(l) /\ lane[l].commit.parent = Len(origin)
           /\ origin' \in Seq(Trees) /\ Len(origin') = Len(origin) + 1 /\ Len(origin) \in Nat \ {0}
           /\ \A i \in 1..Len(origin) : origin'[i] = origin[i]
           /\ origin'[Len(origin) + 1] = lane[l].commit.tree
           /\ 1..Len(origin') = 1..Len(origin) \cup {Len(origin) + 1}
           /\ origin[Len(origin)] \in Trees /\ lane[l].commit.tree \in Trees
<1>1. origin \in Seq(Trees) /\ Len(origin) \in Nat \ {0} /\ lane[l].commit.tree \in Trees /\ Built(l)
    BY LocalsTyped DEF PubIInv, PubTyped
<1>2. lane[l].at \in {"push", "retry"} /\ lane[l].commit.parent = Len(origin) /\ landed' = landed \cup {l}
    BY DEF PushLands, Accepts
<1>3. SubSeq(origin, 1, Len(origin)) = origin
    BY <1>1
<1>4. origin' = Append(origin, lane[l].commit.tree)
    BY <1>2, <1>3 DEF PushLands
<1>5. Committed(l)
    BY <1>1, <1>2 DEF Built
<1> QED BY <1>1, <1>2, <1>4, <1>5

\* What a push lands follows the last commit of origin/main, and keeps it.
LEMMA PushSteps == ASSUME PubIInv, OwnClones, NEW l \in Lane, PushLands(l) PROVE PubIInv'
<1> DEFINE n == Len(origin)
           made == lane[l].commit.tree
<1>1. /\ lane[l].at \in {"push", "retry"} /\ landed' = landed \cup {l} /\ Committed(l) /\ lane[l].commit.parent = n
      /\ origin' \in Seq(Trees) /\ Len(origin') = n + 1 /\ n \in Nat \ {0}
      /\ \A i \in 1..n : origin'[i] = origin[i]
      /\ origin'[n + 1] = made /\ 1..Len(origin') = 1..n \cup {n + 1}
      /\ origin[n] \in Trees /\ made \in Trees
    BY LandsLast
<1>2. Keeps(l, origin[n], made)
    BY <1>1 DEF Committed
<1> HIDE DEF n, made
<1>3. PICK stage \in {"verify", "refetch", "refused"} :
          /\ LaneGoes(l, stage)
          /\ track' = track \/ (track' = [track EXCEPT ![CloneOf[l]] = n + 1] /\ stage = "verify")
          /\ stage = "refetch" => lane[l].at = "push" /\ track' = track
    BY <1>1 DEF PushLands, LaneAt
<1>4. /\ lane' \in [Lane -> Locals] /\ \A m \in Lane \ {l} : lane'[m] = lane[m]
      /\ lane'[l].at = stage /\ lane'[l].index = lane[l].index /\ lane'[l].commit = lane[l].commit
    BY <1>3, LaneGoesOn DEF Stages
<1>5. PubTyped'
    <2>1. track' \in [Clone -> 1..(n + 1)]
        <3>1. track \in [Clone -> 1..n]
            BY DEF PubIInv, PubTyped, n
        <3>2. 1..n \subseteq 1..(n + 1) /\ n + 1 \in 1..(n + 1)
            BY <1>1
        <3> QED BY <1>3, <3>1, <3>2
    <2>2. origin'[1] = FirstTree
        BY <1>1 DEF PubIInv, PubTyped
    <2>3. landed' \subseteq Lane
        BY <1>1 DEF PubIInv, PubTyped
    <2> QED BY <1>1, <1>4, <2>1, <2>2, <2>3 DEF PubTyped
<1>6. PinsGrow'
    <2>1. \A i \in 1..n : origin[i].pin \in Nat
        BY TipTyped DEF PubIInv, Trees, n
    <2>2. made.pin \in Nat /\ n \in 1..n
        BY <1>1 DEF Trees
    <2>3. \A i \in 1..n : origin[i].pin <= made.pin
        <3>1. ASSUME NEW i \in 1..n PROVE origin[i].pin <= made.pin
            <4>1. origin[i].pin <= origin[n].pin /\ origin[n].pin <= made.pin
                BY <1>1, <1>2, <2>2 DEF PubIInv, PinsGrow, Keeps, n
            <4> QED BY <2>1, <2>2, <4>1
        <3> QED BY <3>1
    <2>4. ASSUME NEW i \in 1..Len(origin'), NEW j \in 1..Len(origin'), i <= j PROVE origin'[i].pin <= origin'[j].pin
        <3>1. CASE j \in 1..n
            <4>1. i \in 1..n
                BY <1>1, <2>4, <3>1
            <4> QED BY <1>1, <2>4, <3>1, <4>1 DEF PubIInv, PinsGrow, n
        <3>2. CASE j = n + 1
            <4>1. CASE i \in 1..n
                BY <1>1, <2>3, <3>2, <4>1
            <4>2. CASE i = n + 1
                BY <1>1, <2>2, <3>2, <4>2
            <4> QED BY <1>1, <4>1, <4>2
        <3> QED BY <1>1, <3>1, <3>2
    <2> QED BY <2>4 DEF PinsGrow
<1>7. Authors'
    <2>1. ASSUME NEW i \in 1..Len(origin'), NEW p \in Path PROVE origin'[i].files[p] \subseteq landed' \cup {Text}
        <3>1. CASE i \in 1..n
            BY <1>1, <3>1 DEF PubIInv, Authors, n
        <3>2. CASE i = n + 1
            BY <1>1, <3>2, LocalsTyped DEF OwnHand, made
        <3> QED BY <1>1, <3>1, <3>2
    <2> QED BY <2>1 DEF Authors
<1>8. ASSUME NEW m \in Lane PROVE OwnHand(m)' /\ Built(m)'
    <2>1. OwnHand(m) /\ Built(m)
        BY LocalsTyped
    <2>2. lane'[m].index = lane[m].index /\ lane'[m].commit = lane[m].commit
        BY <1>4
    <2>3. OwnHand(m)'
        <3>1. lane'[m].commit.parent <= Len(origin')
            <4>1. lane[m].commit.parent <= n /\ lane[m].commit.parent \in Nat
                BY <2>1, LocalsTyped DEF OwnHand, n
            <4> QED BY <1>1, <2>2, <4>1
        <3> QED BY <1>1, <2>1, <2>2, <3>1 DEF OwnHand
    <2>4. lane[m].commit.parent \in 1..track[CloneOf[m]] => lane[m].commit.parent \in 1..n
        BY <1>1, TipTyped DEF PubIInv, n
    <2>5. CASE m # l
        <3>1. lane'[m] = lane[m] /\ (m \in landed' <=> m \in landed)
            BY <1>1, <1>4, <2>5
        <3>2. track'[CloneOf[m]] = track[CloneOf[m]] /\ track[CloneOf[m]] \in 1..n
            BY <1>3, <2>5, TipTyped DEF OwnClones, Clone, PubIInv, PubTyped, n
        <3>3. Tip(m)' = Tip(m)
            BY <1>1, <3>2 DEF Tip
        <3>4. Committed(m) => Committed(m)'
            BY <1>1, <2>4, <3>1, <3>2 DEF Committed, Keeps
        <3>5. Committed(m) /\ Unlanded(m) => Unlanded(m)'
            BY <1>1, <2>4, <3>1 DEF Unlanded, Committed
        <3>6. Merging(m) => Merging(m)'
            BY <3>1, <3>3 DEF Merging
        <3>7. Keeps(m, Tip(m), lane[m].index) => Keeps(m, Tip(m), lane[m].index)'
            BY <3>1, <3>3 DEF Keeps
        <3> QED BY <2>1, <2>3, <3>1, <3>4, <3>5, <3>6, <3>7 DEF Built
    <2>6. CASE m = l
        <3>1. stage = "refetch" => Committed(l)' /\ Unlanded(l)'
            <4> SUFFICES ASSUME stage = "refetch" PROVE Committed(l)' /\ Unlanded(l)'
                OBVIOUS
            <4>1. track' = track /\ lane[l].at = "push" /\ lane[l].commit.parent \in 1..n
                BY <1>1, <1>3
            <4>2. origin'[lane[l].commit.parent] = origin[lane[l].commit.parent] /\ Unlanded(l)
                BY <1>1, <2>1, <2>6, <4>1 DEF Built
            <4> QED BY <1>1, <1>4, <4>1, <4>2 DEF Committed, Unlanded, Keeps
        <3> QED BY <1>4, <2>3, <2>6, <3>1 DEF Built, Early
    <2> QED BY <2>5, <2>6
<1>9. LandedStays'
    <2>1. ASSUME NEW m \in landed'
          PROVE  /\ \A p \in Edits[m] : m \in made.files[p] \/ \E k \in landed' : p \in TakenBy(k)
                 /\ m \in Closing => m \in made.files[ClosesFile] \/ \E k \in landed' : ClosesFile \in TakenBy(k)
                 /\ Pins[m] <= made.pin
        <3>1. CASE m = l
            BY <1>1, <1>2, <3>1 DEF Keeps
        <3>2. CASE m # l
            <4>1. m \in landed /\ m \in Lane
                BY <1>1, <2>1, <3>2 DEF PubIInv, PubTyped
            <4>2. /\ \A p \in Edits[m] : m \in origin[n].files[p] \/ \E k \in landed : p \in TakenBy(k)
                  /\ m \in Closing => m \in origin[n].files[ClosesFile] \/ \E k \in landed : ClosesFile \in TakenBy(k)
                  /\ Pins[m] <= origin[n].pin
                BY <4>1 DEF PubIInv, LandedStays, TakenBy, n
            <4>3. \A p \in Path : origin[n].files[p] \subseteq made.files[p] \/ p \in TakenBy(l)
                BY <1>2 DEF Keeps
            <4>4. Edits[m] \subseteq Path /\ ClosesFile \in Path
                BY <4>1, LaneListed, PublishAssumption
            <4>5. Pins[m] \in Nat /\ origin[n].pin \in Nat /\ made.pin \in Nat /\ origin[n].pin <= made.pin
                BY <1>1, <1>2, <4>1, LaneListed DEF Keeps, Trees
            <4> QED BY <1>1, <4>2, <4>3, <4>4, <4>5
        <3> QED BY <3>1, <3>2
    <2>2. origin'[Len(origin')] = made
        BY <1>1
    <2> QED BY <2>1, <2>2 DEF LandedStays, TakenBy
<1> QED BY <1>5, <1>6, <1>7, <1>8, <1>9 DEF PubIInv

\* Every step keeps the invariant.
LEMMA PubSteps == OwnClones /\ PubIInv /\ [PubNext]_pubVars => PubIInv'
<1> SUFFICES ASSUME OwnClones, PubIInv, [PubNext]_pubVars PROVE PubIInv'
    OBVIOUS
<1>1. CASE UNCHANGED pubVars
    <2>1. \A l \in Lane : (OwnHand(l) /\ Built(l))'
        BY <1>1 DEF pubVars, PubIInv, OwnHand, Built, Merging, Committed, Unlanded, Tip
    <2> QED BY <1>1, <2>1 DEF pubVars, PubIInv, PubTyped, PinsGrow, Authors, LandedStays
<1>2. ASSUME NEW l \in Lane, PubStep(l) PROVE PubIInv'
    BY <1>2, CallSteps, FetchSteps, ReadSteps, MergePathSteps, MergePinSteps, MergedSteps, CommitSteps, RebaseSteps, PushSteps
       DEF PubStep
<1> QED BY <1>1, <1>2 DEF PubNext

\* The safety properties of the lanes follow.
LEMMA PubSafe == PubIInv => PublishInv
<1> SUFFICES ASSUME PubIInv PROVE PublishInv
    OBVIOUS
<1>1. ASSUME NEW l \in Lane
      PROVE  lane[l] \in [at : Stages, base : 0..Len(origin), index : Trees, todo : SUBSET (Path \cup {"pin"}),
                          conflict : BOOLEAN, commit : [parent : 0..Len(origin), tree : Trees]]
    <2>1. lane[l] \in Locals /\ OwnHand(l) /\ lane[l].commit.parent \in Nat /\ Len(origin) \in Nat \ {0}
        BY LocalsTyped DEF PubIInv, PubTyped
    <2>2. lane[l].commit.parent \in 0..Len(origin) /\ {0, 1} \subseteq 0..Len(origin)
        BY <2>1 DEF OwnHand
    <2> QED BY <2>1, <2>2 DEF Locals
<1>2. PubTypeOK
    BY <1>1 DEF PubIInv, PubTyped, PubTypeOK, Stages
<1> QED BY <1>2 DEF PubIInv, PublishInv

(* "publish_on_origin never clobbers newer origin text", and a pin only moves *)
(* forward, for any number of lanes, files and tries (publishLane) - when     *)
(* each lane works in a clone of its own. In one clone a fetch of one lane    *)
(* moves the tip under the other between its two looks at it.                 *)
THEOREM LandedIsKept == OwnClones /\ PubSpec => []PublishInv
<1> SUFFICES ASSUME OwnClones PROVE PubSpec => []PublishInv
    OBVIOUS
<1>1. PubIInv /\ [PubNext]_pubVars => PubIInv'
    BY PubSteps
<1> QED BY <1>1, PubStarts, PubSafe, PTL DEF PubSpec

-----------------------------------------------------------------------------
(* Housekeep: what goes to an archive before it is removed.                  *)

HkStages == {"off", "lock", "reclaim", "due", "scan", "lanes", "out", "archive", "tar", "list",
             "exists", "rename", "remove", "rest"}
Passes == [at : HkStages, tries : {0, 1}, plan : SUBSET Item, item : SUBSET Item, expected : SUBSET Parts,
           made : SUBSET Parts, name : Names \cup {<<>>}, seen : SUBSET (Item \X Parts)]
HkTyped ==
    /\ disk \in [Item -> SUBSET Parts] /\ aged \subseteq Item /\ busy \subseteq Item
    /\ archive \in [Names -> SUBSET (Item \X Parts)]
    /\ stamp \in {"none", "fresh", "aged"} /\ hkLock \in {"free", "held", "stale"}
    /\ pass \in [HkProc -> Passes] /\ replaced \subseteq Item /\ usurped \in BOOLEAN

\* An archive holds the whole of one item.
WholeIn(i, n) == archive[n] = {i} \X Parts
NameOf(i, n) == n = <<BaseOf[i], 0>> \/ (ClassOf[i] = "bak" /\ n = <<BaseOf[i], 1>>)
ArchivesWhole == \A n \in Names : archive[n] # {} => \E i \in Archived : NameOf(i, n) /\ WholeIn(i, n)

\* An item has been saved under a name: whatever replaced its archive has the name now.
Saved(i, n) == archive[n] # {} /\ (WholeIn(i, n) \/ i \in replaced)

\* What is not whole on disk was saved; a backup is one file.
GoneIsArchived ==
    \A i \in Archived :
        /\ disk[i] # Parts => \E n \in Names : NameOf(i, n) /\ Saved(i, n)
        /\ ClassOf[i] = "bak" => disk[i] \in {Parts, {}}

\* How far a pass is with the item it archives.
Archiving(p) ==
    pass[p].at \in {"tar", "list", "exists", "rename", "remove"} =>
        \E i \in Archived :
            /\ pass[p].item = {i} /\ pass[p].name \in Names /\ NameOf(i, pass[p].name) /\ pass[p].expected # {}
            /\ pass[p].at \in {"list", "exists"} => disk[i] \subseteq pass[p].made
            /\ pass[p].at \in {"list", "exists"} /\ ClassOf[i] = "bak" => pass[p].made \in {Parts, {}}
            /\ pass[p].at = "exists" => pass[p].expected \subseteq pass[p].made
            /\ pass[p].at = "rename" => pass[p].made = Parts /\ pass[p].seen = {}
            /\ pass[p].at = "remove" => Saved(i, pass[p].name)

\* A server that began its pass today, or is to begin it.
Works(p) == pass[p].at \in {"lanes", "out", "archive", "tar", "list", "exists", "rename", "remove", "rest"}
Nears(p) == pass[p].at \in {"due", "scan"}
OneDay ==
    /\ begun \in {0, 1} /\ (begun = 1 => stamp = "fresh")
    /\ \A p \in Server : Works(p) => begun = 1
    /\ \A p \in Server : PassAt(p, "scan") => begun = 0
    /\ begun = 0 => \A p \in Server : Nears(p) => hkLock = "held"
    /\ begun = 0 => \A p, q \in Server : Nears(p) /\ Nears(q) => p = q
AtLocks == \A p \in HkProc : pass[p].at \in {"lock", "reclaim", "due"} => p \in Server
DayInv == AtLocks /\ (~usurped => OneDay)

KeptInv == ArchivesWhole /\ GoneIsArchived /\ \A p \in HkProc : Archiving(p)
HkIInv == HkTyped /\ DayInv /\ KeptInv

\* No pass at first, and every item whole.
LEMMA HkStarts == HkInit => HkIInv
<1> SUFFICES ASSUME HkInit PROVE HkIInv
    OBVIOUS
<1>1. NoPass \in Passes /\ NoPass.at = "off"
    BY DEF NoPass, Passes, HkStages
<1>2. HkTyped
    BY <1>1 DEF HkInit, HkTyped
<1>3. DayInv
    BY <1>1 DEF HkInit, DayInv, OneDay, AtLocks, Works, Nears, PassAt, HkProc
<1>4. KeptInv
    BY <1>1 DEF HkInit, KeptInv, ArchivesWhole, GoneIsArchived, Archiving, Archived
<1> QED BY <1>2, <1>3, <1>4 DEF HkIInv

\* A pass that only goes on to another stage, and one that ends.
LEMMA PassGoesOn ==
    ASSUME HkTyped, NEW p \in HkProc, NEW stage \in HkStages, PassGoes(p, stage)
    PROVE  /\ pass' \in [HkProc -> Passes] /\ pass[p] \in Passes /\ \A q \in HkProc \ {p} : pass'[q] = pass[q]
           /\ pass'[p].at = stage /\ pass'[p].plan = pass[p].plan /\ pass'[p].item = pass[p].item
           /\ pass'[p].expected = pass[p].expected /\ pass'[p].made = pass[p].made /\ pass'[p].name = pass[p].name
           /\ pass'[p].seen = pass[p].seen
<1>1. pass \in [HkProc -> Passes] /\ pass[p] \in Passes
    BY DEF HkTyped
<1>2. [pass[p] EXCEPT !.at = stage] \in Passes
    BY <1>1 DEF Passes
<1> QED BY <1>1, <1>2 DEF PassGoes, Passes

\* A pass that ends leaves what it did.
LEMMA PassEndsOff ==
    ASSUME HkTyped, NEW p \in HkProc, PassEnds(p)
    PROVE  /\ pass' \in [HkProc -> Passes] /\ pass'[p] = NoPass /\ NoPass.at = "off"
           /\ \A q \in HkProc \ {p} : pass'[q] = pass[q]
<1>1. NoPass \in Passes /\ NoPass.at = "off"
    BY DEF NoPass, Passes, HkStages
<1> QED BY <1>1 DEF PassEnds, HkTyped

\* One pass moves, and no more does.
OnePassMoves(p) == pass' \in [HkProc -> Passes] /\ \A q \in HkProc \ {p} : pass'[q] = pass[q]

\* A pass at work works on, or ends: the day is as it was.
LEMMA DayStays ==
    ASSUME DayInv, NEW p \in HkProc, OnePassMoves(p), UNCHANGED <<stamp, hkLock, begun, usurped>>,
           pass'[p].at = "off" \/ (p \in Server /\ pass'[p].at \in {"lock", "reclaim"}) \/ (Works(p) /\ Works(p)')
    PROVE  DayInv'
<1>1. AtLocks'
    BY DEF DayInv, AtLocks, OnePassMoves, Works, HkProc
<1>2. OneDay => OneDay'
    BY DEF OneDay, OnePassMoves, Works, Nears, PassAt, HkProc
<1> QED BY <1>1, <1>2 DEF DayInv

\* A pass takes the lock and looks at the day before its work begins.
LEMMA LockSteps ==
    ASSUME HkTyped, DayInv, NEW p \in HkProc,
           HkStart(p) \/ TakeLock(p) \/ LockExists(p) \/ ReclaimLock(p) \/ Rescan(p) \/ NotDue(p) \/ HkVerb(p) \/ HkCrash(p)
    PROVE  HkTyped' /\ DayInv' /\ UNCHANGED <<disk, archive, replaced>> /\ OnePassMoves(p)
           /\ pass'[p].at \in {"off", "lock", "reclaim", "due", "scan"}
<1>0. pass \in [HkProc -> Passes] /\ pass[p] \in Passes /\ Server \subseteq HkProc
    BY DEF HkTyped, HkProc
<1>1. CASE HkStart(p)
    <2>1. OnePassMoves(p) /\ pass'[p].at = "lock" /\ p \in Server
        BY <1>1, PassGoesOn DEF HkStart, OnePassMoves, HkStages
    <2>2. DayInv'
        BY <1>1, <2>1, DayStays DEF HkStart, hkHistory
    <2> QED BY <1>1, <2>1, <2>2 DEF HkStart, HkTyped, OnePassMoves, hkHistory
<1>2. CASE TakeLock(p)
    <2> DEFINE now == [pass[p] EXCEPT !.at = "due", !.tries = 0]
    <2>0. now \in Passes /\ now.at = "due"
        BY <1>0 DEF Passes, HkStages
    <2>a. pass' = [pass EXCEPT ![p] = now]
        BY <1>0, <1>2 DEF TakeLock, Passes
    <2> HIDE DEF now
    <2>1. /\ OnePassMoves(p) /\ pass'[p].at = "due" /\ pass[p].at = "lock" /\ hkLock = "free" /\ hkLock' = "held"
          /\ UNCHANGED <<stamp, begun, usurped>>
        BY <1>0, <1>2, <2>0, <2>a DEF TakeLock, OnePassMoves, PassAt, hkHistory
    <2>2. OneDay => OneDay'
        BY <1>0, <2>1 DEF OneDay, OnePassMoves, Works, Nears, PassAt
    <2>3. AtLocks'
        BY <2>1 DEF DayInv, AtLocks, OnePassMoves
    <2> QED BY <1>2, <2>1, <2>2, <2>3 DEF TakeLock, HkTyped, OnePassMoves, DayInv, hkHistory
<1>3. CASE LockExists(p)
    <2>1. OnePassMoves(p) /\ pass'[p].at \in {"off", "reclaim"} /\ p \in Server
        BY <1>3, PassEndsOff, PassGoesOn DEF LockExists, OnePassMoves, HkStages, DayInv, AtLocks, PassAt
    <2>2. DayInv'
        BY <1>3, <2>1, DayStays DEF LockExists, hkHistory
    <2> QED BY <1>3, <2>1, <2>2 DEF LockExists, HkTyped, OnePassMoves, hkHistory
<1>4. CASE ReclaimLock(p)
    <2>1. /\ pass[p].at = "reclaim" /\ hkLock' = "free" /\ usurped' = (usurped \/ hkLock = "held")
          /\ UNCHANGED <<disk, aged, busy, archive, stamp, begun, replaced>> /\ p \in Server
        BY <1>4 DEF ReclaimLock, PassAt, DayInv, AtLocks
    <2>2. OnePassMoves(p) /\ pass'[p].at \in {"off", "lock"}
        <3>1. CASE pass[p].tries = 0
            <4> DEFINE now == [pass[p] EXCEPT !.at = "lock", !.tries = 1]
            <4>1. now \in Passes /\ now.at = "lock"
                BY <1>0 DEF Passes, HkStages
            <4>2. pass' = [pass EXCEPT ![p] = now]
                BY <1>0, <1>4, <3>1 DEF ReclaimLock, Passes
            <4> HIDE DEF now
            <4> QED BY <1>0, <4>1, <4>2 DEF OnePassMoves
        <3>2. CASE pass[p].tries # 0
            BY <1>4, <3>2, PassEndsOff DEF ReclaimLock, OnePassMoves
        <3> QED BY <3>1, <3>2
    <2>3. OneDay /\ hkLock # "held" => OneDay'
        BY <1>0, <2>1, <2>2 DEF OneDay, OnePassMoves, Works, Nears, PassAt
    <2>4. usurped' \in BOOLEAN /\ (~usurped' => ~usurped /\ hkLock # "held")
        BY <2>1
    <2>5. AtLocks'
        BY <2>1, <2>2 DEF DayInv, AtLocks, OnePassMoves
    <2>6. DayInv'
        BY <2>3, <2>4, <2>5 DEF DayInv
    <2> QED BY <2>1, <2>2, <2>4, <2>6 DEF HkTyped, OnePassMoves
<1>5. CASE Rescan(p)
    <2>1. /\ OnePassMoves(p) /\ pass'[p].at = "scan" /\ pass[p].at = "due" /\ stamp # "fresh"
          /\ UNCHANGED <<stamp, hkLock, begun, usurped>>
        BY <1>5, PassGoesOn DEF Rescan, StillDue, Due, OnePassMoves, HkStages, PassAt, hkHistory
    <2>2. OneDay => OneDay'
        BY <1>0, <2>1 DEF OneDay, OnePassMoves, Works, Nears, PassAt
    <2>3. AtLocks'
        BY <2>1 DEF DayInv, AtLocks, OnePassMoves
    <2> QED BY <1>5, <2>1, <2>2, <2>3 DEF Rescan, HkTyped, OnePassMoves, DayInv, hkHistory
<1>6. CASE NotDue(p)
    <2>1. OnePassMoves(p) /\ pass'[p].at = "off" /\ pass[p].at = "due" /\ hkLock' = "free" /\ UNCHANGED <<stamp, begun, usurped>>
        BY <1>6, PassEndsOff DEF NotDue, OnePassMoves, PassAt, hkHistory
    <2>2. p \in Server
        BY <2>1 DEF DayInv, AtLocks
    <2>3. OneDay => OneDay'
        BY <1>0, <2>1, <2>2 DEF OneDay, OnePassMoves, Works, Nears, PassAt
    <2>4. AtLocks'
        BY <2>1 DEF DayInv, AtLocks, OnePassMoves
    <2> QED BY <1>6, <2>1, <2>3, <2>4 DEF NotDue, HkTyped, OnePassMoves, DayInv, hkHistory
<1>7. CASE HkVerb(p)
    <2>1. OnePassMoves(p) /\ pass'[p].at = "scan" /\ p \notin Server /\ UNCHANGED <<stamp, hkLock, begun, usurped>>
        BY <1>7, PassGoesOn, PassesApart DEF HkVerb, OnePassMoves, HkStages, PassesApart, hkHistory
    <2>2. OneDay => OneDay'
        BY <1>0, <2>1 DEF OneDay, OnePassMoves, Works, Nears, PassAt
    <2>3. AtLocks'
        BY <2>1 DEF DayInv, AtLocks, OnePassMoves
    <2> QED BY <1>7, <2>1, <2>2, <2>3 DEF HkVerb, HkTyped, OnePassMoves, DayInv, hkHistory
<1>8. CASE HkCrash(p)
    <2>1. OnePassMoves(p) /\ pass'[p].at = "off"
        BY <1>8, PassEndsOff DEF HkCrash, OnePassMoves
    <2>2. DayInv'
        BY <1>8, <2>1, DayStays DEF HkCrash, hkHistory
    <2> QED BY <1>8, <2>1, <2>2 DEF HkCrash, HkTyped, OnePassMoves, hkHistory
<1> QED BY <1>1, <1>2, <1>3, <1>4, <1>5, <1>6, <1>7, <1>8

\* The pass begins: the plan is made, and the stamp is set.
LEMMA BeginSteps ==
    ASSUME HkTyped, DayInv, NEW p \in HkProc, BeginPass(p)
    PROVE  HkTyped' /\ DayInv' /\ UNCHANGED <<disk, archive, replaced>> /\ OnePassMoves(p) /\ pass'[p].at \in {"off", "lanes"}
<1>0. pass \in [HkProc -> Passes] /\ Server \subseteq HkProc /\ pass[p].at = "scan" /\ UNCHANGED <<disk, aged, busy, archive>>
    BY DEF HkTyped, HkProc, BeginPass, PassAt
<1>1. CASE Prunable = {}
    <2>1. PassEnds(p) /\ Unlocks(p) /\ UNCHANGED <<stamp, begun, usurped, replaced>>
        BY <1>1 DEF BeginPass, hkHistory
    <2>2. OnePassMoves(p) /\ pass'[p].at = "off" /\ (p \in Server => hkLock' = "free") /\ (p \notin Server => hkLock' = hkLock)
        BY <2>1, PassEndsOff DEF OnePassMoves, Unlocks
    <2>3. OneDay => OneDay'
        BY <1>0, <2>1, <2>2 DEF OneDay, OnePassMoves, Works, Nears, PassAt
    <2>4. AtLocks'
        BY <2>2 DEF DayInv, AtLocks, OnePassMoves
    <2> QED BY <1>0, <2>1, <2>2, <2>3, <2>4 DEF HkTyped, OnePassMoves, DayInv
<1>2. CASE Prunable # {}
    <2> DEFINE now == [NoPass EXCEPT !.at = "lanes", !.plan = Prunable]
    <2>1. /\ pass' = [pass EXCEPT ![p] = now] /\ stamp' = "fresh" /\ UNCHANGED <<hkLock, usurped, replaced>>
          /\ begun' = IF p \in Server THEN begun + 1 ELSE begun
        BY <1>2 DEF BeginPass
    <2>2. Prunable \subseteq Item
        BY DEF Prunable, HkTyped
    <2>3. now \in Passes /\ now.at = "lanes"
        <3> HIDE DEF Prunable
        <3> QED BY <2>2 DEF Passes, NoPass, HkStages
    <2> HIDE DEF now
    <2>4. OnePassMoves(p) /\ pass'[p].at = "lanes"
        BY <1>0, <2>1, <2>3 DEF OnePassMoves
    <2>5. OneDay => begun' \in {0, 1} /\ (p \in Server => begun' = 1) /\ (p \notin Server => begun' = begun)
        BY <1>0, <2>1 DEF OneDay, PassAt
    <2>6. OneDay => OneDay'
        BY <1>0, <2>1, <2>4, <2>5 DEF OneDay, OnePassMoves, Works, Nears, PassAt
    <2>7. AtLocks'
        BY <2>4 DEF DayInv, AtLocks, OnePassMoves
    <2> QED BY <1>0, <2>1, <2>4, <2>6, <2>7 DEF HkTyped, OnePassMoves, DayInv
<1> QED BY <1>1, <1>2

\* What is removed leaves the rest of the disk as it was.
LEMMA WithoutIs ==
    ASSUME HkTyped, NEW items, disk' = Without(items)
    PROVE  /\ disk' \in [Item -> SUBSET Parts] /\ \A i \in Item \ items : disk'[i] = disk[i]
           /\ \A i \in Item : disk'[i] \in {disk[i], {}}
BY DEF Without, HkTyped

\* What is pruned is no backup and no shelf.
LEMMA PruneSteps ==
    ASSUME HkTyped, DayInv, NEW p \in HkProc, PruneLanes(p) \/ PruneOut(p) \/ PruneRest(p)
    PROVE  HkTyped' /\ DayInv' /\ UNCHANGED <<archive, replaced>> /\ OnePassMoves(p) /\ pass'[p].at \in {"off", "out", "archive"}
           /\ \A i \in Archived : disk'[i] = disk[i]
<1>0. pass \in [HkProc -> Passes] /\ Server \subseteq HkProc /\ UNCHANGED <<archive, aged, busy, begun, usurped, replaced>> /\ Works(p)
    BY DEF HkTyped, HkProc, PruneLanes, PruneOut, PruneRest, PassAt, Works, hkHistory
<1>1. disk' \in [Item -> SUBSET Parts] /\ \A i \in Archived : disk'[i] = disk[i]
    <2>1. PICK items : disk' = Without(items) /\ \A i \in items : ClassOf[i] \in {"lane", "out", "target", "log"}
        BY DEF PruneLanes, PruneOut, PruneRest, OfClass
    <2>2. \A i \in Archived : i \in Item \ items
        BY <2>1 DEF Archived
    <2> QED BY <2>1, <2>2, WithoutIs
<1>2. CASE PruneLanes(p)
    <2>1. OnePassMoves(p) /\ pass'[p].at = "out" /\ UNCHANGED <<stamp, hkLock, begun>>
        BY <1>2, PassGoesOn DEF PruneLanes, OnePassMoves, HkStages, hkHistory
    <2>2. DayInv'
        BY <1>0, <2>1, DayStays DEF Works
    <2> QED BY <1>0, <1>1, <2>1, <2>2 DEF HkTyped, OnePassMoves
<1>3. CASE PruneOut(p)
    <2>1. OnePassMoves(p) /\ pass'[p].at = "archive" /\ UNCHANGED <<stamp, hkLock, begun>>
        BY <1>3, PassGoesOn DEF PruneOut, OnePassMoves, HkStages, hkHistory
    <2>2. DayInv'
        BY <1>0, <2>1, DayStays DEF Works
    <2> QED BY <1>0, <1>1, <2>1, <2>2 DEF HkTyped, OnePassMoves
<1>4. CASE PruneRest(p)
    <2>1. /\ OnePassMoves(p) /\ pass'[p].at = "off" /\ stamp' = "fresh" /\ hkLock' \in {"free", hkLock}
          /\ p \notin Server => hkLock' = hkLock
        BY <1>4, PassEndsOff DEF PruneRest, OnePassMoves, Unlocks
    <2>2. OneDay => OneDay'
        BY <1>0, <2>1 DEF OneDay, OnePassMoves, Works, Nears, PassAt
    <2>3. AtLocks'
        BY <2>1 DEF DayInv, AtLocks, OnePassMoves
    <2> QED BY <1>0, <1>1, <2>1, <2>2, <2>3 DEF HkTyped, OnePassMoves, DayInv
<1> QED BY <1>1, <1>2, <1>3, <1>4

\* The names of the archives of an item.
LEMMA NamesAre ==
    ASSUME NEW i \in Archived
    PROVE  /\ FreeName(i) \in Names /\ NameOf(i, FreeName(i)) /\ i \in Item
           /\ ClassOf[i] = "shelf" => FreeName(i) = <<BaseOf[i], 0>>
           /\ ClassOf[i] \in {"bak", "shelf"}
<1>1. <<BaseOf[i], 0>> \in Names /\ <<BaseOf[i], 1>> \in Names
    BY DEF Names
<1> QED BY <1>1 DEF FreeName, NameOf, Archived

\* What a pass goes on to is of the archived classes.
LEMMA NextIsArchived ==
    ASSUME HkTyped, NEW p \in HkProc, NEW i \in NextArchived(p)
    PROVE  i \in Archived /\ i \in pass[p].plan
BY DEF NextArchived, OfClass, Archived, HkTyped, Passes

\* An item is taken from the plan: the fields of the pass.
LEMMA ExpectIs ==
    ASSUME HkTyped, NEW p \in HkProc, Expect(p)
    PROVE  /\ OnePassMoves(p) /\ pass[p].at = "archive" /\ UNCHANGED <<disk, aged, busy, archive, stamp, hkLock, hkHistory>>
           /\ \E i \in Archived :
                  /\ pass'[p].item = {i} /\ pass'[p].name = FreeName(i) /\ pass'[p].expected = disk[i]
                  /\ pass'[p].at = IF disk[i] = {} THEN "archive" ELSE "tar"
<1>0. pass \in [HkProc -> Passes] /\ pass[p] \in Passes
    BY DEF HkTyped
<1>1. PICK i \in NextArchived(p) :
          pass' = [pass EXCEPT ![p].plan = @ \ {i}, ![p].item = {i}, ![p].expected = disk[i], ![p].name = FreeName(i),
                               ![p].at = IF disk[i] = {} THEN "archive" ELSE "tar"]
    BY DEF Expect
<1>2. i \in Archived /\ i \in Item /\ FreeName(i) \in Names /\ disk[i] \in SUBSET Parts
    BY NextIsArchived, NamesAre DEF HkTyped
<1> DEFINE stage == IF disk[i] = {} THEN "archive" ELSE "tar"
           now == [pass[p] EXCEPT !.plan = @ \ {i}, !.item = {i}, !.expected = disk[i], !.name = FreeName(i), !.at = stage]
<1>3. stage \in HkStages
    BY DEF HkStages
<1>4. now \in Passes /\ now.item = {i} /\ now.name = FreeName(i) /\ now.expected = disk[i] /\ now.at = stage
    <2> HIDE DEF stage
    <2> QED BY <1>0, <1>2, <1>3 DEF Passes
<1>5. pass' = [pass EXCEPT ![p] = now]
    <2> HIDE DEF stage
    <2>1. pass' = [pass EXCEPT ![p].plan = @ \ {i}, ![p].item = {i}, ![p].expected = disk[i], ![p].name = FreeName(i),
                               ![p].at = stage]
        BY <1>1 DEF stage
    <2> QED BY <1>0, <2>1 DEF Passes
<1> HIDE DEF now
<1>6. OnePassMoves(p) /\ pass'[p] = now
    BY <1>0, <1>4, <1>5 DEF OnePassMoves
<1> QED BY <1>2, <1>4, <1>6 DEF Expect, PassAt

\* What tar puts into the file beside the archive.
LEMMA TarIs ==
    ASSUME HkTyped, NEW p \in HkProc, NEW i \in Item, pass[p].item = {i}, Tar(p)
    PROVE  /\ OnePassMoves(p) /\ pass[p].at = "tar" /\ UNCHANGED <<disk, aged, busy, archive, stamp, hkLock, hkHistory>>
           /\ pass'[p].at = "list" /\ pass'[p].made = disk[i] /\ pass'[p].item = {i} /\ pass'[p].name = pass[p].name
           /\ pass'[p].expected = pass[p].expected
<1>0. pass \in [HkProc -> Passes] /\ pass[p] \in Passes /\ disk[i] \in SUBSET Parts
    BY DEF HkTyped
<1>1. TheItem(p) = i
    BY DEF TheItem
<1> DEFINE now == [pass[p] EXCEPT !.at = "list", !.made = disk[i]]
<1>2. now \in Passes
    BY <1>0 DEF Passes, HkStages
<1>3. /\ now.at = "list" /\ now.made = disk[i] /\ now.item = {i} /\ now.name = pass[p].name /\ now.expected = pass[p].expected
    BY <1>0 DEF Passes
<1>4. pass' = [pass EXCEPT ![p] = now]
    BY <1>0, <1>1 DEF Tar, Passes
<1> HIDE DEF now
<1> QED BY <1>0, <1>2, <1>3, <1>4 DEF Tar, PassAt, OnePassMoves

\* The look for an archive of the name.
LEMMA ExistsIs ==
    ASSUME HkTyped, NEW p \in HkProc, pass[p].name \in Names, ArchiveExists(p)
    PROVE  /\ OnePassMoves(p) /\ pass[p].at = "exists" /\ UNCHANGED <<disk, archive, replaced>>
           /\ pass'[p].at = (IF NameTaken(p) THEN "archive" ELSE "rename") /\ pass'[p].seen = archive[pass[p].name]
           /\ pass'[p].item = pass[p].item /\ pass'[p].name = pass[p].name /\ pass'[p].made = pass[p].made
           /\ pass'[p].expected = pass[p].expected
<1>0. pass \in [HkProc -> Passes] /\ pass[p] \in Passes /\ archive[pass[p].name] \in SUBSET (Item \X Parts)
    BY DEF HkTyped
<1> DEFINE stage == IF NameTaken(p) THEN "archive" ELSE "rename"
           found == archive[pass[p].name]
           now == [pass[p] EXCEPT !.at = stage, !.seen = found]
<1>1. stage \in HkStages
    BY DEF HkStages
<1>2. pass' = [pass EXCEPT ![p].at = stage, ![p].seen = found]
    BY DEF ArchiveExists
<1>a. found \in SUBSET (Item \X Parts)
    BY <1>0
<1> HIDE DEF stage, found
<1>3. /\ now \in Passes /\ now.at = stage /\ now.seen = found /\ now.item = pass[p].item /\ now.name = pass[p].name
      /\ now.made = pass[p].made /\ now.expected = pass[p].expected
    BY <1>0, <1>1, <1>a DEF Passes
<1>4. pass' = [pass EXCEPT ![p] = now]
    BY <1>0, <1>2 DEF Passes
<1> HIDE DEF now
<1>5. OnePassMoves(p) /\ pass'[p] = now
    BY <1>0, <1>3, <1>4 DEF OnePassMoves
<1>6. pass[p].at = "exists" /\ UNCHANGED <<disk, archive, replaced>>
    BY DEF ArchiveExists, PassAt, hkHistory
<1> QED BY <1>3, <1>5, <1>6 DEF stage, found

\* A pass that is not at an item leaves what is kept of each.
LEMMA KeptStays ==
    ASSUME KeptInv, NEW p \in HkProc, OnePassMoves(p) \/ pass' = pass, UNCHANGED <<archive, replaced>>,
           \A i \in Archived : disk'[i] = disk[i],
           pass' # pass => pass'[p].at \notin {"tar", "list", "exists", "rename", "remove"}
    PROVE  KeptInv'
<1>1. ArchivesWhole' /\ GoneIsArchived'
    BY DEF KeptInv, ArchivesWhole, GoneIsArchived, Saved, WholeIn
<1>2. ASSUME NEW q \in HkProc PROVE Archiving(q)'
    <2>1. Archiving(q)
        BY DEF KeptInv
    <2>2. CASE pass'[q] = pass[q]
        BY <2>1, <2>2 DEF Archiving, Saved, WholeIn
    <2>3. CASE pass'[q] # pass[q]
        <3>1. q = p /\ pass' # pass
            BY <2>3 DEF OnePassMoves
        <3> QED BY <3>1 DEF Archiving
    <2> QED BY <2>2, <2>3
<1> QED BY <1>1, <1>2 DEF KeptInv

\* One pass goes on while the others stay where they are.
LEMMA OneGoesOn ==
    ASSUME KeptInv, NEW p \in HkProc, OnePassMoves(p), UNCHANGED <<disk, archive, replaced>>, Archiving(p)'
    PROVE  KeptInv'
<1>1. ArchivesWhole' /\ GoneIsArchived'
    BY DEF KeptInv, ArchivesWhole, GoneIsArchived, Saved, WholeIn
<1>2. ASSUME NEW q \in HkProc \ {p} PROVE Archiving(q)'
    BY DEF KeptInv, OnePassMoves, Archiving, Saved, WholeIn
<1> QED BY <1>1, <1>2 DEF KeptInv

\* An item goes once its archive is there whole.
LEMMA ArchiveSteps ==
    ASSUME HkIInv, NEW p \in HkProc, HkArchives(p)
    PROVE  HkIInv'
<1>0. /\ pass \in [HkProc -> Passes] /\ pass[p] \in Passes /\ HkTyped /\ DayInv /\ KeptInv /\ Archiving(p) /\ ArchivesWhole
      /\ GoneIsArchived
    BY DEF HkIInv, HkTyped, KeptInv
<1>1. UNCHANGED <<aged, busy, stamp, hkLock, begun, usurped>> /\ (~RenameArchive(p) => UNCHANGED replaced)
    BY DEF HkArchives, Expect, Tar, ListsAll, ArchiveExists, ArchiveFails, RenameArchive, RemoveArchived, ArchivesDone, hkHistory
<1>2. SUFFICES OnePassMoves(p) /\ Works(p) /\ Works(p)' /\ KeptInv'
               /\ disk' \in [Item -> SUBSET Parts] /\ archive' \in [Names -> SUBSET (Item \X Parts)] /\ replaced' \subseteq Item
    <2>1. DayInv'
        BY <1>0, <1>1, <1>2, DayStays
    <2>2. HkTyped'
        BY <1>0, <1>1, <1>2 DEF HkTyped, OnePassMoves
    <2> QED BY <1>2, <2>1, <2>2 DEF HkIInv
<1>3. UNCHANGED disk => disk' \in [Item -> SUBSET Parts]
    BY <1>0 DEF HkTyped
<1>4. /\ UNCHANGED archive => archive' \in [Names -> SUBSET (Item \X Parts)]
      /\ UNCHANGED replaced => replaced' \subseteq Item
    BY <1>0 DEF HkTyped
<1>5. CASE Expect(p)
    <2>1. /\ OnePassMoves(p) /\ pass[p].at = "archive" /\ UNCHANGED <<disk, archive, replaced>>
          /\ \E i \in Archived :
                /\ pass'[p].item = {i} /\ pass'[p].name = FreeName(i) /\ pass'[p].expected = disk[i]
                /\ pass'[p].at = IF disk[i] = {} THEN "archive" ELSE "tar"
        BY <1>0, <1>5, ExpectIs DEF hkHistory
    <2>2. Archiving(p)'
        BY <2>1, NamesAre DEF Archiving
    <2> QED BY <1>0, <1>3, <1>4, <2>1, <2>2, OneGoesOn DEF Works
<1>6. CASE Tar(p)
    <2>1. pass[p].at = "tar"
        BY <1>6 DEF Tar, PassAt
    <2>2. PICK i \in Archived : /\ pass[p].item = {i} /\ pass[p].name \in Names /\ NameOf(i, pass[p].name) /\ pass[p].expected # {}
        BY <1>0, <2>1 DEF Archiving
    <2>3. /\ OnePassMoves(p) /\ UNCHANGED <<disk, archive, replaced>> /\ pass'[p].at = "list" /\ pass'[p].made = disk[i]
          /\ pass'[p].item = {i} /\ pass'[p].name = pass[p].name /\ pass'[p].expected = pass[p].expected
        BY <1>0, <1>6, <2>2, TarIs DEF Archived, hkHistory
    <2>4. Archiving(p)'
        BY <1>0, <2>2, <2>3 DEF Archiving, GoneIsArchived
    <2> QED BY <1>0, <1>3, <1>4, <2>1, <2>3, <2>4, OneGoesOn DEF Works
<1>7. CASE ListsAll(p)
    <2>1. /\ OnePassMoves(p) /\ pass[p].at = "list" /\ UNCHANGED <<disk, archive, replaced>> /\ pass'[p].at = "exists"
          /\ pass[p].expected \subseteq pass[p].made /\ pass'[p].made = pass[p].made
          /\ pass'[p].item = pass[p].item /\ pass'[p].name = pass[p].name /\ pass'[p].expected = pass[p].expected
        BY <1>0, <1>7, PassGoesOn DEF ListsAll, PassAt, OnePassMoves, HkStages, hkHistory
    <2>2. Archiving(p)'
        BY <1>0, <2>1 DEF Archiving
    <2> QED BY <1>0, <1>3, <1>4, <2>1, <2>2, OneGoesOn DEF Works
<1>8. CASE ArchiveExists(p)
    <2>1. pass[p].at = "exists" /\ UNCHANGED <<disk, archive, replaced>>
        BY <1>8 DEF ArchiveExists, PassAt, hkHistory
    <2>2. PICK i \in Archived :
              /\ pass[p].item = {i} /\ pass[p].name \in Names /\ NameOf(i, pass[p].name) /\ pass[p].expected # {}
              /\ disk[i] \subseteq pass[p].made /\ (ClassOf[i] = "bak" => pass[p].made \in {Parts, {}})
              /\ pass[p].expected \subseteq pass[p].made
        BY <1>0, <2>1 DEF Archiving
    <2>a. /\ OnePassMoves(p) /\ pass'[p].at = (IF NameTaken(p) THEN "archive" ELSE "rename")
          /\ pass'[p].seen = archive[pass[p].name] /\ pass'[p].item = pass[p].item /\ pass'[p].name = pass[p].name
          /\ pass'[p].made = pass[p].made /\ pass'[p].expected = pass[p].expected /\ UNCHANGED replaced
        BY <1>0, <1>8, <2>2, ExistsIs
    <2>3. CASE NameTaken(p)
        <3>1. OnePassMoves(p) /\ pass'[p].at = "archive"
            BY <2>3, <2>a
        <3>2. Archiving(p)'
            BY <3>1 DEF Archiving
        <3> QED BY <1>0, <1>1, <1>3, <1>4, <2>1, <2>a, <3>1, <3>2, OneGoesOn DEF Works
    <2>4. CASE ~NameTaken(p)
        <3>1. pass'[p].at = "rename" /\ archive[pass[p].name] = {}
            BY <2>4, <2>a DEF NameTaken
        <3>2. pass[p].made = Parts
            <4>1. CASE ClassOf[i] = "bak"
                BY <2>2, <4>1
            <4>2. CASE ClassOf[i] # "bak"
                <5>1. pass[p].made \subseteq Parts /\ ClassOf[i] = "shelf"
                    BY <1>0, <4>2 DEF Passes, Archived
                <5>2. disk[i] = Parts
                    <6> SUFFICES ASSUME disk[i] # Parts PROVE FALSE
                        OBVIOUS
                    <6>1. PICK n \in Names : NameOf(i, n) /\ Saved(i, n)
                        BY <1>0 DEF GoneIsArchived
                    <6>2. n = pass[p].name
                        BY <2>2, <5>1, <6>1 DEF NameOf
                    <6> QED BY <3>1, <6>1, <6>2 DEF Saved
                <5> QED BY <2>2, <5>1, <5>2
            <4> QED BY <4>1, <4>2
        <3>3. Archiving(p)'
            BY <2>2, <2>a, <3>1, <3>2 DEF Archiving
        <3> QED BY <1>0, <1>3, <1>4, <2>1, <2>a, <3>1, <3>3, OneGoesOn DEF Works
    <2> QED BY <2>3, <2>4
<1>9. CASE ArchiveFails(p) \/ ArchivesDone(p)
    <2>1. OnePassMoves(p) /\ pass[p].at \in {"tar", "list", "archive"} /\ UNCHANGED <<disk, archive, replaced>> /\ pass'[p].at \in {"archive", "rest"}
        BY <1>0, <1>9, PassGoesOn DEF ArchiveFails, ArchivesDone, PassAt, OnePassMoves, HkStages, hkHistory
    <2>2. Archiving(p)'
        BY <2>1 DEF Archiving
    <2> QED BY <1>0, <1>3, <1>4, <2>1, <2>2, OneGoesOn DEF Works
<1>10. CASE RenameArchive(p)
    <2>1. pass[p].at = "rename" /\ UNCHANGED disk
        BY <1>10 DEF RenameArchive, PassAt
    <2>2. PICK i \in Archived :
              /\ pass[p].item = {i} /\ pass[p].name \in Names /\ NameOf(i, pass[p].name) /\ pass[p].expected # {}
              /\ pass[p].made = Parts /\ pass[p].seen = {}
        BY <1>0, <2>1 DEF Archiving
    <2>a. PICK n \in Names : n = pass[p].name
        BY <2>2
    <2>3. archive' = [archive EXCEPT ![n] = {i} \X Parts] /\ archive \in [Names -> SUBSET (Item \X Parts)] /\ i \in Item
        BY <1>0, <1>10, <2>2, <2>a DEF RenameArchive, HkTyped, Archived
    <2>4. {i} \X Parts \in SUBSET (Item \X Parts)
        BY <2>3
    <2>5. archive' \in [Names -> SUBSET (Item \X Parts)] /\ archive'[n] = {i} \X Parts /\ \A m \in Names \ {n} : archive'[m] = archive[m]
        BY <2>2, <2>3, <2>4
    <2>6. /\ OnePassMoves(p) /\ pass'[p].at = "remove"
          /\ pass'[p].item = pass[p].item /\ pass'[p].name = n /\ pass'[p].expected = pass[p].expected
        BY <1>0, <1>10, <2>a, PassGoesOn DEF RenameArchive, OnePassMoves, HkStages
    <2>b. replaced' = replaced \cup ({e[1] : e \in archive[n]} \ {i})
        BY <1>10, <2>2, <2>a DEF RenameArchive
    <2>c. replaced' \subseteq Item
        <3>1. \A e \in archive[n] : e[1] \in Item
            BY <2>3
        <3> QED BY <1>0, <2>b, <3>1 DEF HkTyped
    <2>d. archive'[n] # {}
        <3>1. <<i, 1>> \in archive'[n]
            BY <2>5 DEF Parts
        <3> QED BY <3>1
    <2>7. ASSUME NEW j \in Archived, NEW m \in Names, Saved(j, m) PROVE Saved(j, m)'
        <3>1. CASE m = n /\ j = i
            BY <2>5, <2>d, <3>1 DEF Saved, WholeIn
        <3>2. CASE m = n /\ j # i
            <4>1. j \in replaced'
                <5>1. CASE WholeIn(j, m)
                    <6>1. <<j, 1>> \in archive[n]
                        BY <3>2, <5>1 DEF WholeIn, Parts
                    <6> QED BY <2>b, <3>2, <6>1
                <5>2. CASE j \in replaced
                    BY <2>b, <5>2
                <5> QED BY <2>7, <5>1, <5>2 DEF Saved
            <4> QED BY <2>d, <3>2, <4>1 DEF Saved
        <3>3. CASE m # n
            BY <2>5, <2>7, <2>b, <3>3 DEF Saved, WholeIn
        <3> QED BY <3>1, <3>2, <3>3
    <2>8. NameOf(i, n) /\ WholeIn(i, n)' /\ Saved(i, n)' /\ n \in Names
        BY <2>2, <2>5, <2>a, <2>d DEF WholeIn, Saved
    <2>9. ArchivesWhole'
        <3>1. ASSUME NEW m \in Names, archive'[m] # {} PROVE \E j \in Archived : NameOf(j, m) /\ WholeIn(j, m)'
            <4>1. CASE m = n
                BY <2>8, <4>1
            <4>2. CASE m # n
                <5>1. PICK j \in Archived : NameOf(j, m) /\ WholeIn(j, m)
                    BY <1>0, <2>5, <3>1, <4>2 DEF ArchivesWhole
                <5> QED BY <2>5, <4>2, <5>1 DEF WholeIn
            <4> QED BY <4>1, <4>2
        <3> QED BY <3>1 DEF ArchivesWhole
    <2>10. GoneIsArchived'
        <3>1. ASSUME NEW j \in Archived, disk[j] # Parts PROVE \E m \in Names : NameOf(j, m) /\ Saved(j, m)'
            <4>1. PICK m \in Names : NameOf(j, m) /\ Saved(j, m)
                BY <1>0, <3>1 DEF GoneIsArchived
            <4> QED BY <2>7, <4>1
        <3> QED BY <1>0, <2>1, <3>1 DEF GoneIsArchived
    <2>11. Archiving(p)'
        BY <2>2, <2>6, <2>8, <2>a DEF Archiving, Saved, WholeIn
    <2>12. ASSUME NEW q \in HkProc \ {p} PROVE Archiving(q)'
        <3>1. pass'[q] = pass[q] /\ Archiving(q)
            BY <1>0, <2>6 DEF OnePassMoves, KeptInv
        <3>2. CASE pass[q].at \in {"tar", "list", "exists", "rename", "remove"}
            <4>1. PICK j \in Archived :
                    /\ pass[q].item = {j} /\ pass[q].name \in Names /\ NameOf(j, pass[q].name) /\ pass[q].expected # {}
                    /\ pass[q].at \in {"list", "exists"} => disk[j] \subseteq pass[q].made
                    /\ pass[q].at \in {"list", "exists"} /\ ClassOf[j] = "bak" => pass[q].made \in {Parts, {}}
                    /\ pass[q].at = "exists" => pass[q].expected \subseteq pass[q].made
                    /\ pass[q].at = "rename" => pass[q].made = Parts /\ pass[q].seen = {}
                    /\ pass[q].at = "remove" => Saved(j, pass[q].name)
                BY <3>1, <3>2 DEF Archiving
            <4>2. PICK m \in Names : m = pass[q].name
                BY <4>1
            <4>3. pass[q].at = "remove" => Saved(j, m)'
                BY <2>7, <4>1, <4>2
            <4> QED BY <2>1, <3>1, <4>1, <4>2, <4>3 DEF Archiving, Saved, WholeIn
        <3>3. CASE pass[q].at \notin {"tar", "list", "exists", "rename", "remove"}
            BY <3>1, <3>3 DEF Archiving
        <3> QED BY <3>2, <3>3
    <2>13. KeptInv'
        BY <2>9, <2>10, <2>11, <2>12 DEF KeptInv
    <2> QED BY <1>3, <2>1, <2>5, <2>6, <2>13, <2>c DEF Works
<1>11. CASE RemoveArchived(p)
    <2>1. pass[p].at = "remove" /\ UNCHANGED <<archive, replaced>>
        BY <1>11 DEF RemoveArchived, PassAt, hkHistory
    <2>2. PICK i \in Archived :
              /\ pass[p].item = {i} /\ pass[p].name \in Names /\ NameOf(i, pass[p].name) /\ pass[p].expected # {}
              /\ Saved(i, pass[p].name)
        BY <1>0, <2>1 DEF Archiving
    <2>3. TheItem(p) = i
        BY <2>2 DEF TheItem
    <2>4. PICK left \in SUBSET disk[i] :
              /\ left = {} \/ ClassOf[i] = "shelf"
              /\ disk' = [disk EXCEPT ![i] = left]
              /\ PassGoes(p, IF left = {} THEN "archive" ELSE "remove")
        BY <1>11, <2>3 DEF RemoveArchived
    <2>5. /\ OnePassMoves(p) /\ pass'[p].at \in {"archive", "remove"}
          /\ pass'[p].item = pass[p].item /\ pass'[p].name = pass[p].name /\ pass'[p].expected = pass[p].expected
        BY <1>0, <2>4, PassGoesOn DEF OnePassMoves, HkStages
    <2>6. /\ disk \in [Item -> SUBSET Parts] /\ i \in Item
          /\ disk' \in [Item -> SUBSET Parts] /\ disk'[i] = left /\ \A j \in Item \ {i} : disk'[j] = disk[j]
        BY <1>0, <2>4 DEF HkTyped, Archived
    <2>7. GoneIsArchived'
        <3>1. ASSUME NEW j \in Archived
              PROVE  /\ disk'[j] # Parts => \E n \in Names : NameOf(j, n) /\ Saved(j, n)'
                     /\ ClassOf[j] = "bak" => disk'[j] \in {Parts, {}}
            <4>1. CASE j = i
                BY <2>1, <2>2, <2>4, <2>6, <4>1 DEF Saved, WholeIn
            <4>2. CASE j # i
                BY <1>0, <2>1, <2>6, <4>2 DEF GoneIsArchived, Saved, WholeIn, Archived
            <4> QED BY <4>1, <4>2
        <3> QED BY <3>1 DEF GoneIsArchived
    <2>8. ASSUME NEW q \in HkProc \ {p} PROVE Archiving(q)'
        <3>1. pass'[q] = pass[q] /\ Archiving(q) /\ \A j \in Archived : disk'[j] \subseteq disk[j]
            BY <1>0, <2>5, <2>6 DEF OnePassMoves, KeptInv, Archived
        <3> QED BY <2>1, <3>1 DEF Archiving, Saved, WholeIn
    <2>9. Archiving(p)'
        BY <2>1, <2>2, <2>5 DEF Archiving, Saved, WholeIn
    <2>10. ArchivesWhole'
        BY <1>0, <2>1 DEF ArchivesWhole, WholeIn
    <2>11. KeptInv'
        BY <2>7, <2>8, <2>9, <2>10 DEF KeptInv
    <2> QED BY <1>4, <2>1, <2>5, <2>6, <2>11 DEF Works
<1> QED BY <1>5, <1>6, <1>7, <1>8, <1>9, <1>10, <1>11 DEF HkArchives

\* Every step keeps the invariant.
LEMMA HkSteps == ASSUME HkIInv, [HkNext]_hkVars PROVE HkIInv'
<1>0. HkTyped /\ DayInv /\ KeptInv
    BY DEF HkIInv
<1>1. ASSUME NEW p \in HkProc, HkStart(p) \/ HkVerb(p) \/ HkStep(p) \/ HkCrash(p) PROVE HkIInv'
    <2>1. CASE HkStart(p) \/ TakeLock(p) \/ LockExists(p) \/ ReclaimLock(p) \/ Rescan(p) \/ NotDue(p) \/ HkVerb(p) \/ HkCrash(p)
        <3>1. /\ HkTyped' /\ DayInv' /\ UNCHANGED <<disk, archive, replaced>> /\ OnePassMoves(p)
              /\ pass'[p].at \in {"off", "lock", "reclaim", "due", "scan"}
            BY <1>0, <2>1, LockSteps
        <3> QED BY <1>0, <3>1, KeptStays DEF HkIInv
    <2>2. CASE BeginPass(p)
        <3>1. HkTyped' /\ DayInv' /\ UNCHANGED <<disk, archive, replaced>> /\ OnePassMoves(p) /\ pass'[p].at \in {"off", "lanes"}
            BY <1>0, <2>2, BeginSteps
        <3> QED BY <1>0, <3>1, KeptStays DEF HkIInv
    <2>3. CASE PruneLanes(p) \/ PruneOut(p) \/ PruneRest(p)
        <3>1. /\ HkTyped' /\ DayInv' /\ UNCHANGED <<archive, replaced>> /\ OnePassMoves(p) /\ pass'[p].at \in {"off", "out", "archive"}
              /\ \A i \in Archived : disk'[i] = disk[i]
            BY <1>0, <2>3, PruneSteps
        <3> QED BY <1>0, <3>1, KeptStays DEF HkIInv
    <2> QED BY <1>1, <2>1, <2>2, <2>3, ArchiveSteps DEF HkStep
<1>2. ASSUME NEW i \in Item, ItemAges(i) \/ BusyChanges(i) PROVE HkIInv'
    <2>1. HkTyped' /\ UNCHANGED <<disk, archive, stamp, hkLock, pass, begun, usurped, replaced>>
        BY <1>0, <1>2 DEF ItemAges, BusyChanges, HkTyped, hkHistory
    <2> QED BY <1>0, <2>1 DEF HkIInv, DayInv, OneDay, AtLocks, Works, Nears, PassAt, KeptInv, ArchivesWhole, GoneIsArchived, Archiving, Saved, WholeIn
<1>3. CASE LockAges
    <2>1. HkTyped' /\ UNCHANGED <<disk, archive, stamp, pass, begun, usurped, replaced>> /\ \A p \in Server : ~Nears(p)
        BY <1>0, <1>3 DEF LockAges, HkTyped, Nears, hkHistory
    <2> QED BY <1>0, <2>1 DEF HkIInv, DayInv, OneDay, AtLocks, Works, Nears, PassAt, KeptInv, ArchivesWhole, GoneIsArchived, Archiving, Saved, WholeIn
<1>4. CASE StampAges
    <2>1. HkTyped' /\ UNCHANGED <<disk, archive, pass, hkLock, replaced>> /\ begun' = 0 /\ \A p \in HkProc : pass[p].at = "off"
        BY <1>0, <1>4 DEF StampAges, HkTyped, PassAt
    <2>2. DayInv'
        BY <1>0, <2>1 DEF DayInv, OneDay, AtLocks, Works, Nears, PassAt, HkProc
    <2> QED BY <1>0, <2>1, <2>2 DEF HkIInv, KeptInv, ArchivesWhole, GoneIsArchived, Archiving, Saved, WholeIn
<1>5. CASE UNCHANGED hkVars
    BY <1>0, <1>5 DEF hkVars, hkHistory, HkIInv, HkTyped, DayInv, OneDay, AtLocks, Works, Nears, PassAt, KeptInv, ArchivesWhole, GoneIsArchived, Archiving, Saved, WholeIn
<1> QED BY <1>1, <1>2, <1>3, <1>4, <1>5 DEF HkNext

\* The safety properties of the passes follow.
LEMMA HkSafe == HkIInv => HousekeepInv
<1> SUFFICES ASSUME HkIInv PROVE HousekeepInv
    OBVIOUS
<1>1. HkTypeOK
    BY DEF HkIInv, HkTyped, HkTypeOK, Passes, HkStages
<1>2. NothingLost
    BY DEF HkIInv, HkTyped, KeptInv, GoneIsArchived, NothingLost, Saved, WholeIn
<1>3. OnePassPerDay
    BY DEF HkIInv, DayInv, OneDay, OnePassPerDay
<1> QED BY <1>1, <1>2, <1>3 DEF HousekeepInv

(* Whatever automatic passes and verb passes overlap, and wherever they are   *)
(* ended, no entry of a backup or of a shelf is lost, but for an item whose   *)
(* archive another of its base name replaced after the look (archiveEntry);   *)
(* and a day has one automatic pass until a server removes, as stale, a lock  *)
(* taken since it looked (acquireHousekeepLock).                              *)
THEOREM BackupsAreKept == HkSpec => []HousekeepInv
<1>1. HkIInv /\ [HkNext]_hkVars => HkIInv'
    BY HkSteps
<1> QED BY <1>1, HkStarts, HkSafe, PTL DEF HkSpec

-----------------------------------------------------------------------------
(* Janitor: what a sweep spares.                                             *)

JSweeps == [at : {"off", "plan", "remove"}, table : SUBSET JPid, commands : SUBSET Entry,
            plan : SUBSET (Entry \cup Record), kept : SUBSET Entry]
JanTyped ==
    /\ alive \subseteq JPid /\ cmd \in [JPid -> SUBSET Entry] /\ cwd \in [JPid -> SUBSET Entry]
    /\ entries \subseteq Entry /\ kept \subseteq Entry
    /\ holder \in [Install -> JPid \cup {NoJPid}] /\ recorded \in [Record -> JPid \cup {NoJPid}]
    /\ jsweep \in JSweeps /\ steady \subseteq JPid \X Entry

\* A use that is seen is by a lock, or of a row: by the command line it showed, or by the directory.
ByLock(u) == u[2] \in Install /\ holder[u[2]] = u[1]
ByRow(u) ==
    /\ u[1] \in jsweep.table /\ cmd[u[1]] \subseteq jsweep.commands
    /\ u[2] \in jsweep.commands \/ u[2] \in cwd[u[1]]
StillUsed ==
    /\ \A u \in steady : u[1] \in alive
    /\ jsweep.at = "plan" => \A u \in steady : ByRow(u) \/ ByLock(u)

\* What is planned is neither in use all along nor kept when the plan was made.
PlanSpares ==
    jsweep.at = "remove" => \A e \in Entry \cap jsweep.plan : e \notin jsweep.kept /\ \A u \in steady : u[2] # e

JanIInv == JanTyped /\ StillUsed /\ PlanSpares

\* Nothing runs and no pass has begun.
LEMMA JanStarts == JanInit => JanIInv
<1> SUFFICES ASSUME JanInit PROVE JanIInv
    OBVIOUS
<1>1. Resting \in JSweeps /\ Resting.at = "off"
    BY DEF Resting, JSweeps
<1>2. JanTyped
    BY <1>1 DEF JanInit, JanTyped
<1> QED BY <1>1, <1>2 DEF JanInit, JanIInv, StillUsed, PlanSpares

HostMoves ==
    \/ \E p \in JPid : \/ JStarts(p) \/ JEnds(p)
                       \/ \E e \in Entry : ChangesDir(p, e) \/ Touches(p, e)
                       \/ \E n \in Record : WritesRecord(p, n)
    \/ \E e \in Entry : KeepsEntry(e)

\* What the host does ends uses, and begins none that is taken for an old one.
LEMMA HostSteps ==
    ASSUME JanIInv, HostMoves
    PROVE  JanIInv' /\ entries \subseteq entries'
<1>0. JanTyped /\ StillUsed /\ PlanSpares /\ UNCHANGED jsweep /\ jsweep \in JSweeps
    BY DEF HostMoves, JanIInv, JanTyped, JStarts, JEnds, ChangesDir, Touches, KeepsEntry, WritesRecord
<1>a. \A u \in steady : u[1] \in JPid /\ u[2] \in Entry /\ u[1] \in alive
    BY <1>0 DEF JanTyped, StillUsed
<1>b. steady' \subseteq steady => PlanSpares'
    BY <1>0 DEF PlanSpares
<1>1. ASSUME NEW p \in JPid, JStarts(p) PROVE JanIInv' /\ entries \subseteq entries'
    <2>1. JanTyped'
        BY <1>0, <1>1 DEF JStarts, JanTyped
    <2>2. \A u \in steady : cmd'[u[1]] = cmd[u[1]]
        BY <1>0, <1>a, <1>1 DEF JStarts, JanTyped
    <2>3. StillUsed'
        BY <1>0, <1>1, <2>2 DEF JStarts, StillUsed, ByRow, ByLock
    <2> QED BY <1>1, <1>b, <2>1, <2>3 DEF JStarts, JanIInv
<1>2. ASSUME NEW p \in JPid, JEnds(p) PROVE JanIInv' /\ entries \subseteq entries'
    <2>1. steady' \subseteq steady /\ \A u \in steady' : u[1] # p
        BY <1>2 DEF JEnds
    <2>2. recorded' \in [Record -> JPid \cup {NoJPid}]
        BY <1>0, <1>2 DEF JEnds, JanTyped
    <2>3. JanTyped'
        BY <1>0, <1>2, <2>1, <2>2 DEF JEnds, JanTyped
    <2>4. \A u \in steady' : cwd'[u[1]] = cwd[u[1]] /\ cmd'[u[1]] = cmd[u[1]] /\ u[1] \in alive'
        BY <1>0, <1>a, <1>2, <2>1 DEF JEnds, JanTyped
    <2>5. StillUsed'
        BY <1>0, <1>2, <2>1, <2>4 DEF JEnds, StillUsed, ByRow, ByLock
    <2> QED BY <1>2, <1>b, <2>1, <2>3, <2>5 DEF JEnds, JanIInv
<1>3. ASSUME NEW p \in JPid, NEW e \in Entry, ChangesDir(p, e) PROVE JanIInv' /\ entries \subseteq entries'
    <2>1. JanTyped'
        BY <1>0, <1>3 DEF ChangesDir, JanTyped
    <2>2. steady' \subseteq steady
        BY <1>3 DEF ChangesDir
    <2>3. ASSUME NEW u \in steady', jsweep.at = "plan" PROVE (ByRow(u) \/ ByLock(u))'
        <3>0. u \in steady /\ (ByRow(u) \/ ByLock(u))
            BY <1>0, <2>2, <2>3 DEF StillUsed
        <3>1. CASE ByLock(u)
            BY <1>3, <3>1 DEF ByLock, ChangesDir
        <3>2. CASE ByRow(u) /\ u[1] # p
            <4>1. cwd'[u[1]] = cwd[u[1]]
                BY <1>0, <1>a, <1>3, <3>0, <3>2 DEF ChangesDir, JanTyped
            <4> QED BY <1>3, <3>2, <4>1, <1>0 DEF ByRow, ChangesDir
        <3>3. CASE ByRow(u) /\ u[1] = p
            <4>1. u[2] \in cmd[p] \/ (u[2] \in Install /\ holder[u[2]] = p)
                BY <1>3, <3>3 DEF ChangesDir, Held
            <4> QED BY <1>0, <1>3, <3>3, <4>1 DEF ByRow, ByLock, ChangesDir
        <3> QED BY <3>0, <3>1, <3>2, <3>3
    <2>4. StillUsed'
        BY <1>0, <1>3, <2>2, <2>3 DEF ChangesDir, StillUsed
    <2> QED BY <1>3, <1>b, <2>1, <2>2, <2>4 DEF ChangesDir, JanIInv
<1>4. ASSUME NEW p \in JPid, NEW e \in Entry, Touches(p, e) PROVE JanIInv' /\ entries \subseteq entries'
    <2>1. JanTyped'
        BY <1>0, <1>4 DEF Touches, JanTyped
    <2>2. \A u \in steady : u[2] \in Install /\ holder[u[2]] = u[1] => holder'[u[2]] = u[1]
        BY <1>0, <1>a, <1>4 DEF Touches, JanTyped
    <2>3. StillUsed'
        BY <1>0, <1>4, <2>2 DEF Touches, StillUsed, ByRow, ByLock
    <2> QED BY <1>4, <1>b, <2>1, <2>3 DEF Touches, JanIInv
<1>5. ASSUME NEW e \in Entry, KeepsEntry(e) PROVE JanIInv' /\ entries \subseteq entries'
    <2>1. JanTyped' /\ StillUsed'
        BY <1>0, <1>5 DEF KeepsEntry, JanTyped, StillUsed, ByRow, ByLock
    <2> QED BY <1>5, <1>b, <2>1 DEF KeepsEntry, JanIInv
<1>6. ASSUME NEW p \in JPid, NEW n \in Record, WritesRecord(p, n) PROVE JanIInv' /\ entries \subseteq entries'
    <2>1. JanTyped' /\ StillUsed'
        BY <1>0, <1>6 DEF WritesRecord, JanTyped, StillUsed, ByRow, ByLock
    <2> QED BY <1>6, <1>b, <2>1 DEF WritesRecord, JanIInv
<1> QED BY <1>1, <1>2, <1>3, <1>4, <1>5, <1>6 DEF HostMoves

\* The rows that are read show what their processes use, and locks are judged without them.
LEMMA ReadingShows ==
    ASSUME JanIInv, ReadsTable
    PROVE  JanIInv'
<1>0. JanTyped /\ StillUsed
    BY DEF JanIInv
<1> PICK rows \in SUBSET alive :
        /\ jsweep' = [Resting EXCEPT !.at = "plan", !.table = rows, !.commands = UNION Range([p \in rows |-> cmd[p]])]
        /\ steady' = {u \in UsesNow : u[1] \in rows \/ u[2] \in Held(u[1])}
    BY DEF ReadsTable
<1>1. jsweep'.at = "plan" /\ jsweep'.table = rows /\ jsweep'.commands = UNION Range([p \in rows |-> cmd[p]])
    BY DEF Resting
<1>2. \A p \in rows : cmd[p] \subseteq jsweep'.commands
    <2> SUFFICES ASSUME NEW p \in rows PROVE cmd[p] \subseteq jsweep'.commands
        OBVIOUS
    <2> DEFINE f == [q \in rows |-> cmd[q]]
    <2>1. cmd[p] \in Range(f)
        <3>1. p \in DOMAIN f /\ f[p] = cmd[p]
            OBVIOUS
        <3> QED BY <3>1, Zenon DEF Range
    <2> QED BY <1>1, <2>1
<1>3. jsweep'.commands \subseteq Entry
    <2> SUFFICES ASSUME NEW e \in jsweep'.commands PROVE e \in Entry
        OBVIOUS
    <2> DEFINE f == [q \in rows |-> cmd[q]]
    <2>1. PICK c \in Range(f) : e \in c
        BY <1>1
    <2>2. PICK p \in DOMAIN f : f[p] = c
        BY <2>1, Zenon DEF Range
    <2> QED BY <1>0, <2>1, <2>2 DEF JanTyped
<1>4. jsweep' \in JSweeps
    <2> DEFINE c == UNION Range([p \in rows |-> cmd[p]])
    <2>1. c \subseteq Entry
        BY <1>1, <1>3
    <2>2. jsweep' = [Resting EXCEPT !.at = "plan", !.table = rows, !.commands = c]
        OBVIOUS
    <2> HIDE DEF c
    <2> QED BY <1>0, <2>1, <2>2 DEF JanTyped, JSweeps, Resting
<1>5. \A u \in steady' : u \in alive \X Entry /\ u[2] \in Uses(u[1]) /\ (u[1] \in rows \/ u[2] \in Held(u[1]))
    BY DEF UsesNow
<1>6. JanTyped'
    BY <1>0, <1>4, <1>5 DEF ReadsTable, JanTyped
<1>7. ASSUME NEW u \in steady' PROVE (ByRow(u) \/ ByLock(u))'
    BY <1>0, <1>1, <1>2, <1>5 DEF ReadsTable, ByRow, ByLock, Uses, Held
<1>8. StillUsed'
    BY <1>5, <1>7 DEF ReadsTable, StillUsed
<1> QED BY <1>1, <1>6, <1>8 DEF JanIInv, PlanSpares

\* The plan names no entry that a seen use, or a manifest, speaks for.
LEMMA PlansSpare ==
    ASSUME JanIInv, Plans
    PROVE  JanIInv'
<1>0. JanTyped /\ StillUsed /\ jsweep \in JSweeps /\ jsweep.at = "plan"
    BY DEF JanIInv, JanTyped, Plans, SweepIs
<1> PICK legible \in SUBSET (jsweep.table \cap alive) :
         /\ \E recent \in SUBSET Sweepable(legible) :
               jsweep' = [jsweep EXCEPT !.at = "remove", !.kept = kept,
                                        !.plan = (Sweepable(legible) \ recent) \cup DeadRecords]
         /\ steady' = {u \in steady : u[1] \in legible \/ u[2] \in cmd[u[1]] \cup Held(u[1])}
    BY DEF Plans
<1>1. PICK recent \in SUBSET Sweepable(legible) :
         jsweep' = [jsweep EXCEPT !.at = "remove", !.kept = kept,
                                  !.plan = (Sweepable(legible) \ recent) \cup DeadRecords]
    OBVIOUS
<1> DEFINE swept == Sweepable(legible)
<1>2. swept \subseteq Entry /\ DeadRecords \subseteq Record
    BY <1>0 DEF Sweepable, DeadRecords, JanTyped
<1>3. jsweep'.at = "remove" /\ jsweep'.kept = kept /\ jsweep'.plan = (swept \ recent) \cup DeadRecords
    BY <1>0, <1>1 DEF JSweeps
<1>4. jsweep' \in JSweeps
    <2> DEFINE planned == (swept \ recent) \cup DeadRecords
    <2>1. planned \subseteq Entry \cup Record /\ kept \subseteq Entry
        BY <1>0, <1>2 DEF JanTyped
    <2>2. jsweep' = [jsweep EXCEPT !.at = "remove", !.kept = kept, !.plan = planned]
        BY <1>1
    <2> HIDE DEF planned
    <2> QED BY <1>0, <2>1, <2>2 DEF JSweeps
<1>5. ASSUME NEW u \in steady' PROVE u[2] \notin swept
    <2>1. u \in steady /\ (u[1] \in legible \/ u[2] \in cmd[u[1]] \/ u[2] \in Held(u[1]))
        OBVIOUS
    <2>2. u[1] \in alive /\ u[2] \in Entry /\ (ByRow(u) \/ ByLock(u))
        BY <1>0, <2>1 DEF StillUsed, JanTyped
    <2>3. CASE ByLock(u) \/ u[2] \in Held(u[1])
        <3>1. u[2] \in Install /\ holder[u[2]] \in alive
            BY <2>2, <2>3 DEF ByLock, Held
        <3> QED BY <3>1 DEF Sweepable
    <2>4. CASE ByRow(u) /\ u[2] \in jsweep.commands
        BY <2>4 DEF Sweepable, Referenced
    <2>5. CASE ByRow(u) /\ u[2] \in cmd[u[1]]
        BY <2>5 DEF ByRow, Sweepable, Referenced
    <2>6. CASE u[1] \in legible /\ u[2] \in cwd[u[1]]
        <3> DEFINE f == [p \in legible |-> cwd[p]]
        <3>1. u[1] \in DOMAIN f /\ f[u[1]] = cwd[u[1]]
            BY <2>6
        <3>2. cwd[u[1]] \in Range(f)
            BY <3>1, Zenon DEF Range
        <3>3. u[2] \in UNION Range(f)
            BY <2>6, <3>2
        <3> QED BY <3>3 DEF Sweepable, Referenced
    <2> QED BY <2>1, <2>2, <2>3, <2>4, <2>5, <2>6 DEF ByRow
<1>6. PlanSpares'
    <2> SUFFICES ASSUME NEW e \in Entry, e \in jsweep'.plan
                 PROVE  e \notin kept /\ \A u \in steady' : u[2] # e
        BY <1>3 DEF PlanSpares
    <2>1. e \in swept
        BY <1>2, <1>3, JanitorShape
    <2> QED BY <1>5, <2>1 DEF Sweepable
<1>7. JanTyped' /\ StillUsed'
    BY <1>0, <1>3, <1>4 DEF Plans, JanTyped, StillUsed
<1> QED BY <1>6, <1>7 DEF JanIInv

\* What is removed was planned.
LEMMA RemovalSteps ==
    ASSUME JanIInv,
           \/ \E e \in Entry : RemovesEntry(e)
           \/ \E n \in Record : RemovesRecord(n)
           \/ SweepEnds
    PROVE  JanIInv' /\ \A e \in entries \ entries' : e \notin jsweep.kept /\ \A u \in steady : u[2] # e
<1>0. JanTyped /\ StillUsed /\ PlanSpares /\ jsweep \in JSweeps /\ jsweep.at = "remove"
    BY DEF JanIInv, JanTyped, RemovesEntry, RemovesRecord, SweepEnds, SweepIs
<1>1. ASSUME NEW x \in Entry \cup Record, jsweep' = [jsweep EXCEPT !.plan = @ \ {x}]
      PROVE  jsweep' \in JSweeps /\ jsweep'.at = "remove" /\ jsweep'.kept = jsweep.kept /\ jsweep'.plan = jsweep.plan \ {x}
    BY <1>0, <1>1 DEF JSweeps
<1>2. CASE \E e \in Entry : RemovesEntry(e)
    <2>1. PICK e \in Entry : RemovesEntry(e)
        BY <1>2
    <2>2. /\ jsweep' \in JSweeps /\ jsweep'.at = "remove" /\ jsweep'.kept = jsweep.kept
          /\ jsweep'.plan = jsweep.plan \ {e}
        BY <1>1, <2>1 DEF RemovesEntry
    <2>3. JanTyped' /\ StillUsed' /\ PlanSpares'
        BY <1>0, <2>1, <2>2 DEF RemovesEntry, JanTyped, StillUsed, PlanSpares
    <2> QED BY <1>0, <2>1, <2>3 DEF RemovesEntry, PlanSpares, JanIInv
<1>3. CASE \E n \in Record : RemovesRecord(n)
    <2>1. PICK n \in Record : RemovesRecord(n)
        BY <1>3
    <2>2. /\ jsweep' \in JSweeps /\ jsweep'.at = "remove" /\ jsweep'.kept = jsweep.kept
          /\ jsweep'.plan = jsweep.plan \ {n}
        BY <1>1, <2>1 DEF RemovesRecord
    <2>3. JanTyped' /\ StillUsed' /\ PlanSpares'
        BY <1>0, <2>1, <2>2 DEF RemovesRecord, JanTyped, StillUsed, PlanSpares
    <2> QED BY <2>1, <2>3 DEF RemovesRecord, JanIInv
<1>4. CASE SweepEnds
    <2>1. jsweep' \in JSweeps /\ jsweep'.at = "off"
        BY <1>4 DEF SweepEnds, Resting, JSweeps
    <2>2. JanTyped' /\ StillUsed' /\ PlanSpares'
        BY <1>0, <1>4, <2>1 DEF SweepEnds, JanTyped, StillUsed, PlanSpares
    <2> QED BY <1>4, <2>2 DEF SweepEnds, JanIInv
<1> QED BY <1>2, <1>3, <1>4

\* Every step keeps the invariant, and what it removes is spoken for by nothing.
LEMMA JanSteps ==
    ASSUME JanIInv, [JanNext]_janVars
    PROVE  /\ JanIInv'
           /\ \A e \in Entry : e \in entries /\ e \notin entries' => e \notin jsweep.kept /\ \A u \in steady : u[2] # e
<1>1. CASE UNCHANGED janVars
    BY <1>1 DEF janVars, JanIInv, JanTyped, StillUsed, ByRow, ByLock, PlanSpares
<1>2. CASE HostMoves
    BY <1>2, HostSteps
<1>3. CASE ReadsTable
    BY <1>3, ReadingShows DEF ReadsTable
<1>4. CASE Plans
    BY <1>4, PlansSpare DEF Plans
<1>5. CASE (\E e \in Entry : RemovesEntry(e)) \/ (\E n \in Record : RemovesRecord(n)) \/ SweepEnds
    BY <1>5, RemovalSteps
<1> QED BY <1>1, <1>2, <1>3, <1>4, <1>5 DEF JanNext, HostMoves

(* What a live process has used since before the sweep read the process     *)
(* table, by a lock, a row of the table or a directory it could read, and   *)
(* what a manifest kept when the plan was made, is never removed            *)
(* (runJanitorPass), whatever the host does between the two.                *)
THEOREM SweepKept == JanSpec => JanitorSafe
<1> DEFINE Spares == \A e \in Entry : e \in entries /\ e \notin entries' => e \notin jsweep.kept /\ \A u \in steady : u[2] # e
<1>1. JanIInv => JanTypeOK
    BY DEF JanIInv, JanTyped, JanTypeOK, JSweeps
<1>2. JanIInv /\ [JanNext]_janVars => JanIInv' /\ Spares
    BY JanSteps
<1>3. JanSpec => []JanIInv
    <2>1. JanIInv /\ [JanNext]_janVars => JanIInv'
        BY <1>2
    <2> QED BY JanStarts, <2>1, PTL DEF JanSpec
<1>4. JanSpec => []JanTypeOK
    BY <1>1, <1>3, PTL
<1>5. JanSpec => [][Spares]_janVars
    <2>1. JanIInv /\ [JanNext]_janVars => [Spares]_janVars
        BY <1>2
    <2> QED BY <1>3, <2>1, PTL DEF JanSpec
<1>6. JanSpec => SweepSpares
    BY <1>5 DEF SweepSpares
<1> QED BY <1>4, <1>6 DEF JanitorSafe
================================================================================
