-------------------------------- MODULE GitRepo --------------------------------
(* git-adapter.js: the answers of rev-parse that runGit keeps, and the stale  *)
(* index.lock it moves away (recoverStaleIndexLock, also asked by             *)
(* guardStaleIndexLocks before a git verb that writes).                       *)
(*                                                                            *)
(* A directory is the sequence of its path segments. runGit is synchronous,   *)
(* so a server's cache changes in one step; the lock is shared with every git *)
(* of the machine, so every system call on it is a step.                      *)
EXTENDS Naturals, FiniteSets, Sequences, SequencesExt, Functions

CONSTANTS
    Dir,         \* directories, closed under prefixes
    MaxEntries,  \* LAYOUT_CACHE_MAX_ENTRIES
    GitProc,     \* git processes that write the index
    LockServer   \* servers that may judge its lock

ASSUME RepoShape ==
    /\ <<>> \in Dir
    /\ \A d \in Dir : d \in Seq(Range(d)) /\ \A k \in 0..Len(d) : SubSeq(d, 1, k) \in Dir
    /\ MaxEntries \in Nat \ {0}

VARIABLES
    repos,    \* directories that hold .git
    layout,   \* the cache: the answers to --show-toplevel
    foreign,  \* history: cached directories whose answer another process changed
    lock,     \* index.lock: "none", "empty", "full"
    lockOld,  \* it is an hour old
    fd,       \* git processes with that file open
    git,      \* "idle", "holding"
    judge     \* a server: "idle", "seen" (a stale lock), "unheld"

repoVars == <<repos, layout, foreign>>
lockVars == <<lock, lockOld, fd, git, judge>>
gitVars == <<repoVars, lockVars>>

GitInit ==
    /\ repos = {<<>>} /\ layout = <<>> /\ foreign = {}
    /\ lock = "none" /\ lockOld = FALSE /\ fd = {}
    /\ git = [g \in GitProc |-> "idle"]
    /\ judge = [s \in LockServer |-> "idle"]

-----------------------------------------------------------------------------
(* The layout cache.                                                        *)

\* git rev-parse --show-toplevel: the nearest directory upwards, or none.
Above(d, within) == {e \in within : IsPrefix(e, d)}
Toplevel(d, within) == CHOOSE e \in Above(d, within) : \A f \in Above(d, within) : IsPrefix(f, e)

\* Mutant of Overlap: the directory of the command only.
OverlapSame(a, b) == a = b

\* layoutDirsOverlap.
Overlap(a, b) == IsPrefix(a, b) \/ IsPrefix(b, a)

\* forgetLayoutDir.
Forgotten(d) == [x \in {x \in DOMAIN layout : ~Overlap(x, d)} |-> layout[x]]

Full == Cardinality(DOMAIN layout) >= MaxEntries

\* runGit with a question: an answer is kept, a failure forgets the directory.
AskLayout(d) ==
    /\ d \notin DOMAIN layout
    /\ LET room == IF Full THEN <<>> ELSE layout
       IN layout' = IF Above(d, repos) = {} THEN Forgotten(d)
                    ELSE [x \in DOMAIN room \cup {d} |-> IF x = d THEN Toplevel(d, repos) ELSE room[x]]
    /\ foreign' = (foreign \cap DOMAIN layout') \ {d}
    /\ UNCHANGED <<repos, lockVars>>

Toggled(e) == IF e \in repos THEN repos \ {e} ELSE repos \cup {e}

\* Any other command, in d: it may make or remove a repository there or below.
RunGit(d) ==
    /\ \E e \in {e \in Dir : IsPrefix(d, e)} : repos' \in {repos, Toggled(e)}
    /\ layout' = Forgotten(d)
    /\ foreign' = foreign \cap DOMAIN layout'
    /\ UNCHANGED lockVars

\* Another process makes or removes one.
OthersGit(e) ==
    /\ repos' = Toggled(e)
    /\ foreign' = foreign \cup {x \in DOMAIN layout : IsPrefix(e, x)}
    /\ UNCHANGED <<layout, lockVars>>

-----------------------------------------------------------------------------
(* index.lock.                                                              *)

GitTakes(g) ==
    /\ git[g] = "idle" /\ lock = "none"
    /\ lock' = "empty" /\ lockOld' = FALSE /\ fd' = {g}
    /\ git' = [git EXCEPT ![g] = "holding"]
    /\ UNCHANGED <<repoVars, judge>>

GitWrites(g) ==
    /\ g \in fd /\ lock = "empty"
    /\ lock' = "full"
    /\ UNCHANGED <<repoVars, lockOld, fd, git, judge>>

\* The lock becomes the index, or is unlinked: by its name.
GitReleases(g) ==
    /\ git[g] = "holding"
    /\ git' = [git EXCEPT ![g] = "idle"]
    /\ lock' = "none" /\ fd' = {} /\ lockOld' = FALSE
    /\ UNCHANGED <<repoVars, judge>>

GitDies(g) ==
    /\ git[g] = "holding"
    /\ git' = [git EXCEPT ![g] = "idle"] /\ fd' = fd \ {g}
    /\ UNCHANGED <<repoVars, lock, lockOld, judge>>

LockGetsOld ==
    /\ lock # "none" /\ ~lockOld
    /\ lockOld' = TRUE
    /\ UNCHANGED <<repoVars, lock, fd, git, judge>>

JudgeGoes(s, stage) == judge' = [judge EXCEPT ![s] = stage]

\* lstat: anything but an empty file an hour old is refused, or is no lock.
SeesStale(s) ==
    /\ judge[s] = "idle"
    /\ lock = "empty" /\ lockOld
    /\ JudgeGoes(s, "seen")
    /\ UNCHANGED <<repoVars, lock, lockOld, fd, git>>

\* indexLockHolders: /proc/<pid>/fd of every process.
Unheld == fd = {}

FindsHolders(s) ==
    /\ judge[s] = "seen"
    /\ JudgeGoes(s, IF Unheld THEN "unheld" ELSE "idle")
    /\ UNCHANGED <<repoVars, lock, lockOld, fd, git>>

\* The rename into .gm/quarantine, by name; it fails when there is no lock.
Quarantine(s) ==
    /\ judge[s] = "unheld"
    /\ JudgeGoes(s, "idle")
    /\ lock' = "none" /\ fd' = {} /\ lockOld' = FALSE
    /\ UNCHANGED <<repoVars, git>>

LayoutNext == \E d \in Dir : AskLayout(d) \/ RunGit(d) \/ OthersGit(d)

LockNext ==
    \/ \E g \in GitProc : GitTakes(g) \/ GitWrites(g) \/ GitReleases(g) \/ GitDies(g)
    \/ \E s \in LockServer : SeesStale(s) \/ FindsHolders(s) \/ Quarantine(s)
    \/ LockGetsOld

GitNext == LayoutNext \/ LockNext
GitSpec == GitInit /\ [][GitNext]_gitVars

-----------------------------------------------------------------------------
GitTypeOK ==
    /\ repos \subseteq Dir /\ DOMAIN layout \subseteq Dir /\ Range(layout) \subseteq Dir
    /\ foreign \subseteq DOMAIN layout /\ Cardinality(DOMAIN layout) <= MaxEntries
    /\ lock \in {"none", "empty", "full"} /\ lockOld \in BOOLEAN /\ fd \subseteq GitProc
    /\ git \in [GitProc -> {"idle", "holding"}]
    /\ judge \in [LockServer -> {"idle", "seen", "unheld"}]

(* Whatever runGit ran in between, the toplevel it answers from its cache is *)
(* the one git would answer, but for what other processes did to .git.       *)
LayoutIsGits ==
    \A d \in DOMAIN layout \ foreign : Above(d, repos) # {} /\ layout[d] = Toplevel(d, repos)

(* What is moved is "a stale 0-byte index.lock": a git process that took the *)
(* lock keeps the file until it lets go. Not kept: between the look at the   *)
(* lock and its rename the slow writer may end and another one begin.        *)
WriterKeepsTheLock == \A g \in GitProc : git[g] = "holding" => lock # "none" /\ g \in fd

(* The state is typed, and the cached layout is the one git would find.      *)
GitRepoInv == GitTypeOK /\ LayoutIsGits
================================================================================
