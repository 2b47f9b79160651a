-------------------------------- MODULE Publish --------------------------------
(* publish_on_origin (triage-verbs.js): a lane builds one commit on the       *)
(* origin/main its clone knows, out of the files it lists, and pushes it. Each *)
(* git process is a step. Lanes of one clone share its remote-tracking ref,   *)
(* which every fetch and push moves.                                          *)
(* A file is the set of edits in it, and absent when empty; HEAD of every     *)
(* clone stays at the first commit. One submodule is pinned, by the position  *)
(* of its commit on its own main. The manifest of skills/ is left out.        *)
EXTENDS Integers, Sequences, FiniteSets

CONSTANTS
    Lane,       \* calls of publish_on_origin
    CloneOf,    \* the clone each lane's repo_dir belongs to
    Path,       \* files
    ClosesFile, \* the closes/<row>.txt among them
    RowFile,    \* the .gm/prd/<row>.yml among them
    Text,       \* the edit every file of the first commit consists of
    Edits,      \* paths each lane edited
    Drops,      \* paths it lists and does not have
    Closing,    \* lanes that close the row
    Pins,       \* the pin of its worktree; 0 when the submodule is not listed
    Clashing    \* pairs of edits merge-file cannot put into one file

Clone == {CloneOf[l] : l \in Lane}

ASSUME PublishAssumption ==
    /\ Text \notin Lane
    /\ {ClosesFile, RowFile} \subseteq Path /\ ClosesFile # RowFile /\ "pin" \notin Path
    /\ Edits \in [Lane -> SUBSET Path] /\ Drops \in [Lane -> SUBSET Path]
    /\ \A l \in Lane : Edits[l] \cap Drops[l] = {}
    /\ Closing \subseteq Lane
    /\ Pins \in [Lane -> Nat]

VARIABLES
    origin, \* trees of the commits of origin/main, oldest first
    track,  \* refs/remotes/origin/main of each clone
    lane,   \* the locals of each call
    landed  \* history: lanes whose commit reached origin

pubVars == <<origin, track, lane, landed>>

FirstTree == [files |-> [p \in Path |-> IF p = ClosesFile THEN {} ELSE {Text}], pin |-> 1]
NoCommit  == [parent |-> 0, tree |-> FirstTree]
NotCalled == [at |-> "idle", base |-> 0, index |-> FirstTree, todo |-> {},
              conflict |-> FALSE, commit |-> NoCommit]

PubInit ==
    /\ origin = <<FirstTree>>
    /\ track  = [c \in Clone |-> 1]
    /\ lane   = [l \in Lane |-> NotCalled]
    /\ landed = {}

LaneAt(l, stage) == lane[l].at = stage
LaneGoes(l, stage) == lane' = [lane EXCEPT ![l].at = stage]
Tip(l) == origin[track[CloneOf[l]]]
Fetches(l) == track' = [track EXCEPT ![CloneOf[l]] = Len(origin)]

\* publishPath, witness and close record: the files the lane lists.
Listed(l) == Edits[l] \cup Drops[l] \cup (IF l \in Closing THEN {ClosesFile, RowFile} ELSE {})

\* What the lane's checkout holds.
Ours(l, p) ==
    CASE p \in Edits[l] -> FirstTree.files[p] \cup {l}
      [] p \in Drops[l] -> {}
      [] OTHER -> FirstTree.files[p]

-----------------------------------------------------------------------------
(* Up to the index: gates, fetch, fork point, read-tree.                    *)

\* Witness, references, repo_dir and the TCP probe passed.
Call(l) ==
    /\ LaneAt(l, "idle")
    /\ LaneGoes(l, "fetch")
    /\ UNCHANGED <<origin, track, landed>>

\* Any git process may fail, and so may the gates: nothing was pushed.
BuildFails(l) ==
    /\ lane[l].at \in {"fetch", "fork", "read", "merge", "commit", "check", "refetch", "rebase"}
    /\ LaneGoes(l, "refused")
    /\ UNCHANGED <<origin, track, landed>>

FetchOrigin(l) ==
    /\ LaneAt(l, "fetch")
    /\ Fetches(l)
    /\ LaneGoes(l, "fork")
    /\ UNCHANGED <<origin, landed>>

\* Mutant of ForkPoint: publish_base is taken as it is, origin/main included.
ForkPointGiven(l, given) == given

(* The fork point of HEAD and publish_base. HEAD is the first commit, an    *)
(* ancestor of every publish_base; one that is origin/main is ignored.      *)
ForkPoint(l, given) == 1

FindFork(l) ==
    /\ LaneAt(l, "fork")
    /\ \E given \in 1..track[CloneOf[l]] :
          lane' = [lane EXCEPT ![l].at = "read", ![l].base = ForkPoint(l, given)]
    /\ UNCHANGED <<origin, track, landed>>

ReadTree(l) ==
    /\ LaneAt(l, "read")
    /\ lane' = [lane EXCEPT ![l].at = "merge", ![l].index = Tip(l),
                            ![l].todo = Listed(l) \cup (IF Pins[l] # 0 THEN {"pin"} ELSE {})]
    /\ UNCHANGED <<origin, track, landed>>

-----------------------------------------------------------------------------
(* One listed path at a time is merged onto origin/main, as the ref is then. *)

Merge3(fork, ours, theirs) == (theirs \ (fork \ ours)) \cup (ours \ fork)

\* merge-file leaves a conflict block, or one side is gone and the other changed.
Clash3(fork, ours, theirs) ==
    /\ ours # theirs /\ ours # fork /\ theirs # fork
    /\ \/ {} \in {fork, ours, theirs}
       \/ \E a \in ours \ fork, b \in theirs \ fork : {a, b} \in Clashing

Stage(l, p, edits, conflict) ==
    lane' = [lane EXCEPT ![l].index.files[p] = edits,
                         ![l].conflict = @ \/ conflict,
                         ![l].todo = @ \ {p}]

MergeFile(l, p) ==
    LET fork   == origin[lane[l].base].files[p]
        theirs == Tip(l).files[p]
    IN  IF Clash3(fork, Ours(l, p), theirs)
        THEN Stage(l, p, lane[l].index.files[p], TRUE)
        ELSE IF theirs = {} /\ fork # {}
        THEN Stage(l, p, lane[l].index.files[p], FALSE)
        ELSE Stage(l, p, Merge3(fork, Ours(l, p), theirs), FALSE)

\* The row file of a close, and a listed path the lane does not have, leave the index.
RemoveFile(l, p) == Stage(l, p, {}, FALSE)

MergePath(l) ==
    /\ LaneAt(l, "merge")
    /\ \E p \in lane[l].todo \cap Path :
          IF Ours(l, p) = {} \/ (p = RowFile /\ l \in Closing) THEN RemoveFile(l, p)
                                                              ELSE MergeFile(l, p)
    /\ UNCHANGED <<origin, track, landed>>

\* origin's pin moved past the fork point, and the lane's does not descend from it.
PinConflicts(l) ==
    lane[l].index.pin # origin[lane[l].base].pin /\ Pins[l] < lane[l].index.pin

MergePin(l) ==
    /\ LaneAt(l, "merge")
    /\ "pin" \in lane[l].todo
    /\ LET unchanged == Pins[l] \in {origin[lane[l].base].pin, lane[l].index.pin}
       IN  lane' = [lane EXCEPT ![l].todo = @ \ {"pin"},
                        ![l].conflict  = @ \/ (~unchanged /\ PinConflicts(l)),
                        ![l].index.pin = IF unchanged \/ PinConflicts(l) THEN @ ELSE Pins[l]]
    /\ UNCHANGED <<origin, track, landed>>

\* A line is appended to the record of the row as origin/main has it.
CloseRecord(l) ==
    IF l \in Closing THEN [lane[l].index EXCEPT !.files[ClosesFile] = Tip(l).files[ClosesFile] \cup {l}]
                     ELSE lane[l].index

Merged(l) ==
    /\ LaneAt(l, "merge")
    /\ lane[l].todo = {}
    /\ lane' = [lane EXCEPT ![l].at = IF lane[l].conflict THEN "refused" ELSE "commit",
                            ![l].index = CloseRecord(l)]
    /\ UNCHANGED <<origin, track, landed>>

-----------------------------------------------------------------------------
(* The commit, what it may change, and the push.                            *)

Changed(a, b) == {p \in Path : a.files[p] # b.files[p]}

Unintended(l, tip, tree) ==
    ~(Changed(tip, tree) \subseteq Listed(l)) \/ (tip.pin # tree.pin /\ Pins[l] = 0)

\* write-tree and commit-tree -p origin/main: the parent is the ref at this step.
CommitTree(l) ==
    /\ LaneAt(l, "commit")
    /\ lane' = [lane EXCEPT
          ![l].at     = IF lane[l].index = Tip(l) THEN "refused" ELSE "check",
          ![l].commit = [parent |-> track[CloneOf[l]], tree |-> lane[l].index]]
    /\ UNCHANGED <<origin, track, landed>>

CheckCommit(l) ==
    /\ LaneAt(l, "check")
    /\ LaneGoes(l, IF Unintended(l, Tip(l), lane[l].commit.tree) THEN "refused" ELSE "push")
    /\ UNCHANGED <<origin, track, landed>>

\* origin takes a fast-forward only.
Accepts(commit) == commit.parent = Len(origin)

(* A push that lands moves the tracking ref; its answer may be lost, and is *)
(* a failure like a refusal then.                                           *)
PushLands(l) ==
    /\ lane[l].at \in {"push", "retry"}
    /\ Accepts(lane[l].commit)
    /\ origin' = Append(SubSeq(origin, 1, lane[l].commit.parent), lane[l].commit.tree)
    /\ landed' = landed \cup {l}
    /\ \/ track' = [track EXCEPT ![CloneOf[l]] = Len(origin')] /\ LaneGoes(l, "verify")
       \/ track' = track /\ LaneGoes(l, IF LaneAt(l, "push") THEN "refetch" ELSE "refused")

PushRefused(l) ==
    /\ lane[l].at \in {"push", "retry"}
    /\ LaneGoes(l, IF LaneAt(l, "push") THEN "refetch" ELSE "refused")
    /\ UNCHANGED <<origin, track, landed>>

Refetch(l) ==
    /\ LaneAt(l, "refetch")
    /\ Fetches(l)
    /\ LaneGoes(l, "rebase")
    /\ UNCHANGED <<origin, landed>>

(* merge-tree: the change of the one commit, replayed onto the tip.         *)
Replayed(l) ==
    LET was == origin[lane[l].commit.parent]
        now == lane[l].commit.tree
    IN  [files |-> [p \in Path |-> Merge3(was.files[p], now.files[p], Tip(l).files[p])],
         pin   |-> IF now.pin = was.pin THEN Tip(l).pin ELSE now.pin]

ReplayConflicts(l) ==
    LET was == origin[lane[l].commit.parent]
        now == lane[l].commit.tree
    IN  \/ \E p \in Path : Clash3(was.files[p], now.files[p], Tip(l).files[p])
        \/ Cardinality({was.pin, now.pin, Tip(l).pin}) = 3

Rebase(l) ==
    /\ LaneAt(l, "rebase")
    /\ LET refuses == \/ ReplayConflicts(l)
                      \/ Unintended(l, Tip(l), Replayed(l))
                      \/ Replayed(l) = Tip(l)
       IN  lane' = [lane EXCEPT ![l].at = IF refuses THEN "refused" ELSE "retry",
                        ![l].commit = [parent |-> track[CloneOf[l]], tree |-> Replayed(l)]]
    /\ UNCHANGED <<origin, track, landed>>

\* The last fetch may fail; the commit is looked for on the ref.
Verify(l) ==
    /\ LaneAt(l, "verify")
    /\ Fetches(l) \/ UNCHANGED track
    /\ LaneGoes(l, "published")
    /\ UNCHANGED <<origin, landed>>

PubStep(l) ==
    \/ Call(l) \/ BuildFails(l) \/ FetchOrigin(l) \/ FindFork(l) \/ ReadTree(l)
    \/ MergePath(l) \/ MergePin(l) \/ Merged(l) \/ CommitTree(l) \/ CheckCommit(l)
    \/ PushLands(l) \/ PushRefused(l) \/ Refetch(l) \/ Rebase(l) \/ Verify(l)

PubNext == \E l \in Lane : PubStep(l)
PubSpec == PubInit /\ [][PubNext]_pubVars

-----------------------------------------------------------------------------
(* Properties.                                                              *)

Trees == [files : [Path -> SUBSET (Lane \cup {Text})], pin : Nat]

PubTypeOK ==
    /\ origin \in Seq(Trees)
    /\ track \in [Clone -> 1..Len(origin)]
    /\ lane \in [Lane -> [at : {"idle", "fetch", "fork", "read", "merge", "commit", "check", "push",
                                 "refetch", "rebase", "retry", "verify", "published", "refused"},
                          base : 0..Len(origin), index : Trees, todo : SUBSET (Path \cup {"pin"}),
                          conflict : BOOLEAN, commit : [parent : 0..Len(origin), tree : Trees]]]
    /\ landed \subseteq Lane

(* "publish_on_origin never clobbers newer origin text": whatever reached   *)
(* origin/main stays there however many lanes build on older tips, replay   *)
(* their commits or lose the answers of their pushes, but for a file that   *)
(* was listed to be removed; and a pin only moves forward. Not kept by      *)
(* lanes of one clone: the ref moves between read-tree and commit-tree -p.  *)
LandedStays ==
    LET tip == origin[Len(origin)]
        Removed(p) == \E m \in landed : p \in Drops[m] \/ (p = RowFile /\ m \in Closing)
    IN  \A l \in landed :
           /\ \A p \in Edits[l] : l \in tip.files[p] \/ Removed(p)
           /\ l \in Closing => l \in tip.files[ClosesFile] \/ Removed(ClosesFile)
           /\ Pins[l] <= tip.pin

(* "nothing landed": a refused call has pushed nothing.                     *)
RefusedLandsNothing == \A l \in Lane : LaneAt(l, "refused") => l \notin landed

(* The state is typed, and what landed on origin stays.                      *)
PublishInv == PubTypeOK /\ LandedStays
================================================================================
