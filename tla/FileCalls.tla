------------------------------- MODULE FileCalls -------------------------------
(* Calls gmDispatch rewrites before they are queued (dispatch.js): an fs_write *)
(* of named lines becomes a whole-file write (exactLineEdit), a git_add of a   *)
(* directory becomes a list of paths (planGitAdd). Both are made from what the *)
(* disk shows at the call, and are run later by the runner.                    *)
(*                                                                             *)
(* A text is a sequence of characters; 0 is the line end.                      *)
EXTENDS Naturals, Sequences, FiniteSets, SequencesExt

CONSTANTS
    Editor,       \* calls that edit lines of one file
    Texts,        \* what the file may hold at first
    Replacements, \* texts a call may put in a range
    Planner,      \* calls of git_add
    File, Sub,    \* files of the work tree, submodules
    DirOf,        \* the directory of each file
    Excluded,     \* files under an exclusion rule of git_status, or under .gm
    AddLimit      \* GIT_ADD_BLANKET_LIMIT

Blanket == "."
Directory == {DirOf[f] : f \in File}

VARIABLES
    text,    \* the file
    edit,    \* the line edits
    changed, \* paths git_status lists
    moved,   \* submodules whose HEAD is not the sha the parent pins
    plan,    \* the git_add calls
    staged,
    meant    \* history: paths that calls named

editVars == <<text, edit>>
addVars == <<changed, moved, plan, staged, meant>>
fileVars == <<editVars, addVars>>

-----------------------------------------------------------------------------
(* exactLineEdit                                                            *)

Split(t) == FoldLeft(LAMBDA lines, ch : IF ch = 0 THEN Append(lines, <<>>) ELSE [lines EXCEPT ![Len(lines)] = Append(@, ch)],
                     <<<<>>>>, t)
JoinLines(lines) == IF lines = <<>> THEN <<>> ELSE FoldLeft(LAMBDA t, line : t \o <<0>> \o line, Head(lines), Tail(lines))

EndsLine(t) == t # <<>> /\ Last(t) = 0
LinesOfText(t) == IF t = <<>> THEN <<>> ELSE IF EndsLine(t) THEN Front(Split(t)) ELSE Split(t)

ASSUME FileBounds ==
    /\ Texts \cup Replacements \subseteq Seq(Nat)
    /\ \E longest \in Texts : \A t \in Texts : Len(LinesOfText(t)) <= Len(LinesOfText(longest))
    /\ Excluded \subseteq File /\ File \cap Sub = {}

\* The replacement without one final line end, as lines; a deletion has none.
Inserted(r) == IF r.delete THEN <<>> ELSE Split(IF EndsLine(r.text) THEN Front(r.text) ELSE r.text)

\* Mutant of After: the line after the range goes too.
AfterNext(lines, last) == SubSeq(lines, last + 2, Len(lines))

After(lines, last) == SubSeq(lines, last + 1, Len(lines))

Rewritten(t, r) ==
    LET lines == LinesOfText(t)
        kept == SubSeq(lines, 1, r.first - 1) \o Inserted(r) \o After(lines, r.last)
    IN JoinLines(kept) \o (IF (t = <<>> \/ EndsLine(t)) /\ kept # <<>> THEN <<0>> ELSE <<>>)

InRange(t, r) == LET n == Len(LinesOfText(t)) IN r.first <= n + 1 /\ r.last >= r.first - 1 /\ r.last <= n

Range0 == [first |-> 1, last |-> 0, delete |-> TRUE, text |-> <<>>]
MaxLines == Max({Len(LinesOfText(t)) : t \in Texts}) + 1

\* The file is read and the whole-file write is queued, or the range is refused.
EditLines(e) ==
    /\ edit[e].at = "idle"
    /\ \E first \in 1..MaxLines, last \in 0..MaxLines, delete \in BOOLEAN, t \in Replacements :
          LET r == [first |-> first, last |-> last, delete |-> delete, text |-> t]
          IN /\ delete => t = <<>>
             /\ InRange(text, r)
             /\ edit' = [edit EXCEPT ![e] = [at |-> "sent", range |-> r, base |-> text, content |-> Rewritten(text, r)]]
    /\ UNCHANGED <<text, addVars>>

\* The runner writes the file.
EditLands(e) ==
    /\ edit[e].at = "sent"
    /\ text' = edit[e].content
    /\ edit' = [edit EXCEPT ![e].at = "written"]
    /\ UNCHANGED addVars

-----------------------------------------------------------------------------
(* planGitAdd                                                               *)

NoPlan == [at |-> "idle", named |-> {}, moved |-> {}, paths |-> {}, blanket |-> FALSE]

PlanAsk(p) ==
    /\ plan[p].at = "idle"
    /\ \E named \in SUBSET ({Blanket} \cup Directory \cup File \cup Sub) :
          /\ named # {}
          /\ plan' = [plan EXCEPT ![p] = [NoPlan EXCEPT !.named = named, !.blanket = Blanket \in named,
                                              !.at = IF named \subseteq File THEN "planned" ELSE "diff",
                                              !.paths = named \cap File]]
          /\ meant' = meant \cup (named \cap File)
    /\ UNCHANGED <<editVars, changed, moved, staged>>

\* submoduleGitlinkMoved, a git_diff for each submodule that is named.
PlanDiff(p) ==
    /\ plan[p].at = "diff"
    /\ plan' = [plan EXCEPT ![p].moved = plan[p].named \cap moved,
                            ![p].at = IF plan[p].named \cap ({Blanket} \cup Directory) = {} THEN "gitlinks" ELSE "list"]
    /\ UNCHANGED <<editVars, changed, moved, staged, meant>>

\* gitlinkOnlyPlan: submodules and files alone; nothing when no submodule moved.
PlanGitlinks(p) ==
    /\ plan[p].at = "gitlinks"
    /\ plan' = [plan EXCEPT ![p].paths = @ \cup plan[p].moved,
                            ![p].at = IF plan[p].moved = {} THEN "idle" ELSE "planned"]
    /\ UNCHANGED <<editVars, changed, moved, staged, meant>>

\* isExcludedOrTransient
Kept(listed) == listed \ Excluded

\* gitWorkingTreeLists, then the plan; a blanket of too many paths is refused.
PlanList(p) ==
    /\ plan[p].at = "list"
    /\ LET scope == IF plan[p].blanket THEN File \cup Sub ELSE {f \in File : DirOf[f] \in plan[p].named}
           kept == Kept((changed \cup moved) \cap scope)
           paths == (plan[p].named \cap File) \cup plan[p].moved \cup kept
           refused == plan[p].blanket /\ Cardinality(kept) > AddLimit
       IN plan' = [plan EXCEPT ![p] = IF refused \/ paths = {} THEN NoPlan ELSE [@ EXCEPT !.paths = paths, !.at = "planned"]]
    /\ UNCHANGED <<editVars, changed, moved, staged, meant>>

\* The runner adds the paths as they are then.
PlanRuns(p) ==
    /\ plan[p].at = "planned"
    /\ staged' = staged \cup (plan[p].paths \cap (changed \cup moved))
    /\ changed' = changed \ plan[p].paths
    /\ moved' = moved \ plan[p].paths
    /\ plan' = [plan EXCEPT ![p] = NoPlan]
    /\ UNCHANGED <<editVars, meant>>

\* Work goes on in the tree.
FileChanges(f) ==
    /\ changed' = IF f \in changed THEN changed \ {f} ELSE changed \cup {f}
    /\ UNCHANGED <<editVars, moved, plan, staged, meant>>

SubMoves(m) ==
    /\ moved' = moved \cup {m}
    /\ UNCHANGED <<editVars, changed, plan, staged, meant>>

-----------------------------------------------------------------------------
FileInit ==
    /\ text \in Texts
    /\ edit = [e \in Editor |-> [at |-> "idle", range |-> Range0, base |-> <<>>, content |-> <<>>]]
    /\ changed = {} /\ moved = {} /\ staged = {} /\ meant = {}
    /\ plan = [p \in Planner |-> NoPlan]

EditNext == \E e \in Editor : EditLines(e) \/ EditLands(e)
AddNext ==
    \/ \E p \in Planner : PlanAsk(p) \/ PlanDiff(p) \/ PlanGitlinks(p) \/ PlanList(p) \/ PlanRuns(p)
    \/ \E f \in File : FileChanges(f)
    \/ \E m \in Sub : SubMoves(m)
FileSpec == FileInit /\ [][EditNext \/ AddNext]_fileVars

FileTypeOK ==
    /\ \A e \in Editor : edit[e].at \in {"idle", "sent", "written"}
    /\ changed \subseteq File /\ moved \subseteq Sub /\ staged \subseteq File \cup Sub /\ meant \subseteq File
    /\ \A p \in Planner : plan[p].at \in {"idle", "diff", "gitlinks", "list", "planned"} /\ plan[p].paths \subseteq File \cup Sub

(* "the named lines of the existing file are replaced and the rest of the    *)
(* file is kept", as lines of the text the call read, one edit upon another, *)
(* for a file that ends with a line end; of another one when lines follow    *)
(* the range.                                                                *)
EditKeepsTheRest ==
    \A e \in Editor : edit[e].at # "idle" =>
        LET before == LinesOfText(edit[e].base)
            after == LinesOfText(edit[e].content)
            rest == Len(before) - edit[e].range.last
        IN EndsLine(edit[e].base) \/ edit[e].base = <<>> \/ rest > 0 =>
             /\ Len(after) >= rest
             /\ SubSeq(before, 1, edit[e].range.first - 1) \o Inserted(edit[e].range)
                  = SubSeq(after, 1, Len(after) - rest)
             /\ SubSeq(before, edit[e].range.last + 1, Len(before)) = SubSeq(after, Len(after) - rest + 1, Len(after))

(* An excluded or transient path is staged only when a call named it, and a  *)
(* submodule only after its HEAD moved, whatever changes in the tree between *)
(* the listing and the add.                                                  *)
StagedAsMeant == staged \cap Excluded \subseteq meant

(* "Pathspecs to stage with git add": a call that ends without a git add     *)
(* named no file with a change. Not kept: a call that names files and only   *)
(* submodules that did not move is answered for the submodules alone.        *)
NamedIsStaged ==
    [][\A p \in Planner : plan[p].at = "gitlinks" /\ plan'[p].at = "idle" => plan[p].named \cap changed = {}]_fileVars

(* The promise of EditKeepsTheRest, of the file as it is when the runner writes it. Not     *)
(* kept: what was written between the read and the write is lost.            *)
NoEditIsLost ==
    [][\A e \in Editor : edit[e].at = "sent" /\ edit'[e].at = "written" => text = edit[e].base]_fileVars

(* The state is typed, an edit by lines keeps the other lines, and an add    *)
(* stages what it may.                                                       *)
FileCallsInv == FileTypeOK /\ EditKeepsTheRest /\ StagedAsMeant
================================================================================
