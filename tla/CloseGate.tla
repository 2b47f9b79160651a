------------------------------- MODULE CloseGate -------------------------------
(* How a row of .gm/prd is added, given references and closed                 *)
(* (dispatch.js, public-search.js, triage-verbs.js). The references gate tags *)
(* the rows that are there when it first runs; a row of a later date closes   *)
(* only with references. Between two awaits a call is one step. A line        *)
(* "No public references" counts as a reference; a call whose witness is not  *)
(* a ledgered run of another session is refused before or after the gate.     *)
EXTENDS Naturals, FiniteSets

CONSTANTS
    Row, FirstRows, \* row ids, and those there before the gate was shipped
    GateCall,       \* calls of the servers of one project, each made once
    MaxLost         \* notes the runner refuses, commits that fail

ASSUME GateAssumption == FirstRows \subseteq Row /\ MaxLost \in Nat

VARIABLES
    open,    \* rows with a file
    referred, \* rows with references
    tagged,  \* rows with the grandfather note
    gate,    \* prd-references-gate.json is there
    record,  \* closes/<row>.txt: "none", "tree", "commit", "origin"
    gcall,
    lost,
    born,    \* history: an id was "never" added, first added before the gate file, or "late"
    stayed,  \* history: first rows never removed
    waived   \* history: rows closed by a call that needs no record

gateVars == <<open, referred, tagged, gate, record, gcall, lost, born, stayed, waived>>

CallOf(stage, verb, row, todo, note) ==
    [at |-> stage, verb |-> verb, row |-> row, todo |-> todo, note |-> note]
NoCall(stage) == CallOf(stage, "none", {}, {}, {})
\* A close, one of a refuted premise, and one with the number of an event and a commit.
CloseVerbs == {"close", "refuted", "event"}

GateInit ==
    /\ open = FirstRows
    /\ referred = {} /\ tagged = {} /\ gate = FALSE
    /\ record = [r \in Row |-> "none"]
    /\ gcall = [c \in GateCall |-> NoCall("idle")]
    /\ lost = 0 /\ stayed = FirstRows /\ waived = {}
    /\ born = [r \in Row |-> IF r \in FirstRows THEN "early" ELSE "never"]

CallAt(c, stage) == gcall[c].at = stage
CallGoes(c, stage) == gcall' = [gcall EXCEPT ![c].at = stage]
CallEnds(c) == gcall' = [gcall EXCEPT ![c] = NoCall("done")]
Running(c, verb) == CallAt(c, "run") /\ gcall[c].verb = verb
TheRow(c) == CHOOSE r \in gcall[c].row : TRUE
Loses == lost < MaxLost /\ lost' = lost + 1

\* readRow, rowHasReferences.
MayClose(r) == r \in open /\ r \in referred \cup tagged

-----------------------------------------------------------------------------
(* gmDispatch: the witness gate, the references gate, then the verb.        *)

GateMissing == ~gate

\* closeWitnessGateRefusal is passed, for a close that names a dispatch; then
\* ensureReferenceGate up to its first note: the rows there now, or nothing to do.
GateAsk(c) ==
    /\ CallAt(c, "idle")
    /\ \E verb \in CloseVerbs \cup {"add", "evidence"}, r \in Row :
          gcall' = [gcall EXCEPT ![c] = IF GateMissing THEN CallOf("list", verb, {r}, open, {})
                                                       ELSE CallOf("run", verb, {r}, {}, {})]
    /\ UNCHANGED <<open, referred, tagged, gate, record, lost, born, stayed, waived>>

\* The next row: skipped when it cannot be read or is tagged, else a note is sent.
GateNext(c) ==
    /\ CallAt(c, "list")
    /\ \E r \in gcall[c].todo :
          LET sends == r \in open /\ r \notin tagged
          IN gcall' = [gcall EXCEPT ![c] = CallOf(IF sends THEN "note" ELSE "list", @.verb, @.row,
                                                  @.todo \ {r}, IF sends THEN {r} ELSE {})]
    /\ UNCHANGED <<open, referred, tagged, gate, record, lost, born, stayed, waived>>

\* appendRowNote: the runner writes the note, or refuses and the pass stops without the state file.
NoteTaken(c) == gcall[c].note \subseteq open

GateTag(c) ==
    /\ CallAt(c, "note")
    /\ NoteTaken(c)
    /\ tagged' = tagged \cup gcall[c].note
    /\ gcall' = [gcall EXCEPT ![c].at = "list"]
    /\ UNCHANGED <<open, referred, gate, record, lost, born, stayed, waived>>

\* Mutant of GateStops: the pass goes on with the next row.
GateStopsNever(c) == CallGoes(c, "list")

GateStops(c) == gcall' = [gcall EXCEPT ![c] = CallOf("run", @.verb, @.row, {}, {})]

GateRefused(c) ==
    /\ CallAt(c, "note")
    /\ IF NoteTaken(c) THEN Loses ELSE UNCHANGED lost
    /\ GateStops(c)
    /\ UNCHANGED <<open, referred, tagged, gate, record, born, stayed, waived>>

GateWrite(c) ==
    /\ CallAt(c, "list")
    /\ gcall[c].todo = {}
    /\ gate' = TRUE
    /\ CallGoes(c, "run")
    /\ UNCHANGED <<open, referred, tagged, record, lost, born, stayed, waived>>

-----------------------------------------------------------------------------
(* The verbs. The runner adds a row and removes one that is closed.         *)

Add(c) ==
    /\ Running(c, "add")
    /\ TheRow(c) \notin open
    /\ open' = open \cup {TheRow(c)}
    /\ born' = [born EXCEPT ![TheRow(c)] = IF @ # "never" THEN @ ELSE IF gate THEN "late" ELSE "early"]
    /\ CallEnds(c)
    /\ UNCHANGED <<referred, tagged, gate, record, lost, stayed, waived>>

\* prdReferencesVerb on an open row with room; the runner writes the notes.
References(r) ==
    /\ r \in open
    /\ referred' = referred \cup {r}
    /\ UNCHANGED <<open, tagged, gate, record, gcall, lost, born, stayed, waived>>

Removes(r) ==
    /\ open' = open \ {r} /\ referred' = referred \ {r}
    /\ tagged' = tagged \ {r} /\ stayed' = stayed \ {r}

\* rowCloseCommitRecorded: origin/main after a fetch, in the parent or a submodule.
ClosedOnOrigin(r) == record[r] = "origin"

\* closeRecordRefusal passes a body with an event >= 1 and any commit, looked up
\* nowhere, and a premise refuted by a ledgered run.
NeedsNoRecord(c) == gcall[c].verb \in {"refuted", "event"}

\* closeReferenceRefusal, closeRecordRefusal.
MayForward(c) ==
    /\ MayClose(TheRow(c))
    /\ NeedsNoRecord(c) \/ ClosedOnOrigin(TheRow(c))

Forward(c) ==
    /\ CallAt(c, "run")
    /\ gcall[c].verb \in CloseVerbs
    /\ MayForward(c)
    /\ CallGoes(c, "sent")
    /\ UNCHANGED <<open, referred, tagged, gate, record, lost, born, stayed, waived>>

RunnerCloses(c) ==
    /\ CallAt(c, "sent")
    /\ IF TheRow(c) \in open
       THEN /\ Removes(TheRow(c))
            /\ waived' = IF NeedsNoRecord(c) THEN waived \cup {TheRow(c)} ELSE waived
       ELSE UNCHANGED <<open, referred, tagged, stayed, waived>>
    /\ CallEnds(c)
    /\ UNCHANGED <<gate, record, lost, born>>

Recorded(r) == record' = [record EXCEPT ![r] = IF @ = "none" THEN "tree" ELSE @]

\* selfSufficientPrdClose, its witness accepted, up to appendCloseRecord.
RecordClose(c) ==
    /\ Running(c, "evidence")
    /\ MayClose(TheRow(c))
    /\ Recorded(TheRow(c))
    /\ CallGoes(c, "unlink")
    /\ UNCHANGED <<open, referred, tagged, gate, lost, born, stayed, waived>>

\* closeRowPaths, rmSync, git add; the commit is awaited.
Unlink(c) ==
    /\ CallAt(c, "unlink")
    /\ Removes(TheRow(c))
    /\ CallGoes(c, "commit")
    /\ UNCHANGED <<gate, record, lost, born, waived>>

\* landCloseCommit; the record and the removal stay when it fails.
CommitClose(c) ==
    /\ CallAt(c, "commit")
    /\ \/ /\ record' = [record EXCEPT ![TheRow(c)] = IF @ = "tree" THEN "commit" ELSE @]
          /\ UNCHANGED lost
       \/ Loses /\ UNCHANGED record
    /\ CallEnds(c)
    /\ UNCHANGED <<open, referred, tagged, gate, born, stayed, waived>>

Answered(c) ==
    /\ \/ Running(c, "add") /\ TheRow(c) \in open
       \/ CallAt(c, "run") /\ gcall[c].verb \in CloseVerbs /\ ~MayForward(c)
       \/ Running(c, "evidence") \* closeWitnessRefusal too
    /\ CallEnds(c)
    /\ UNCHANGED <<open, referred, tagged, gate, record, lost, born, stayed, waived>>

\* The host ends a server: a close between two of its writes stays half done.
GateCrash(c) ==
    /\ Loses
    /\ gcall[c].at \notin {"idle", "done"}
    /\ CallEnds(c)
    /\ UNCHANGED <<open, referred, tagged, gate, record, born, stayed, waived>>

\* publish_on_origin lands a record; a pull brings the removal of its row.
Published(r) ==
    /\ born[r] # "never" /\ record[r] # "origin"
    /\ record' = [record EXCEPT ![r] = "origin"]
    /\ UNCHANGED <<open, referred, tagged, gate, gcall, lost, born, stayed, waived>>

Pulled(r) ==
    /\ ClosedOnOrigin(r) /\ r \in open
    /\ Removes(r)
    /\ UNCHANGED <<gate, record, gcall, lost, born, waived>>

GateStep(c) ==
    \/ GateAsk(c) \/ GateNext(c) \/ GateTag(c) \/ GateRefused(c)
    \/ GateWrite(c) \/ Add(c) \/ Forward(c) \/ RunnerCloses(c)
    \/ RecordClose(c) \/ Unlink(c) \/ CommitClose(c) \/ Answered(c) \/ GateCrash(c)

GateNextStep == (\E c \in GateCall : GateStep(c)) \/ (\E r \in Row : References(r) \/ Published(r) \/ Pulled(r))
GateSpec == GateInit /\ [][GateNextStep]_gateVars

-----------------------------------------------------------------------------
GateTypeOK ==
    /\ open \subseteq Row /\ referred \subseteq Row
    /\ tagged \subseteq Row /\ gate \in BOOLEAN /\ lost \in 0..MaxLost
    /\ record \in [Row -> {"none", "tree", "commit", "origin"}]
    /\ born \in [Row -> {"never", "early", "late"}] /\ stayed \subseteq FirstRows /\ waived \subseteq Row

(* The references gate divides the rows at the time its state file is       *)
(* written, whatever passes overlap, fail or are ended: a row id of a later *)
(* date is never exempt, and every readable row of the beginning is         *)
(* (ensureReferenceGate: "Tags each row that exists when the gate first     *)
(* runs ... Rows created later carry no such note and are gated").          *)
GateDividesRows ==
    /\ \A r \in tagged : born[r] = "early"
    /\ gate => stayed \subseteq tagged

(* A row that is gone has its line in closes/, or was closed by a call that *)
(* needs none - of a refuted premise, or with an event and a commit - at    *)
(* whatever point the server or the commit failed.                          *)
RowGoneIsRecorded ==
    \A r \in Row : born[r] # "never" /\ r \notin open => record[r] # "none" \/ r \in waived

(* The state is typed, the gate divides the rows by date, and a row that is  *)
(* gone is recorded.                                                         *)
CloseGateInv == GateTypeOK /\ GateDividesRows /\ RowGoneIsRecorded
================================================================================
