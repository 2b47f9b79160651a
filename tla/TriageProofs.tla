------------------------------ MODULE TriageProofs ------------------------------
(* For every value of the constants: theorems about files that several        *)
(* processes share, each with the invariant its steps keep.                   *)
(*   CloseGate: the references gate divides the rows by date, and a row that  *)
(*     is gone has its record. A pass of the gate answers for the rows that   *)
(*     were there when it listed them: each is tagged, or removed since, or   *)
(*     still in its list.                                                     *)
(*   Leases: a session that is attached keeps its lease and its sidecar, and  *)
(*     is seen by whoever judges it. A verdict drops a sidecar without a      *)
(*     lease, long after it looked; it is right to, because a lease is        *)
(*     written before the sidecars, so that only a server on its way out      *)
(*     leaves a sidecar without one.                                          *)
(*   TriageFiles: the queue keeps its rows and live requests stay. The queue  *)
(*     is kept because one call at a time is between its lock and its unlock, *)
(*     and what it read is still what is there; live requests stay because    *)
(*     none is in the list of what is moved.                                  *)
EXTENDS CloseGate, Leases, TriageFiles, TLAPS

-----------------------------------------------------------------------------
(* CloseGate.                                                                *)

StagesOfCall == {"idle", "list", "note", "run", "sent", "unlink", "commit", "done"}
Calls == [at : StagesOfCall, verb : CloseVerbs \cup {"none", "add", "evidence"},
          row : SUBSET Row, todo : SUBSET Row, note : SUBSET Row]

\* What a call in progress may rely on, when the rows are as given.
CallRests(v, st, tg, bo, re) ==
    /\ v \in Calls
    /\ v.at \notin {"idle", "done"} => \E r \in Row : v.row = {r}
    /\ \A r \in v.todo \cup v.note : bo[r] = "early"
    /\ v.at = "list" => st \subseteq tg \cup v.todo
    /\ v.at = "note" => st \subseteq tg \cup v.todo \cup v.note
    /\ v.at = "sent" /\ v.verb \notin {"refuted", "event"} => \A r \in v.row : re[r] # "none"
    /\ v.at \in {"unlink", "commit"} => \A r \in v.row : re[r] # "none"

CallOk(v) == CallRests(v, stayed, tagged, born, record)
NextOk(v) == CallRests(v, stayed', tagged', born', record')
CallsOk == gcall \in [GateCall -> Calls] /\ \A c \in GateCall : CallOk(gcall[c])

RowsBorn ==
    /\ \A r \in open : born[r] # "never"
    /\ ~gate => \A r \in Row : born[r] # "late"
    /\ stayed \subseteq open

GInv == GateTypeOK /\ RowsBorn /\ GateDividesRows /\ RowGoneIsRecorded /\ CallsOk

-----------------------------------------------------------------------------
\* What a call relies on survives the steps of others.
LEMMA OthersOk ==
    ASSUME GInv, NEW c \in GateCall, NEW v, gcall' = [gcall EXCEPT ![c] = v], NextOk(v),
           \A r \in Row : born[r] = "early" => born'[r] = "early",
           \A r \in Row : record[r] # "none" => record'[r] # "none",
           \A r \in stayed' : r \in stayed /\ (r \in tagged => r \in tagged')
    PROVE  CallsOk'
<1>1. v \in Calls /\ gcall' \in [GateCall -> Calls]
    BY DEF CallRests, NextOk, GInv, CallsOk
<1>2. ASSUME NEW d \in GateCall, d # c PROVE NextOk(gcall[d])
    <2> DEFINE u == gcall[d]
    <2>1. CallOk(u)
        BY DEF GInv, CallsOk
    <2> HIDE DEF u
    <2>2. u \in Calls /\ u.row \subseteq Row /\ u.todo \subseteq Row /\ u.note \subseteq Row
        BY <2>1 DEF CallOk, CallRests, Calls
    <2>3. \A r \in u.todo \cup u.note : born'[r] = "early"
        BY <2>1, <2>2 DEF CallOk, CallRests
    <2>4. \A r \in u.row : record[r] # "none" => record'[r] # "none"
        BY <2>2
    <2>5. /\ u.at = "list" => stayed' \subseteq tagged' \cup u.todo
          /\ u.at = "note" => stayed' \subseteq tagged' \cup u.todo \cup u.note
        BY <2>1 DEF CallOk, CallRests
    <2>6. /\ u.at = "sent" /\ u.verb \notin {"refuted", "event"} => \A r \in u.row : record'[r] # "none"
          /\ u.at \in {"unlink", "commit"} => \A r \in u.row : record'[r] # "none"
        BY <2>1, <2>4 DEF CallOk, CallRests
    <2>7. u.at \notin {"idle", "done"} => \E r \in Row : u.row = {r}
        BY <2>1 DEF CallOk, CallRests
    <2>8. NextOk(u)
        BY <2>2, <2>3, <2>5, <2>6, <2>7 DEF NextOk, CallRests
    <2> QED BY <2>8 DEF u
<1>3. ASSUME NEW d \in GateCall PROVE CallOk(gcall[d])'
    <2>1. CASE d = c
        <3>1. gcall'[d] = v
            BY <2>1 DEF GInv, CallsOk
        <3> QED BY <3>1 DEF CallOk, CallRests, NextOk
    <2>2. CASE d # c
        <3>1. gcall'[d] = gcall[d] /\ NextOk(gcall[d])
            BY <1>2, <2>2 DEF GInv, CallsOk
        <3> QED BY <3>1 DEF CallOk, CallRests, NextOk
    <2> QED BY <2>1, <2>2
<1> QED BY <1>1, <1>3 DEF CallsOk

LEMMA RowOfCall ==
    ASSUME GInv, NEW c \in GateCall, gcall[c].at \notin {"idle", "done"}
    PROVE  TheRow(c) \in Row /\ gcall[c].row = {TheRow(c)}
BY DEF GInv, CallsOk, CallOk, CallRests, TheRow

LEMMA StartsOk == GateInit => GInv
<1> SUFFICES ASSUME GateInit PROVE GInv
    OBVIOUS
<1> USE GateAssumption DEF GateInit, GateAssumption
<1>1. GateTypeOK
    <2>1. open \subseteq Row /\ referred \subseteq Row /\ tagged \subseteq Row /\ stayed \subseteq FirstRows
        OBVIOUS
    <2>2. gate \in BOOLEAN /\ waived \subseteq Row
        OBVIOUS
    <2>5. lost \in 0..MaxLost
        OBVIOUS
    <2>3. record \in [Row -> {"none", "tree", "commit", "origin"}]
        OBVIOUS
    <2>4. born \in [Row -> {"never", "early", "late"}]
        OBVIOUS
    <2> QED BY <2>1, <2>2, <2>3, <2>4, <2>5 DEF GateTypeOK
<1>2. RowsBorn /\ GateDividesRows /\ RowGoneIsRecorded
    BY DEF RowsBorn, GateDividesRows, RowGoneIsRecorded
<1>3. CallsOk
    BY DEF CallsOk, CallOk, CallRests, Calls, NoCall, CallOf, StagesOfCall, CloseVerbs
<1> QED BY <1>1, <1>2, <1>3 DEF GInv

-----------------------------------------------------------------------------
\* The passes of the gate.
LEMMA GateKeeps ==
    ASSUME GInv, NEW c \in GateCall,
           GateAsk(c) \/ GateNext(c) \/ GateTag(c) \/ GateRefused(c) \/ GateWrite(c)
    PROVE  GInv'
<1> DEFINE v == gcall[c]
<1>0. v \in Calls /\ CallOk(v) /\ gcall \in [GateCall -> Calls]
    BY DEF GInv, CallsOk
<1>a. GateTypeOK /\ RowsBorn /\ GateDividesRows /\ RowGoneIsRecorded
    BY DEF GInv
<1>1. CASE GateAsk(c)
    <2>1. PICK verb \in CloseVerbs \cup {"add", "evidence"}, r \in Row :
              gcall' = [gcall EXCEPT ![c] = IF GateMissing THEN CallOf("list", verb, {r}, open, {})
                                                           ELSE CallOf("run", verb, {r}, {}, {})]
        BY <1>1 DEF GateAsk
    <2> DEFINE todo == IF ~gate THEN open ELSE {}
               stage == IF ~gate THEN "list" ELSE "run"
               w == CallOf(stage, verb, {r}, todo, {})
    <2>2. gcall' = [gcall EXCEPT ![c] = w] /\ UNCHANGED <<open, referred, tagged, gate, record, lost, born, stayed, waived>>
        BY <1>1, <2>1 DEF GateAsk, GateMissing
    <2>3. todo \subseteq Row /\ \A s \in todo : born[s] = "early"
        BY <1>a DEF GateTypeOK, RowsBorn
    <2>4. stage = "list" => stayed \subseteq todo
        BY <1>a DEF RowsBorn
    <2>5. w = [at |-> stage, verb |-> verb, row |-> {r}, todo |-> todo, note |-> {}]
        BY DEF CallOf
    <2> HIDE DEF w, todo
    <2>6. CallOk(w)
        BY <2>3, <2>4, <2>5 DEF CallOk, CallRests, Calls, StagesOfCall, CloseVerbs
    <2>7. NextOk(w)
        BY <2>2, <2>6 DEF NextOk, CallOk, CallRests, Calls
    <2>8. CallsOk'
        BY <2>2, <2>7, OthersOk
    <2> QED BY <1>a, <2>2, <2>8 DEF GInv, GateTypeOK, RowsBorn, GateDividesRows, RowGoneIsRecorded
<1>2. CASE GateNext(c)
    <2>0. v.at = "list" /\ UNCHANGED <<open, referred, tagged, gate, record, lost, born, stayed, waived>>
        BY <1>2 DEF GateNext, CallAt
    <2>1. PICK r \in v.todo :
              LET sends == r \in open /\ r \notin tagged
              IN gcall' = [gcall EXCEPT ![c] = CallOf(IF sends THEN "note" ELSE "list", @.verb, @.row,
                                                      @.todo \ {r}, IF sends THEN {r} ELSE {})]
        BY <1>2 DEF GateNext
    <2> DEFINE sends == r \in open /\ r \notin tagged
               todo == v.todo \ {r}
               stage == IF sends THEN "note" ELSE "list"
               note == IF sends THEN {r} ELSE {}
               w == CallOf(stage, v.verb, v.row, todo, note)
    <2>2. gcall' = [gcall EXCEPT ![c] = w]
        BY <1>0, <2>1
    <2>3. w = [at |-> stage, verb |-> v.verb, row |-> v.row, todo |-> todo, note |-> note]
        BY DEF CallOf
    <2>4. /\ todo \subseteq Row /\ note \subseteq Row /\ stage \in {"note", "list"}
          /\ \A s \in todo \cup note : born[s] = "early"
        BY <1>0, <2>1 DEF CallOk, CallRests, Calls
    <2>5. /\ stage = "list" => stayed \subseteq tagged \cup todo
          /\ stage = "note" => stayed \subseteq tagged \cup todo \cup note
        BY <1>0, <1>a, <2>0 DEF CallOk, CallRests, RowsBorn
    <2> HIDE DEF w, todo, stage, note
    <2>6. CallOk(w)
        BY <1>0, <2>0, <2>3, <2>4, <2>5 DEF CallOk, CallRests, Calls, StagesOfCall
    <2>7. NextOk(w)
        BY <2>0, <2>6 DEF NextOk, CallOk, CallRests, Calls
    <2>8. CallsOk'
        BY <2>0, <2>2, <2>7, OthersOk
    <2> QED BY <1>a, <2>0, <2>8 DEF GInv, GateTypeOK, RowsBorn, GateDividesRows, RowGoneIsRecorded
<1>3. CASE GateTag(c)
    <2> DEFINE w == [v EXCEPT !.at = "list"]
    <2>0. /\ v.at = "note" /\ tagged' = tagged \cup v.note /\ gcall' = [gcall EXCEPT ![c] = w]
          /\ UNCHANGED <<open, referred, gate, record, lost, born, stayed, waived>>
        BY <1>0, <1>3 DEF GateTag, CallAt
    <2>1. w = [at |-> "list", verb |-> v.verb, row |-> v.row, todo |-> v.todo, note |-> v.note]
        BY <1>0 DEF Calls
    <2> HIDE DEF w
    <2>2. NextOk(w)
        BY <1>0, <2>0, <2>1 DEF NextOk, CallOk, CallRests, Calls, StagesOfCall
    <2>3. CallsOk'
        BY <2>0, <2>2, OthersOk
    <2>4. GateTypeOK' /\ GateDividesRows'
        BY <1>0, <1>a, <2>0 DEF GateTypeOK, GateDividesRows, CallOk, CallRests, Calls
    <2> QED BY <1>a, <2>0, <2>3, <2>4 DEF GInv, RowsBorn, RowGoneIsRecorded
<1>4. CASE GateRefused(c)
    <2> DEFINE w == CallOf("run", v.verb, v.row, {}, {})
    <2>0. /\ v.at = "note" /\ gcall' = [gcall EXCEPT ![c] = w]
          /\ UNCHANGED <<open, referred, tagged, gate, record, born, stayed, waived>>
        BY <1>0, <1>4 DEF GateRefused, GateStops, CallAt
    <2>1. w = [at |-> "run", verb |-> v.verb, row |-> v.row, todo |-> {}, note |-> {}]
        BY DEF CallOf
    <2> HIDE DEF w
    <2>2. NextOk(w)
        BY <1>0, <2>0, <2>1 DEF NextOk, CallOk, CallRests, Calls, StagesOfCall
    <2>3. CallsOk'
        BY <2>0, <2>2, OthersOk
    <2>4. lost' \in 0..MaxLost
        BY <1>4, <1>a, GateAssumption DEF GateRefused, Loses, GateTypeOK
    <2> QED BY <1>a, <2>0, <2>3, <2>4 DEF GInv, GateTypeOK, RowsBorn, GateDividesRows, RowGoneIsRecorded
<1>5. CASE GateWrite(c)
    <2> DEFINE w == [v EXCEPT !.at = "run"]
    <2>0. /\ v.at = "list" /\ v.todo = {} /\ gate' = TRUE /\ gcall' = [gcall EXCEPT ![c] = w]
          /\ UNCHANGED <<open, referred, tagged, record, lost, born, stayed, waived>>
        BY <1>0, <1>5 DEF GateWrite, CallAt, CallGoes
    <2>1. w = [at |-> "run", verb |-> v.verb, row |-> v.row, todo |-> v.todo, note |-> v.note]
        BY <1>0 DEF Calls
    <2> HIDE DEF w
    <2>2. NextOk(w)
        BY <1>0, <2>0, <2>1 DEF NextOk, CallOk, CallRests, Calls, StagesOfCall
    <2>3. CallsOk'
        BY <2>0, <2>2, OthersOk
    <2>4. GateDividesRows'
        BY <1>0, <1>a, <2>0 DEF GateDividesRows, CallOk, CallRests
    <2> QED BY <1>a, <2>0, <2>3, <2>4 DEF GInv, GateTypeOK, RowsBorn, RowGoneIsRecorded
<1> QED BY <1>1, <1>2, <1>3, <1>4, <1>5

-----------------------------------------------------------------------------
\* A row is removed, with a record or by a call that needs none.
LEMMA RemovalKeeps ==
    ASSUME GInv, NEW r \in Row, Removes(r), UNCHANGED <<gate, record, born>>,
           waived' \in {waived, waived \cup {r}}, record[r] # "none" \/ r \in waived', lost' = lost
    PROVE  GateTypeOK' /\ RowsBorn' /\ GateDividesRows' /\ RowGoneIsRecorded'
<1>1. GateTypeOK'
    BY DEF GInv, GateTypeOK, Removes
<1>2. RowsBorn'
    BY DEF GInv, RowsBorn, Removes
<1>3. GateDividesRows'
    BY DEF GInv, GateDividesRows, Removes
<1>4. RowGoneIsRecorded'
    BY DEF GInv, RowGoneIsRecorded, Removes
<1> QED BY <1>1, <1>2, <1>3, <1>4

\* The end of a call asks for nothing.
LEMMA EndedOk == NoCall("done") \in Calls /\ NextOk(NoCall("done"))
BY DEF NoCall, CallOf, Calls, StagesOfCall, NextOk, CallRests, CloseVerbs

\* The verbs that add and close.
LEMMA VerbsKeep ==
    ASSUME GInv, NEW c \in GateCall,
           \/ Add(c) \/ Forward(c) \/ RunnerCloses(c) \/ RecordClose(c) \/ Unlink(c)
           \/ CommitClose(c) \/ Answered(c) \/ GateCrash(c)
    PROVE  GInv'
<1> DEFINE v == gcall[c]
           r == TheRow(c)
           over == NoCall("done")
<1>0. v \in Calls /\ CallOk(v) /\ gcall \in [GateCall -> Calls]
    BY DEF GInv, CallsOk
<1>a. GateTypeOK /\ RowsBorn /\ GateDividesRows /\ RowGoneIsRecorded
    BY DEF GInv
<1>b. v.at \notin {"idle", "done"} => r \in Row /\ v.row = {r}
    BY RowOfCall
<1>c. NextOk(over)
    BY EndedOk
<1> HIDE DEF r, over
<1>1. CASE Add(c)
    <2>0. /\ v.at = "run" /\ open' = open \cup {r} /\ gcall' = [gcall EXCEPT ![c] = over] /\ r \notin open
          /\ born' = [born EXCEPT ![r] = IF born[r] # "never" THEN born[r] ELSE IF gate THEN "late" ELSE "early"]
          /\ UNCHANGED <<referred, tagged, gate, record, lost, stayed, waived>>
        BY <1>1 DEF Add, Running, CallAt, CallEnds, r, over
    <2>1. /\ \A s \in Row : born[s] # "never" => born'[s] = born[s]
          /\ born'[r] # "never" /\ (~gate => born'[r] # "late")
          /\ \A s \in Row : s # r => born'[s] = born[s]
          /\ born' \in [Row -> {"never", "early", "late"}]
        BY <1>a, <1>b, <2>0 DEF GateTypeOK, RowsBorn
    <2>2. CallsOk'
        BY <1>c, <2>0, <2>1, OthersOk
    <2>3. GateTypeOK'
        BY <1>a, <1>b, <2>0, <2>1 DEF GateTypeOK
    <2>4. RowsBorn'
        BY <1>a, <1>b, <2>0, <2>1 DEF RowsBorn, GateTypeOK
    <2>5. GateDividesRows' /\ RowGoneIsRecorded'
        BY <1>a, <1>b, <2>0, <2>1 DEF GateDividesRows, RowGoneIsRecorded, GateTypeOK
    <2> QED BY <2>2, <2>3, <2>4, <2>5 DEF GInv
<1>2. CASE Forward(c)
    <2> DEFINE w == [v EXCEPT !.at = "sent"]
    <2>0. /\ v.at = "run" /\ MayForward(c) /\ gcall' = [gcall EXCEPT ![c] = w]
          /\ UNCHANGED <<open, referred, tagged, gate, record, lost, born, stayed, waived>>
        BY <1>0, <1>2 DEF Forward, CallAt, CallGoes
    <2>1. w = [at |-> "sent", verb |-> v.verb, row |-> v.row, todo |-> v.todo, note |-> v.note]
        BY <1>0 DEF Calls
    <2>2. v.verb \in {"refuted", "event"} \/ record[r] # "none"
        BY <2>0 DEF MayForward, NeedsNoRecord, ClosedOnOrigin, r
    <2> HIDE DEF w
    <2>3. NextOk(w)
        BY <1>0, <1>b, <2>0, <2>1, <2>2 DEF NextOk, CallOk, CallRests, Calls, StagesOfCall
    <2>4. CallsOk'
        BY <2>0, <2>3, OthersOk
    <2> QED BY <1>a, <2>0, <2>4 DEF GInv, GateTypeOK, RowsBorn, GateDividesRows, RowGoneIsRecorded
<1>3. CASE RunnerCloses(c)
    <2>0. v.at = "sent" /\ gcall' = [gcall EXCEPT ![c] = over] /\ UNCHANGED <<gate, record, lost, born>>
        BY <1>3 DEF RunnerCloses, CallAt, CallEnds, over
    <2>1. CASE r \in open
        <3>1. Removes(r) /\ waived' = IF v.verb \in {"refuted", "event"} THEN waived \cup {r} ELSE waived
            BY <1>3, <2>1 DEF RunnerCloses, NeedsNoRecord, r
        <3>2. record[r] # "none" \/ r \in waived'
            BY <1>0, <1>b, <2>0, <3>1 DEF CallOk, CallRests
        <3>3. GateTypeOK' /\ RowsBorn' /\ GateDividesRows' /\ RowGoneIsRecorded'
            BY <1>b, <2>0, <3>1, <3>2, RemovalKeeps
        <3>4. CallsOk'
            BY <1>c, <2>0, <3>1, OthersOk DEF Removes
        <3> QED BY <3>3, <3>4 DEF GInv
    <2>2. CASE r \notin open
        <3>1. UNCHANGED <<open, referred, tagged, stayed, waived>>
            BY <1>3, <2>2 DEF RunnerCloses, r
        <3>2. CallsOk'
            BY <1>c, <2>0, <3>1, OthersOk
        <3> QED BY <1>a, <2>0, <3>1, <3>2 DEF GInv, GateTypeOK, RowsBorn, GateDividesRows, RowGoneIsRecorded
    <2> QED BY <2>1, <2>2
<1>4. CASE RecordClose(c)
    <2> DEFINE w == [v EXCEPT !.at = "unlink"]
    <2>0. /\ v.at = "run" /\ gcall' = [gcall EXCEPT ![c] = w]
          /\ record' = [record EXCEPT ![r] = IF record[r] = "none" THEN "tree" ELSE record[r]]
          /\ UNCHANGED <<open, referred, tagged, gate, lost, born, stayed, waived>>
        BY <1>0, <1>4 DEF RecordClose, Running, CallAt, CallGoes, Recorded, r
    <2>1. w = [at |-> "unlink", verb |-> v.verb, row |-> v.row, todo |-> v.todo, note |-> v.note]
        BY <1>0 DEF Calls
    <2>2. /\ record' \in [Row -> {"none", "tree", "commit", "origin"}] /\ record'[r] # "none"
          /\ \A s \in Row : record[s] # "none" => record'[s] # "none"
        BY <1>a, <1>b, <2>0 DEF GateTypeOK
    <2> HIDE DEF w
    <2>3. NextOk(w)
        BY <1>0, <1>b, <2>0, <2>1, <2>2 DEF NextOk, CallOk, CallRests, Calls, StagesOfCall
    <2>4. CallsOk'
        BY <2>0, <2>2, <2>3, OthersOk
    <2> QED BY <1>a, <2>0, <2>2, <2>4 DEF GInv, GateTypeOK, RowsBorn, GateDividesRows, RowGoneIsRecorded
<1>5. CASE Unlink(c)
    <2> DEFINE w == [v EXCEPT !.at = "commit"]
    <2>0. /\ v.at = "unlink" /\ gcall' = [gcall EXCEPT ![c] = w] /\ Removes(r)
          /\ UNCHANGED <<gate, record, lost, born, waived>>
        BY <1>0, <1>5 DEF Unlink, CallAt, CallGoes, r
    <2>1. w = [at |-> "commit", verb |-> v.verb, row |-> v.row, todo |-> v.todo, note |-> v.note]
        BY <1>0 DEF Calls
    <2>2. record[r] # "none" /\ r \in Row
        BY <1>0, <1>b, <2>0 DEF CallOk, CallRests
    <2> HIDE DEF w
    <2>3. NextOk(w)
        BY <1>0, <1>b, <2>0, <2>1, <2>2 DEF NextOk, CallOk, CallRests, Calls, StagesOfCall
    <2>4. CallsOk'
        BY <2>0, <2>3, OthersOk DEF Removes
    <2>5. GateTypeOK' /\ RowsBorn' /\ GateDividesRows' /\ RowGoneIsRecorded'
        BY <2>0, <2>2, RemovalKeeps
    <2> QED BY <2>4, <2>5 DEF GInv
<1>6. CASE CommitClose(c)
    <2>0. /\ v.at = "commit" /\ gcall' = [gcall EXCEPT ![c] = over]
          /\ UNCHANGED <<open, referred, tagged, gate, born, stayed, waived>>
        BY <1>6 DEF CommitClose, CallAt, CallEnds, over
    <2>1. /\ record' \in [Row -> {"none", "tree", "commit", "origin"}] /\ lost' \in 0..MaxLost
          /\ \A s \in Row : record[s] # "none" => record'[s] # "none"
        <3>1. CASE record' = [record EXCEPT ![r] = IF record[r] = "tree" THEN "commit" ELSE record[r]] /\ UNCHANGED lost
            BY <1>a, <1>b, <2>0, <3>1 DEF GateTypeOK
        <3>2. CASE Loses /\ UNCHANGED record
            BY <1>a, <3>2, GateAssumption DEF GateTypeOK, Loses
        <3> QED BY <1>6, <3>1, <3>2 DEF CommitClose, r
    <2>2. CallsOk'
        BY <1>c, <2>0, <2>1, OthersOk
    <2> QED BY <1>a, <2>0, <2>1, <2>2 DEF GInv, GateTypeOK, RowsBorn, GateDividesRows, RowGoneIsRecorded
<1>7. CASE Answered(c)
    <2>0. gcall' = [gcall EXCEPT ![c] = over] /\ UNCHANGED <<open, referred, tagged, gate, record, lost, born, stayed, waived>>
        BY <1>7 DEF Answered, CallEnds, over
    <2>1. CallsOk'
        BY <1>c, <2>0, OthersOk
    <2> QED BY <1>a, <2>0, <2>1 DEF GInv, GateTypeOK, RowsBorn, GateDividesRows, RowGoneIsRecorded
<1>8. CASE GateCrash(c)
    <2>0. gcall' = [gcall EXCEPT ![c] = over] /\ UNCHANGED <<open, referred, tagged, gate, record, born, stayed, waived>>
        BY <1>8 DEF GateCrash, CallEnds, over
    <2>1. CallsOk'
        BY <1>c, <2>0, OthersOk
    <2>2. lost' \in 0..MaxLost
        BY <1>8, <1>a, GateAssumption DEF GateCrash, Loses, GateTypeOK
    <2> QED BY <1>a, <2>0, <2>1, <2>2 DEF GInv, GateTypeOK, RowsBorn, GateDividesRows, RowGoneIsRecorded
<1> QED BY <1>1, <1>2, <1>3, <1>4, <1>5, <1>6, <1>7, <1>8

-----------------------------------------------------------------------------
\* References, publication and pulls, which no call waits for.
LEMMA RowsKeep ==
    ASSUME GInv, NEW r \in Row, References(r) \/ Published(r) \/ Pulled(r)
    PROVE  GInv'
<1>a. GateTypeOK /\ RowsBorn /\ GateDividesRows /\ RowGoneIsRecorded /\ CallsOk
    BY DEF GInv
<1>b. ASSUME UNCHANGED <<gcall, born>>, \A s \in Row : record[s] # "none" => record'[s] # "none",
             \A s \in stayed' : s \in stayed /\ (s \in tagged => s \in tagged')
      PROVE  CallsOk'
    BY <1>a, <1>b DEF CallsOk, CallOk, CallRests, Calls
<1>1. CASE References(r)
    <2>1. CallsOk'
        BY <1>1, <1>b DEF References
    <2> QED BY <1>1, <1>a, <2>1 DEF References, GInv, GateTypeOK, RowsBorn, GateDividesRows, RowGoneIsRecorded
<1>2. CASE Published(r)
    <2>1. /\ record' \in [Row -> {"none", "tree", "commit", "origin"}]
          /\ \A s \in Row : record[s] # "none" => record'[s] # "none"
        BY <1>2, <1>a DEF Published, GateTypeOK
    <2>2. CallsOk'
        BY <1>2, <1>b, <2>1 DEF Published
    <2> QED BY <1>2, <1>a, <2>1, <2>2 DEF Published, GInv, GateTypeOK, RowsBorn, GateDividesRows, RowGoneIsRecorded
<1>3. CASE Pulled(r)
    <2>1. CallsOk'
        BY <1>3, <1>b DEF Pulled, Removes
    <2>2. GateTypeOK' /\ RowsBorn' /\ GateDividesRows' /\ RowGoneIsRecorded'
        BY <1>3, RemovalKeeps DEF Pulled, ClosedOnOrigin
    <2> QED BY <2>1, <2>2 DEF GInv
<1> QED BY <1>1, <1>2, <1>3

(* However calls, passes of the gate, failures and pulls interleave: the     *)
(* gate exempts the rows of the beginning and no later one (ensureReferenceGate), *)
(* and a row is gone only with a line in closes/, or by a close that          *)
(* closeRecordRefusal lets by without one.                                    *)
THEOREM GateKeepsRows == GateSpec => []CloseGateInv
<1>1. GInv /\ [GateNextStep]_gateVars => GInv'
    <2>1. GInv /\ GateNextStep => GInv'
        BY GateKeeps, VerbsKeep, RowsKeep DEF GateNextStep, GateStep
    <2>2. GInv /\ UNCHANGED gateVars => GInv'
        BY DEF gateVars, GInv, GateTypeOK, RowsBorn, GateDividesRows, RowGoneIsRecorded, CallsOk, CallOk, CallRests, Calls
    <2> QED BY <2>1, <2>2
<1>2. GInv => CloseGateInv
    BY DEF GInv, CloseGateInv
<1> QED BY <1>1, <1>2, StartsOk, PTL DEF GateSpec

-----------------------------------------------------------------------------
(* Leases.                                                                   *)

File == Srv \X Sess

Verdicts == [at : {"rest", "check", "drop", "judged"}, owner : Sess \cup {"none"},
             todo : SUBSET File, drop : SUBSET File, live : SUBSET Srv,
             known : BOOLEAN, blind : BOOLEAN, mismatch : BOOLEAN, steady : SUBSET Srv]

Typed ==
    /\ running \subseteq Srv /\ ended \subseteq Srv /\ running \cap ended = {}
    /\ leaseOf \subseteq Srv /\ sidecar \subseteq File /\ attached \subseteq File
    /\ attach \in [Srv -> [at : {"rest", "first", "second", "leaving"}, session : Sess \cup {"none"}]]
    /\ asks \in [Srv -> Verdicts]

\* On its way out: it attaches no more.
Leaving(p) == p \in ended \/ attach[p].at = "leaving"

Attaching ==
    \A p \in Srv :
        /\ attach[p].at # "rest" => p \in running
        /\ attach[p].at \in {"first", "second"} => attach[p].session \in Sess
        /\ attach[p].at = "second" => p \in leaseOf

\* Only a server on its way out has a sidecar and no lease.
Leased(f) == f[1] \in leaseOf \/ Leaving(f[1])
SidecarsLeased ==
    /\ \A f \in sidecar : Leased(f)
    /\ \A q \in Srv : /\ \A f \in asks[q].todo : Leased(f)
                      /\ \A f \in asks[q].drop : Leaving(f[1])

AttachedRuns == \A f \in attached : f[1] \in running /\ ~Leaving(f[1]) /\ f[1] \in leaseOf /\ f \in sidecar

\* A steady server is attached to the owner, and has been counted or will be.
Counted(v) ==
    /\ \A p \in v.steady : v.owner \in Sess /\ <<p, v.owner>> \in attached
    /\ v.at \in {"check", "drop"} /\ v.known /\ ~v.blind => \A p \in v.steady : p \in v.live \/ <<p, v.owner>> \in v.todo
    /\ v.at = "judged" /\ v.steady # {} /\ ~v.blind => v.mismatch

SteadyCounted == \A q \in Srv : Counted(asks[q])

LInv == Typed /\ Attaching /\ SidecarsLeased /\ AttachedRuns /\ SteadyCounted

-----------------------------------------------------------------------------
\* One verdict moves on, with nothing in its lists that it should not drop or
\* must yet count.
LEMMA VerdictMoves ==
    ASSUME LInv, NEW q \in Srv, NEW v \in Verdicts,
           asks' = [asks EXCEPT ![q] = v],
           UNCHANGED <<running, ended, leaseOf, attach, attached>>,
           sidecar' \subseteq sidecar, \A f \in attached : f \in sidecar',
           \A f \in v.todo : Leased(f), \A f \in v.drop : Leaving(f[1]), Counted(v)
    PROVE  LInv'
<1>1. Typed'
    BY DEF LInv, Typed
<1>2. Attaching' /\ AttachedRuns'
    BY DEF LInv, Typed, Attaching, AttachedRuns, Leaving
<1>3. SidecarsLeased'
    BY DEF LInv, Typed, SidecarsLeased, Leased, Leaving
<1>4. SteadyCounted'
    BY DEF LInv, Typed, SteadyCounted, Counted
<1> QED BY <1>1, <1>2, <1>3, <1>4 DEF LInv

\* The steps of a verdict.
LEMMA VerdictsKeep ==
    ASSUME LInv, NEW q \in Srv,
           \/ DropsSidecar(q) \/ Judges(q) \/ Replies(q)
           \/ \E s \in Sess : AsksFor(q, s)
           \/ \E f \in File : ChecksSidecar(q, f)
    PROVE  LInv'
<1> DEFINE v == asks[q]
<1>0. /\ v \in Verdicts /\ Counted(v)
      /\ \A f \in v.todo : Leased(f)
      /\ \A f \in v.drop : Leaving(f[1])
      /\ asks \in [Srv -> Verdicts] /\ sidecar \subseteq File
    BY DEF LInv, Typed, SteadyCounted, SidecarsLeased
<1>a. \A f \in attached : f \in sidecar /\ f[1] \in leaseOf /\ ~Leaving(f[1]) /\ f[1] \in running
    BY DEF LInv, AttachedRuns
<1>b. NoVerdict \in Verdicts /\ Counted(NoVerdict) /\ NoVerdict.todo = {} /\ NoVerdict.drop = {}
    BY DEF NoVerdict, Verdicts, Counted
<1>1. CASE DropsSidecar(q)
    <2> DEFINE w == [v EXCEPT !.at = "check", !.drop = {}]
    <2>1. asks' = [asks EXCEPT ![q] = w]
        BY <1>0, <1>1 DEF DropsSidecar
    <2>2. w \in Verdicts /\ w.todo = v.todo /\ w.drop = {}
        BY <1>0 DEF Verdicts
    <2>3. Counted(w)
        BY <1>0, <1>1 DEF Counted, Verdicts, DropsSidecar
    <2>4. sidecar' \subseteq sidecar /\ \A f \in attached : f \in sidecar'
        BY <1>0, <1>1, <1>a DEF DropsSidecar
    <2> HIDE DEF w
    <2> QED BY <1>0, <1>1, <2>1, <2>2, <2>3, <2>4, VerdictMoves DEF DropsSidecar
<1>2. CASE Judges(q)
    <2> DEFINE w == [v EXCEPT !.at = "judged", !.mismatch = ~v.known \/ v.live # {}]
    <2>1. asks' = [asks EXCEPT ![q] = w]
        BY <1>0, <1>2 DEF Judges
    <2>2. w \in Verdicts /\ w.todo = v.todo /\ w.drop = v.drop
        BY <1>0 DEF Verdicts
    <2>3. Counted(w)
        BY <1>0, <1>2 DEF Counted, Verdicts, Judges
    <2> HIDE DEF w
    <2> QED BY <1>0, <1>2, <1>a, <2>1, <2>2, <2>3, VerdictMoves DEF Judges
<1>3. CASE Replies(q)
    BY <1>3, <1>a, <1>b, VerdictMoves DEF Replies
<1>4. ASSUME NEW s \in Sess, AsksFor(q, s) PROVE LInv'
    <2>1. PICK known \in BOOLEAN :
             asks' = [asks EXCEPT ![q] = [NoVerdict EXCEPT
                      !.at = "check", !.owner = s, !.known = known,
                      !.todo = IF known THEN sidecar ELSE {},
                      !.steady = {f[1] : f \in {g \in attached : g[2] = s}}]]
        BY <1>4 DEF AsksFor
    <2> DEFINE steady == {f[1] : f \in {g \in attached : g[2] = s}}
               todo == IF known THEN sidecar ELSE {}
               w == [NoVerdict EXCEPT !.at = "check", !.owner = s, !.known = known, !.todo = todo, !.steady = steady]
    <2>2. attached \subseteq File /\ todo \subseteq File
        BY <1>0 DEF LInv, Typed
    <2>3. steady \subseteq Srv /\ \A p \in steady : <<p, s>> \in attached
        BY <2>2 DEF File
    <2>4. w \in Verdicts /\ w.todo = todo /\ w.drop = {} /\ w.steady = steady /\ w.owner = s /\ w.known = known /\ w.at = "check"
        BY <2>2, <2>3 DEF Verdicts, NoVerdict
    <2>5. Counted(w)
        BY <2>3, <2>4, <1>a DEF Counted
    <2>6. \A f \in w.todo : Leased(f)
        BY <2>4 DEF LInv, SidecarsLeased
    <2>7. asks' = [asks EXCEPT ![q] = w]
        BY <2>1
    <2>8. UNCHANGED <<running, ended, leaseOf, sidecar, attach, attached>>
        BY <1>4 DEF AsksFor
    <2> HIDE DEF w
    <2> QED BY <1>a, <2>4, <2>5, <2>6, <2>7, <2>8, VerdictMoves
<1>5. ASSUME NEW f \in File, ChecksSidecar(q, f) PROVE LInv'
    <2>1. UNCHANGED <<running, ended, leaseOf, sidecar, attach, attached>> /\ v.at = "check" /\ f \in v.todo
        BY <1>5 DEF ChecksSidecar
    <2> DEFINE counts == f \in SidecarsOf(v.owner) /\ f[1] \in running
               live == IF counts THEN v.live \cup {f[1]} ELSE v.live
               blind == v.blind \/ f \in sidecar
    <2>2. CASE f[1] \notin leaseOf /\ asks' = [asks EXCEPT ![q].at = "drop", ![q].drop = {f}, ![q].todo = @ \ {f}]
        <3> DEFINE w == [v EXCEPT !.at = "drop", !.drop = {f}, !.todo = v.todo \ {f}]
        <3>1. asks' = [asks EXCEPT ![q] = w]
            BY <1>0, <2>2
        <3>2. w \in Verdicts /\ w.todo = v.todo \ {f} /\ w.drop = {f}
            BY <1>0 DEF Verdicts
        <3>3. Leaving(f[1]) /\ f \notin attached
            BY <1>0, <1>a, <2>1, <2>2 DEF Leased
        <3>4. Counted(w)
            BY <1>0, <2>1, <3>3 DEF Counted, Verdicts
        <3> HIDE DEF w
        <3> QED BY <1>0, <1>a, <2>1, <3>1, <3>2, <3>3, <3>4, VerdictMoves
    <2>3. CASE asks' = [asks EXCEPT ![q].todo = @ \ {f}, ![q].live = live]
        <3> DEFINE w == [v EXCEPT !.todo = v.todo \ {f}, !.live = live]
        <3>1. asks' = [asks EXCEPT ![q] = w]
            BY <1>0, <2>3
        <3>2. live \subseteq Srv /\ v.live \subseteq live
            BY <1>0 DEF Verdicts, File
        <3>3. f \in attached /\ f[2] = v.owner => f[1] \in live
            BY <1>a DEF SidecarsOf
        <3> HIDE DEF live
        <3>4. w \in Verdicts /\ w.todo = v.todo \ {f} /\ w.drop = v.drop /\ w.live = live
                /\ w.steady = v.steady /\ w.at = "check" /\ w.known = v.known /\ w.owner = v.owner
                /\ w.blind = v.blind
            BY <1>0, <2>1, <3>2 DEF Verdicts
        <3> HIDE DEF w
        <3>5. Counted(w)
            BY <1>0, <2>1, <3>2, <3>3, <3>4 DEF Counted
        <3> QED BY <1>0, <1>a, <2>1, <3>1, <3>4, <3>5, VerdictMoves
    <2>4. CASE asks' = [asks EXCEPT ![q].todo = @ \ {f}, ![q].blind = blind]
        <3> DEFINE w == [v EXCEPT !.todo = v.todo \ {f}, !.blind = blind]
        <3>1. asks' = [asks EXCEPT ![q] = w]
            BY <1>0, <2>4
        <3>2. f \in attached => blind
            BY <1>a
        <3> HIDE DEF live
        <3>3. w \in Verdicts /\ w.todo = v.todo \ {f} /\ w.drop = v.drop /\ w.live = v.live
                /\ w.steady = v.steady /\ w.at = "check" /\ w.known = v.known /\ w.owner = v.owner
                /\ w.blind = blind
            BY <1>0, <2>1 DEF Verdicts
        <3>4. v.blind => blind
            OBVIOUS
        <3> HIDE DEF w, blind
        <3>5. Counted(w)
            BY <1>0, <2>1, <3>2, <3>3, <3>4 DEF Counted
        <3> QED BY <1>0, <1>a, <2>1, <3>1, <3>3, <3>5, VerdictMoves
    <2> QED BY <1>5, <2>2, <2>3, <2>4 DEF ChecksSidecar
<1> QED BY <1>1, <1>2, <1>3, <1>4, <1>5

-----------------------------------------------------------------------------
\* The steps of servers: they start and attach.
LEMMA ServersKeep ==
    ASSUME LInv, NEW p \in Srv,
           \/ ServerStarts(p) \/ DropsLease(p) \/ WritesLease(p) \/ ReleasesLease(p)
           \/ \E s \in Sess : Ensures(p, s)
    PROVE  LInv'
<1> USE DEF LInv, Typed, Attaching, SidecarsLeased, AttachedRuns, SteadyCounted, Counted, Leased, Leaving
<1>1. CASE ServerStarts(p)
    BY <1>1 DEF ServerStarts
<1>2. CASE DropsLease(p)
    BY <1>2 DEF DropsLease
<1>3. CASE WritesLease(p)
    <2>1. Typed'
        BY <1>3 DEF WritesLease, FileAt, Unattached, File
    <2>2. Attaching'
        BY <1>3 DEF WritesLease, FileAt, Unattached, File
    <2>3. SidecarsLeased'
        BY <1>3 DEF WritesLease, FileAt, Unattached, File
    <2>4. AttachedRuns'
        BY <1>3 DEF WritesLease, FileAt, Unattached, File
    <2>5. SteadyCounted'
        BY <1>3 DEF WritesLease, FileAt, Unattached, File
    <2> QED BY <2>1, <2>2, <2>3, <2>4, <2>5
<1>4. ASSUME NEW s \in Sess, Ensures(p, s) PROVE LInv'
    BY <1>4 DEF Ensures
<1>5. CASE ReleasesLease(p)
    <2>0. p \in running /\ Leaving(p) /\ UNCHANGED <<asks, attached>> /\ \A f \in attached : f[1] # p
        BY <1>5 DEF ReleasesLease
    <2>1. CASE p \in leaseOf /\ leaseOf' = leaseOf \ {p} /\ UNCHANGED <<running, ended, sidecar, attach>>
        <3>1. Typed' /\ Attaching' /\ SteadyCounted'
            BY <1>5, <2>0, <2>1 DEF ReleasesLease
        <3>2. SidecarsLeased'
            BY <2>0, <2>1 DEF File
        <3>3. AttachedRuns'
            BY <2>0, <2>1 DEF File
        <3> QED BY <3>1, <3>2, <3>3
    <2>2. CASE \E f \in sidecar : f[1] = p /\ sidecar' = sidecar \ {f} /\ UNCHANGED <<running, ended, leaseOf, attach>>
        <3>1. Typed' /\ Attaching' /\ SteadyCounted'
            BY <2>0, <2>2
        <3>2. SidecarsLeased'
            BY <2>0, <2>2
        <3>3. AttachedRuns'
            BY <2>0, <2>2
        <3> QED BY <3>1, <3>2, <3>3
    <2>3. CASE /\ running' = running \ {p} /\ ended' = ended \cup {p}
               /\ attach' = [attach EXCEPT ![p] = Unattached]
               /\ UNCHANGED <<leaseOf, sidecar>>
        <3>1. Typed' /\ Attaching' /\ SteadyCounted'
            BY <2>0, <2>3 DEF Unattached
        <3>2. \A r \in Srv : /\ Leaving(r) => Leaving(r)'
                             /\ r # p => Leaving(r)' = Leaving(r) /\ (r \in running' <=> r \in running)
            BY <2>0, <2>3 DEF Unattached
        <3>3. SidecarsLeased'
            BY <2>0, <2>3, <3>2 DEF File
        <3>4. AttachedRuns'
            BY <2>0, <2>3, <3>2 DEF File
        <3> QED BY <3>1, <3>3, <3>4
    <2> QED BY <1>5, <2>1, <2>2, <2>3 DEF ReleasesLease
<1> QED BY <1>1, <1>2, <1>3, <1>4, <1>5

\* The ends of servers: what they had attached no longer counts.
LEMMA EndsKeep ==
    ASSUME LInv, NEW p \in Srv, Crashes(p) \/ ExitsIdle(p)
    PROVE  LInv'
<1> DEFINE forgot(q) == IF q = p THEN NoVerdict ELSE [asks[q] EXCEPT !.steady = @ \ {p}]
<1>0. asks \in [Srv -> Verdicts] /\ \A q \in Srv : Counted(asks[q])
    BY DEF LInv, Typed, SteadyCounted
<1>1. /\ asks' = [q \in Srv |-> forgot(q)]
      /\ attached' = {f \in attached : f[1] # p}
      /\ UNCHANGED <<leaseOf, sidecar>>
    BY DEF Crashes, ExitsIdle, Forgets
<1>2. ASSUME NEW q \in Srv
      PROVE  /\ forgot(q) \in Verdicts /\ forgot(q).todo \subseteq asks[q].todo /\ forgot(q).drop \subseteq asks[q].drop
             /\ p \notin forgot(q).steady
             /\ q # p => forgot(q) = [asks[q] EXCEPT !.steady = @ \ {p}]
             /\ Counted(forgot(q))
    BY <1>0 DEF Verdicts, NoVerdict, Counted
<1> HIDE DEF forgot
<1>3. SteadyCounted'
    BY <1>0, <1>1, <1>2 DEF SteadyCounted, Counted
<1>4. (asks \in [Srv -> Verdicts])'
    BY <1>1, <1>2
<1>5. Typed'
    BY <1>1, <1>4 DEF LInv, Typed, Crashes, ExitsIdle, Unattached
<1>6. Attaching'
    BY <1>1 DEF LInv, Typed, Attaching, Crashes, ExitsIdle, Unattached
<1>7. \A r \in Srv : /\ Leaving(r) => Leaving(r)'
                     /\ r # p => Leaving(r)' = Leaving(r) /\ (r \in running' <=> r \in running)
    BY DEF LInv, Typed, Leaving, Crashes, ExitsIdle, Unattached, Attaching
<1>8. AttachedRuns'
    BY <1>1, <1>7 DEF LInv, Typed, AttachedRuns, File
<1>9. SidecarsLeased'
    BY <1>1, <1>2, <1>7, <1>0 DEF LInv, Typed, SidecarsLeased, Leased, File, Verdicts
<1> QED BY <1>3, <1>5, <1>6, <1>8, <1>9 DEF LInv

(* A session that dispatched through a server that runs keeps its lease and  *)
(* its sidecar, and a verdict on it sees that its owner is there.            *)
THEOREM LeasesKeep == LeasesSpec => []LeasesInv
<1>1. LeasesInit => LInv
    BY DEF LeasesInit, LInv, Typed, Attaching, SidecarsLeased, AttachedRuns, SteadyCounted, Counted,
           Verdicts, Leased, Leaving, File, Unattached, NoVerdict
<1>2. LInv /\ [LeasesNext]_leaseVars => LInv'
    <2>1. LInv /\ LeasesNext => LInv'
        BY ServersKeep, EndsKeep, VerdictsKeep DEF LeasesNext, File
    <2>2. LInv /\ UNCHANGED leaseVars => LInv'
        BY DEF leaseVars, LInv, Typed, Attaching, SidecarsLeased, AttachedRuns, SteadyCounted, Counted,
               Leased, Leaving
    <2> QED BY <2>1, <2>2
<1>3. LInv => LeasesInv
    BY DEF LInv, Typed, AttachedRuns, SteadyCounted, Counted, LeasesInv, LeasesTypeOK, AttachedIsKept, OwnerIsSeen, File, Verdicts
<1> QED BY <1>1, <1>2, <1>3, PTL DEF LeasesSpec

-----------------------------------------------------------------------------
(* TriageFiles.                                                              *)

\* Between the lock and the unlock.
Inside == {"read", "write", "unlock"}

QueueTyped ==
    /\ queue \subseteq QueueRow /\ due \subseteq QueueRow /\ qlock \in Writer \cup {NoOne} /\ mixed \in BOOLEAN
    /\ writer \in [Writer -> [at : StagesOfWriter, act : {"add", "done"}, row : QueueRow,
                              read : SUBSET QueueRow, judged : Writer \cup {NoOne}]]

HoldsAlone ==
    /\ \A w \in Writer : WriterAt(w, "drop") => writer[w].judged \in Writer /\ WriterAt(writer[w].judged, "dead")
    /\ ~mixed => \A w \in Writer : writer[w].at \in Inside => qlock = w

ReadIsThere == ~mixed => queue = due /\ \A w \in Writer : WriterAt(w, "write") => writer[w].read = queue

QueueInvariant == QueueTyped /\ HoldsAlone /\ ReadIsThere

OrphanTyped ==
    /\ spooled \in [Asked -> {"in", "inflight", "done", "aside"}] /\ served \subseteq Asked
    /\ orphans \in [at : {"off", "list", "move"}, table : SUBSET Asked,
                    files : SUBSET (Asked \X {"in", "inflight"}), unserved : BOOLEAN]
    /\ serving \subseteq Asked

\* Of a request served since before the table: it is claimed, in the table, and not in the list.
ServingSpared ==
    \A a \in serving :
        /\ a \in served /\ spooled[a] = "inflight"
        /\ orphans.at # "off" => a \in orphans.table /\ <<a, "inflight">> \notin orphans.files

OrphanInvariant == OrphanTyped /\ ServingSpared

-----------------------------------------------------------------------------
\* No step of write_queue lets two calls in, or changes the file under the one that read it.
LEMMA QueueKeeps == ASSUME QueueInvariant, QueueStep PROVE QueueInvariant'
<1> USE DEF QueueInvariant, QueueTyped, HoldsAlone, ReadIsThere, Inside, WriterAt, GoesTo, StagesOfWriter
<1>1. ASSUME NEW w \in Writer, LocksQueue(w) PROVE QueueInvariant'
    BY <1>1, NoOneAssumption DEF LocksQueue, Free
<1>2. ASSUME NEW w \in Writer, JudgesLock(w) PROVE QueueInvariant'
    BY <1>2 DEF JudgesLock
<1>3. ASSUME NEW w \in Writer, DropsLock(w) PROVE QueueInvariant'
    BY <1>3, NoOneAssumption DEF DropsLock
<1>4. ASSUME NEW w \in Writer, GivesUp(w) PROVE QueueInvariant'
    BY <1>4 DEF GivesUp
<1>5. ASSUME NEW w \in Writer, ReadsQueue(w) PROVE QueueInvariant'
    BY <1>5 DEF ReadsQueue
<1>6. ASSUME NEW w \in Writer, WritesQueue(w) PROVE QueueInvariant'
    BY <1>6, NoOneAssumption DEF WritesQueue, With
<1>7. ASSUME NEW w \in Writer, UnlocksQueue(w) PROVE QueueInvariant'
    BY <1>7, NoOneAssumption DEF UnlocksQueue
<1>8. ASSUME NEW w \in Writer, WriterDies(w) PROVE QueueInvariant'
    BY <1>8 DEF WriterDies
<1> QED BY <1>1, <1>2, <1>3, <1>4, <1>5, <1>6, <1>7, <1>8 DEF QueueStep

\* No step of the runner or of spool_orphans lists a request that was served all along.
LEMMA OrphanKeeps == ASSUME OrphanInvariant, OrphanStep PROVE OrphanInvariant'
<1> USE DEF OrphanInvariant, OrphanTyped, ServingSpared
<1>1. ASSUME NEW a \in Asked, Claims(a) PROVE OrphanInvariant'
    BY <1>1 DEF Claims
<1>2. ASSUME NEW a \in Asked, Answers(a) PROVE OrphanInvariant'
    BY <1>2 DEF Answers
<1>3. CASE RunnerDies
    BY <1>3 DEF RunnerDies
<1>4. CASE ReadsProcesses
    BY <1>4 DEF ReadsProcesses
<1>5. CASE ListsSpool
    <2>1. PICK old \in SUBSET {a \in Asked : spooled[a] = "in" /\ orphans.unserved} :
             orphans' = [orphans EXCEPT !.at = "move", !.files = {<<a, spooled[a]>> : a \in old \cup {b \in Asked : Orphan(b)}}]
        BY <1>5 DEF ListsSpool
    <2>2. UNCHANGED <<spooled, served, serving>> /\ orphans.at = "list"
        BY <1>5 DEF ListsSpool
    <2> DEFINE files == {<<a, spooled[a]>> : a \in old \cup {b \in Asked : Orphan(b)}}
    <2>3. files \in SUBSET (Asked \X {"in", "inflight"})
        BY <2>1 DEF Orphan
    <2>4. OrphanTyped'
        BY <2>1, <2>2, <2>3
    <2>5. ASSUME NEW a \in serving PROVE <<a, "inflight">> \notin files
        BY <2>2 DEF Orphan
    <2>6. ServingSpared'
        BY <2>1, <2>2, <2>5
    <2> QED BY <2>4, <2>6
<1>6. CASE OrphansEnd
    BY <1>6 DEF OrphansEnd, NoListing
<1>7. ASSUME NEW f \in Asked \X {"in", "inflight"}, MovesAside(f) PROVE OrphanInvariant'
    BY <1>7 DEF MovesAside
<1> QED BY <1>1, <1>2, <1>3, <1>4, <1>5, <1>6, <1>7 DEF OrphanStep

(* The queue keeps its rows whatever writers wait, give up and die, unless   *)
(* one of them removes a lock it did not judge; and no live request is moved *)
(* aside.                                                                    *)
THEOREM TriageKeeps == TriageSpec => []TriageInv
<1>1. QueueInit => QueueInvariant
    BY DEF QueueInit, QueueInvariant, QueueTyped, HoldsAlone, ReadIsThere, Inside, WriterAt, StagesOfWriter
<1>2. OrphanInit => OrphanInvariant
    BY DEF OrphanInit, OrphanInvariant, OrphanTyped, ServingSpared, NoListing
<1>3. UNCHANGED queueVars /\ QueueInvariant => QueueInvariant'
    BY DEF queueVars, QueueInvariant, QueueTyped, HoldsAlone, ReadIsThere, WriterAt
<1>4. UNCHANGED orphanVars /\ OrphanInvariant => OrphanInvariant'
    BY DEF orphanVars, OrphanInvariant, OrphanTyped, ServingSpared
<1>5. QueueInvariant /\ OrphanInvariant => TriageInv
    BY DEF QueueInvariant, QueueTyped, ReadIsThere, OrphanInvariant, OrphanTyped, ServingSpared,
           TriageInv, TriageTypeOK, QueueKept, LiveStays
<1> DEFINE Step == \/ QueueStep /\ UNCHANGED orphanVars
                   \/ OrphanStep /\ UNCHANGED queueVars
<1>6. QueueInvariant /\ OrphanInvariant /\ [Step]_<<queueVars, orphanVars>>
          => QueueInvariant' /\ OrphanInvariant'
    BY <1>3, <1>4, QueueKeeps, OrphanKeeps
<1> QED BY <1>1, <1>2, <1>5, <1>6, PTL DEF TriageSpec
==================================================================================
