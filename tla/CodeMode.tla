-------------------------------- MODULE CodeMode --------------------------------
(* gm_codemode (codemode.js): a body of JavaScript calls gm tools, any number *)
(* at a time, until it returns, throws or runs out of time; one reply holds   *)
(* its value, or the state of every call it made. Texts are their lengths, in *)
(* some unit; "file" is the file a cut text names. The keys of a call are     *)
(* folded into one dispatch.                                                  *)
EXTENDS Naturals, Sequences, FiniteSets, FiniteSetsExt, SequencesExt

CONSTANTS
    TextCap,     \* max_chars of the reply
    Block,        \* the continuation block
    BlockReserve, \* CONTINUATION_RESERVE_CHARS
    CutNotice,   \* reply_truncated and what follows it
    HeadMax, PartMin, \* PARTIAL_BLOCK_OVERHEAD_CHARS, PARTIAL_REPLY_MIN_CHARS
    Heading,     \* lead, ids and tally of a reply to a throw
    Lengths,     \* of replies and values
    MaxCalls,
    TopKeys,     \* keys of a call its tool declares beside the body
    Fields,      \* fields its verb declares for the body, the prose field among them
    Prose, Required,
    Loose,       \* envelope keys the tool does not declare
    Others       \* keys nobody declares

ASSUME ModeBounds ==
    /\ {TextCap, Block, BlockReserve, CutNotice, HeadMax, PartMin, Heading} \subseteq Nat /\ Lengths \subseteq Nat
    /\ CutNotice > 0 \* a notice has text
    /\ "body" \notin TopKeys \cup Fields \cup Loose \cup Others /\ Prose \in Fields \ TopKeys

VARIABLES
    script, \* the body: "runs", "returned", "threw", "cut"
    calls,  \* its calls: [at, length, file]
    late,   \* calls made after the reply
    answer, \* the reply
    fold    \* keys given and keys sent

modeVars == <<script, calls, late, answer, fold>>

NoText == [length |-> 0, cut |-> FALSE, file |-> "none"]
NoAnswer == [text |-> NoText, parts |-> <<>>, done |-> 0, kind |-> "none"]

-----------------------------------------------------------------------------
(* Keys.                                                                     *)

Given == [flat : SUBSET (TopKeys \cup Fields \cup Loose \cup Others),
          inner : SUBSET (Fields \cup Others \cup {"body"}),
          kind : {"none", "object", "text", "json", "broken", "list"}, raw : BOOLEAN]

\* Mutant of Gathered: the fields given flat are left behind.
GatheredInner(extra, inner) == inner
Gathered(extra, inner) == extra \cup inner

\* foldVerbArgs: the flat keys that are not declared join the body.
Body(g) ==
    LET extra == g.flat \ TopKeys
    IN IF g.raw THEN {}
       ELSE CASE g.kind = "text" -> extra \cup {Prose}
              [] g.kind = "none" -> extra
              [] g.kind \in {"object", "json"} -> Gathered(extra, g.inner)
              [] OTHER -> {} \* no JSON, or no object

\* withoutNestedBodyKey: prose under the name of the envelope key.
Hoisted(keys) == IF "body" \in keys /\ Prose \notin keys THEN (keys \ {"body"}) \cup {Prose} ELSE keys

\* withoutUndeclaredEnvelopeKeys, refuseUndeclaredBodyKeys, refuseMissingRequiredBodyKeys.
Sent(g) == Hoisted(Body(g)) \ Loose
Refused(g) == ~g.raw /\ (~Sent(g) \subseteq Fields \/ ~Required \subseteq Sent(g))

Folds(g) ==
    /\ script = "runs" /\ calls = <<>> /\ fold.keys = {}
    /\ fold' = [given |-> g, keys |-> Sent(g) \cup (g.flat \cap TopKeys) \cup {"sent"}, refused |-> Refused(g)]
    /\ UNCHANGED <<script, calls, late, answer>>

-----------------------------------------------------------------------------
(* Texts.                                                                    *)

AtLeast(a, b) == IF a < b THEN b ELSE a
Less(a, b) == IF a < b THEN 0 ELSE a - b

\* capCodemodeText
Capped(length, cap, reserve, file) ==
    LET room == AtLeast(Less(cap, reserve), 1)
    IN IF length <= room THEN [length |-> length, cut |-> FALSE, file |-> "none"]
       ELSE [length |-> Less(room, CutNotice) + CutNotice, cut |-> TRUE, file |-> file]

\* capWithContinuation, continuedReplyWithin: tail is 0 when no block is due.
Continued(length, tail, file) ==
    IF length + tail <= TextCap THEN [length |-> length + tail, cut |-> FALSE, file |-> "none"]
    ELSE LET body == Capped(length, TextCap, tail, file) IN [body EXCEPT !.length = @ + tail]

TextSum(s) == FoldLeft(LAMBDA sum, x : sum + x, 0, s)
Done == {i \in DOMAIN calls : calls[i].at = "done"}

PartBudget == AtLeast(Less(Less(TextCap, BlockReserve) \div AtLeast(Cardinality(Done), 1), HeadMax), PartMin)

\* completedReplyText; a reply over budget is spilled when it names no file.
Part(c, spills, full) ==
    CASE c.at # "done" -> [NoText EXCEPT !.length = HeadMax]
      [] c.at = "done" /\ c.length > PartBudget ->
            [length |-> HeadMax + Less(PartBudget, CutNotice) + CutNotice, cut |-> TRUE,
             file |-> IF c.file # "none" THEN c.file ELSE IF spills THEN "spill" ELSE "none"]
      [] OTHER -> [NoText EXCEPT !.length = IF full THEN HeadMax + c.length ELSE HeadMax]

-----------------------------------------------------------------------------
(* The body.                                                                 *)

ModeInit ==
    /\ script = "runs" /\ calls = <<>> /\ late = 0 /\ answer = NoAnswer
    /\ fold = [given |-> [flat |-> {}, inner |-> {}, kind |-> "none", raw |-> FALSE], keys |-> {}, refused |-> FALSE]

\* A refused call is an entry that failed; a body cut by the deadline goes on.
BodyCalls ==
    /\ fold.keys = {} /\ Len(calls) + late < MaxCalls
    /\ IF script = "runs"
       THEN /\ \E at \in {"pending", "failed"} : calls' = Append(calls, [at |-> at, length |-> 0, file |-> "none"])
            /\ UNCHANGED late
       ELSE /\ script = "cut"
            /\ late' = late + 1
            /\ UNCHANGED calls
    /\ UNCHANGED <<script, answer, fold>>

Settles(i) ==
    /\ calls[i].at = "pending"
    /\ \/ \E n \in Lengths, file \in {"none", "spool"} : calls' = [calls EXCEPT ![i] = [at |-> "done", length |-> n, file |-> file]]
       \/ calls' = [calls EXCEPT ![i].at = "failed"]
    /\ UNCHANGED <<script, late, answer, fold>>

\* A value, as text or as an object; or nothing, and the replies stand for it.
Returns ==
    /\ script = "runs" /\ fold.keys = {}
    /\ \E n \in Lengths, tail \in {0, Block}, file \in {"none", "spool"}, object \in BOOLEAN, nothing \in BOOLEAN :
          LET replies == [i \in DOMAIN calls |-> IF i \in Done THEN Capped(calls[i].length, TextCap, 0, calls[i].file).length ELSE 0]
              length == IF nothing THEN AtLeast(TextSum(replies), 1) ELSE n
              rest == IF length > TextCap THEN "spill" ELSE "none"
              named == IF nothing \/ file = "none" THEN rest ELSE file
          IN answer' = [text |-> IF object THEN Capped(length, TextCap, 0, named) ELSE Continued(length, tail, named),
                        parts |-> <<>>, done |-> Cardinality(Done), kind |-> "value"]
    /\ script' = "returned"
    /\ UNCHANGED <<calls, late, fold>>

\* The body throws, or withCodemodeDeadline does: every call is a part.
Fails(how) ==
    /\ script = "runs" /\ fold.keys = {}
    /\ \E spills \in BOOLEAN, full \in BOOLEAN, tail \in {0, Block} :
          LET parts == [i \in DOMAIN calls |-> Part(calls[i], spills, full)]
              length == Heading + TextSum([i \in DOMAIN parts |-> parts[i].length])
          IN answer' = [text |-> Continued(length, tail, "none"), parts |-> parts, done |-> Cardinality(Done),
                        kind |-> IF calls = <<>> THEN "error" ELSE "partial"]
    /\ script' = how
    /\ UNCHANGED <<calls, late, fold>>

\* withCodemodeDeadline
CutByDeadline == Fails("cut")

ModeNext ==
    \/ \E g \in Given : Folds(g)
    \/ BodyCalls \/ Returns \/ Fails("threw") \/ CutByDeadline
    \/ \E i \in DOMAIN calls : Settles(i)

ModeSpec == ModeInit /\ [][ModeNext]_modeVars

-----------------------------------------------------------------------------
ModeTypeOK ==
    /\ script \in {"runs", "returned", "threw", "cut"}
    /\ \A i \in DOMAIN calls : calls[i].at \in {"pending", "done", "failed"} /\ calls[i].length \in Lengths \cup {0}
    /\ answer.text.length \in Nat /\ fold.keys \subseteq TopKeys \cup Fields \cup Others \cup {"body", "sent"}

(* A call is refused, or every key the caller gave reaches the verb, flat or *)
(* in the body, but for envelope keys the verb does not know. Not so for a   *)
(* raw body and a body that is no object: what is flat beside it is dropped. *)
FoldKeepsKeys ==
    ~fold.refused /\ fold.keys # {} /\ ~fold.given.raw /\ fold.given.kind \notin {"broken", "list"} =>
        LET inner == IF fold.given.kind \in {"object", "json"} THEN fold.given.inner ELSE {}
        IN Hoisted(fold.given.flat \cup inner) \ Loose \subseteq fold.keys

(* A reply that can hold its own notice keeps to max_chars, whatever is cut. *)
WithinCap == TextCap >= CutNotice + Block => answer.text.length <= TextCap

(* The replies of the completed calls share one reply to a throw: while each *)
(* has room for the least part and for a notice, they leave the continuation *)
(* block its room.                                                           *)
PartsFit ==
    answer.kind = "partial" /\ TextCap >= BlockReserve + answer.done * (AtLeast(PartMin, CutNotice) + HeadMax) =>
        LET lengths == [i \in DOMAIN answer.parts |-> answer.parts[i].length]
        IN TextSum(lengths) <= TextCap - BlockReserve + (Len(lengths) - answer.done) * HeadMax

(* "An over-cap return is spilled whole, so the cut notice names a file      *)
(* holding the rest". Not kept: a return that fits alone and is cut for the  *)
(* continuation block is not spilled.                                        *)
CutNamesFile == answer.kind = "value" /\ answer.text.cut => answer.text.file # "none"

(* The state is typed, calls go out as they were given, and replies fit.     *)
CodeModeInv == ModeTypeOK /\ FoldKeepsKeys /\ WithinCap /\ PartsFit
================================================================================
