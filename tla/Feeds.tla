------------------------------- MODULE Feeds -------------------------------
(***************************************************************************)
(* What one session is told of the PRD of its project: the continuation    *)
(* block (src/src/continuation.js), the next-row lookups and the pushes    *)
(* (src/src/prd-feed.js), the session bootstrap (src/src/live-state.js),   *)
(* and the tail of gmDispatch that calls them.                             *)
(*                                                                         *)
(* Calls run concurrently. Their replies are read in any order, and a      *)
(* lookup that misses its budget lands after the reply that asked for it.  *)
(***************************************************************************)
EXTENDS Integers, FiniteSetsExt

CONSTANTS Call,       \* the calls of the session, each made once
          Sessions,   \* the kinds the calls may have: [Call -> Kind]
          MaxOther,   \* changes other clients make to the PRD
          MaxRow      \* rows are 1..MaxRow, listed in this order

Row == 1..MaxRow
NoRow == 0
Unknown == -1      \* a count that was never reported
Missed == -2        \* the feed {} of a lookup that did not answer
NoFeed == -3       \* the feed of a reply that moves no PRD state
Kind == {"resolve", "add", "list", "instruction", "stop", "complete", "array", "no_cwd", "failed"}

ASSUME KindsGiven == Sessions \subseteq [Call -> Kind] /\ MaxRow \in Nat \ {0} /\ MaxOther \in Nat

VARIABLES
  rows,      \* the pending rows of the project
  others,    \* changes other clients made to them
  call,      \* the calls: kind, step, reported count, feed
  lookup,    \* the next-row lookups, for the feed and for the bootstrap of a call
  entry,     \* the continuation entry of the session
  cached,    \* the last lookup that landed, landedPendingByRoot
  heard,     \* the state in the last block the client received
  warning,   \* the idle warning
  since,     \* history: every first row there was since a call ran
  boots      \* bootstrap blocks delivered: the pending part of each

feedVars == <<rows, others, call, lookup, entry, cached, heard, warning, since, boots>>

FirstRow == IF rows = {} THEN NoRow ELSE Min(rows)
Counts(kind) == kind \in {"resolve", "add", "list", "instruction"}
Moves(c) == \/ call[c].kind \in {"resolve", "add"}
            \/ call[c].count # Unknown /\ call[c].count # entry.pending_rows

Action(e) ==
  IF e.stopped THEN "stop"
  ELSE IF e.pending_rows = Unknown THEN "none"
  ELSE IF e.pending_rows = 0 THEN "stop" ELSE "continue"

\* What continuedReply compares before it repeats a block; max_concurrency
\* follows from the count.
Stamp(e, done) ==
  <<IF e.stopped THEN "stopped" ELSE IF done \/ e.pending_rows = Unknown THEN "done" ELSE "running",
    e.pending_rows, Action(e)>>

FeedsInit ==
  /\ rows = Row
  /\ others = 0
  /\ \E kindOf \in Sessions :
        call = [c \in Call |-> [kind |-> kindOf[c], step |-> "idle", count |-> Unknown, feed |-> NoFeed]]
  /\ lookup = [q \in Call \X {"feed", "boot"} |-> [at |-> "none", row |-> NoRow, total |-> 0]]
  /\ entry = [pending_rows |-> Unknown, stopped |-> FALSE, emitted |-> <<>>, bootstrapped |-> FALSE, notified |-> FALSE]
  /\ cached = Unknown
  /\ heard = <<>>
  /\ warning = "none"
  /\ since = [c \in Call |-> {}]
  /\ boots = {}

\* Somebody else takes or adds a row.
OtherClient ==
  /\ others < MaxOther
  /\ others' = others + 1
  /\ \E r \in Row : rows' = IF r \in rows THEN rows \ {r} ELSE rows \cup {r}
  /\ since' = [c \in Call |-> IF since[c] = {} THEN {} ELSE since[c] \cup {FirstRow'}]
  /\ UNCHANGED <<call, lookup, entry, cached, heard, warning, boots>>

\* gmDispatch begins: a prompt lifts the stop before it is dispatched.
Begin(c) ==
  /\ call[c].step = "idle" /\ call[c].kind # "stop"
  /\ call' = [call EXCEPT ![c].step = "sent"]
  /\ entry' = [entry EXCEPT !.stopped = @ /\ call[c].kind # "instruction"]
  /\ UNCHANGED <<rows, others, lookup, cached, heard, warning, since, boots>>

\* The guest runs the verb and writes its answer.
Run(c) ==
  /\ call[c].step = "sent"
  /\ rows' = CASE call[c].kind = "resolve" -> rows \ {FirstRow}
               [] call[c].kind = "add" -> rows \cup (IF Row = rows THEN {} ELSE {Max(Row \ rows)})
               [] OTHER -> rows
  /\ call' = [call EXCEPT ![c].step = "ran",
                          ![c].count = IF Counts(call[c].kind) THEN Cardinality(rows') ELSE Unknown]
  /\ since' = [d \in Call |-> IF d = c THEN {FirstRow'} ELSE IF since[d] = {} THEN {} ELSE since[d] \cup {FirstRow'}]
  /\ UNCHANGED <<others, lookup, entry, cached, heard, warning, boots>>

\* Mutant of Rearm: the idle warning is given once in a session.
RearmNever(e) == e

\* Every reply lets the monitor warn again.
Rearm(e) == [e EXCEPT !.notified = FALSE]

(***************************************************************************)
(* continuedReply and, on a stale bundle, bootstrapReply up to its reads.  *)
(***************************************************************************)
Continued(c, e, feed, forced) ==
  LET done == call[c].kind = "complete"
      counted == IF call[c].count = Unknown THEN e ELSE [e EXCEPT !.pending_rows = call[c].count]
      quiet == Rearm(counted)
      stamp == Stamp(quiet, done)
      block == Action(quiet) # "none" /\ (forced \/ stamp # quiet.emitted)
      told == IF block THEN [quiet EXCEPT !.emitted = stamp] ELSE quiet
      boot == call[c].kind \notin {"array", "no_cwd", "failed", "stop"} /\ ~e.bootstrapped
  IN /\ heard' = IF block /\ call[c].kind # "array" THEN stamp ELSE heard
     /\ warning' = IF warning = "sent" THEN "none" ELSE warning
     /\ \E stale \in BOOLEAN :     \* the installed bundle is not the running one
          /\ entry' = [told EXCEPT !.bootstrapped = @ \/ (boot /\ stale)]
          /\ call' = [call EXCEPT ![c].step = IF boot /\ stale THEN "boot" ELSE "done", ![c].feed = feed]
          /\ lookup' = IF boot /\ stale /\ feed \in {NoFeed, Missed}
                       THEN [lookup EXCEPT ![<<c, "boot">>].at = "asked"] ELSE lookup

\* The reply file is read. A reply that moves the PRD waits for the next row.
TakeReply(c) ==
  /\ call[c].step = "ran"
  /\ IF Moves(c)
     THEN /\ call' = [call EXCEPT ![c].step = "looking"]
          /\ lookup' = [lookup EXCEPT ![<<c, "feed">>].at = "asked"]
          /\ UNCHANGED <<entry, heard, warning>>
     ELSE Continued(c, entry, NoFeed, FALSE)
  /\ UNCHANGED <<rows, others, cached, since, boots>>

\* continuation-stop is answered here and reaches no guest.
Stop(c) ==
  /\ call[c].step = "idle" /\ call[c].kind = "stop"
  /\ Continued(c, [entry EXCEPT !.stopped = TRUE], NoFeed, FALSE)
  /\ UNCHANGED <<rows, others, cached, since, boots>>

\* The guest answers a lookup, a prd-list of the server's own in the session.
Look(c, use) ==
  /\ lookup[<<c, use>>].at = "asked"
  /\ lookup' = [lookup EXCEPT ![<<c, use>>] = [at |-> "read", row |-> FirstRow, total |-> Cardinality(rows)]]
  /\ UNCHANGED <<rows, others, call, entry, cached, heard, warning, since, boots>>

\* Mutant of RowFound: the row noted by the last lookup is given.
RowFoundCached(found) == IF cached = Unknown THEN found.row ELSE cached

RowFound(found) == found.row

\* Its reply goes through continuedReply too: the entry takes its count, and
\* marks as emitted a block that no client sees.
Land(c, use) ==
  LET found == lookup[<<c, use>>]
      counted == Rearm([entry EXCEPT !.pending_rows = found.total])
  IN /\ found.at = "read"
     /\ lookup' = [lookup EXCEPT ![<<c, use>>].at = "landed"]
     /\ cached' = found.row
     /\ entry' = [counted EXCEPT !.emitted = Stamp(counted, FALSE)]
     /\ warning' = IF warning = "sent" THEN "none" ELSE warning
     /\ call' = IF call[c].step = "looking" /\ use = "feed"
                THEN [call EXCEPT ![c].step = "ready", ![c].feed = RowFound(found)]
                ELSE IF call[c].step = "boot" /\ use = "boot"
                THEN [call EXCEPT ![c].feed = RowFound(found)] ELSE call
     /\ UNCHANGED <<rows, others, heard, since, boots>>

\* The budget of a lookup passes, or the lookup fails.
Miss(c) ==
  /\ call[c].step = "looking"
  /\ call' = [call EXCEPT ![c].step = "ready", ![c].feed = Missed]
  /\ UNCHANGED <<rows, others, lookup, entry, cached, heard, warning, since, boots>>

Finish(c) ==
  /\ call[c].step = "ready"
  /\ Continued(c, entry, call[c].feed, TRUE)
  /\ UNCHANGED <<rows, others, cached, since, boots>>

\* The bootstrap block is attached: a fresh row, or the cached one marked stale.
Attach(c) ==
  /\ call[c].step = "boot"
  /\ call' = [call EXCEPT ![c].step = "done"]
  /\ boots' = boots \cup {[call |-> c, next |-> IF call[c].feed \in Row \cup {NoRow} THEN call[c].feed
                                                ELSE IF cached # Unknown THEN cached ELSE NoRow,
                           stale |-> call[c].feed \notin Row \cup {NoRow}]}
  /\ UNCHANGED <<rows, others, lookup, entry, cached, heard, warning, since>>

\* A tick of the monitor after the idle threshold, once for each last reply.
Tick ==
  /\ ~entry.stopped /\ entry.pending_rows \notin {Unknown, 0} /\ ~entry.notified
  /\ entry' = [entry EXCEPT !.notified = TRUE]
  /\ warning' = "due"
  /\ UNCHANGED <<rows, others, call, lookup, cached, heard, since, boots>>

\* The lookup of the warning settled, one way or the other.
Warn ==
  /\ warning = "due"
  /\ warning' = "sent"
  /\ UNCHANGED <<rows, others, call, lookup, entry, cached, heard, since, boots>>

FeedStep(c) == Begin(c) \/ Run(c) \/ TakeReply(c) \/ Stop(c) \/ Miss(c) \/ Finish(c) \/ Attach(c)
LookupStep(c) == \E use \in {"feed", "boot"} : Look(c, use) \/ Land(c, use)
FeedsNext == OtherClient \/ Tick \/ Warn \/ \E c \in Call : FeedStep(c) \/ LookupStep(c)

\* Every call returns, every lookup answers, the monitor's timer keeps ticking.
FeedsFairness ==
  /\ WF_feedVars(Tick) /\ WF_feedVars(Warn)
  /\ \A c \in Call : WF_feedVars(FeedStep(c)) /\ WF_feedVars(LookupStep(c))
FeedsSpec == FeedsInit /\ [][FeedsNext]_feedVars /\ FeedsFairness

-----------------------------------------------------------------------------
FeedsTypeOK ==
  /\ rows \subseteq Row
  /\ \A c \in Call : /\ call[c].step \in {"idle", "sent", "ran", "looking", "ready", "boot", "done"}
                     /\ call[c].count \in {Unknown} \cup 0..MaxRow
                     /\ call[c].feed \in {NoFeed, Missed, NoRow} \cup Row
  /\ entry.pending_rows \in {Unknown} \cup 0..MaxRow
  /\ cached \in {Unknown, NoRow} \cup Row
  /\ warning \in {"none", "due", "sent"}

\* A session is given one bootstrap, and a row it or a reply names as the next
\* one was the first pending row after the call that asked had run: a reply to
\* prd-resolve never sends its caller back to the row it closed. Only a row
\* marked stale may be older.
NextRowIsFresh ==
  /\ \A b, d \in boots : b = d
  /\ \A c \in Call : call[c].feed \in Row \cup {NoRow} => call[c].feed \in since[c]
  /\ \A b \in boots : b.stale \/ b.next \in since[b.call]

\* A session that goes quiet with rows pending is warned of it, once more after
\* every reply (startContinuationMonitor).
IdleIsWarned ==
  (\A c \in Call : call[c].step = "done") /\ ~entry.stopped /\ entry.pending_rows \notin {Unknown, 0}
     ~> (entry.notified /\ warning = "sent") \/ entry.pending_rows = 0

\* A reply without a block means that nothing changed since the last block the
\* client got (the comment in continuedReply). The code does not keep it.
ChangesAreTold ==
  [][\A c \in Call : /\ call[c].step \in {"ran", "ready"} /\ call'[c].step \in {"boot", "done"}
                      /\ Action(entry') # "none" /\ \A d \in Call \ {c} : call[d].step \notin {"looking", "ready"}
        => heard' = Stamp(entry', call[c].kind = "complete")]_feedVars

=============================================================================
