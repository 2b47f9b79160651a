----------------------------- MODULE ColdStart -----------------------------
(***************************************************************************)
(* The life of a stdio server that its client launched: the cold path of   *)
(* src/src/fast-stdio.js answers the handshake and the tool list without   *)
(* the full server, hands the stream over to the SDK of src/src/index.js   *)
(* (connect), and src/src/transport-guard.js ends the process once the     *)
(* client is gone.                                                         *)
(***************************************************************************)
EXTENDS Naturals, Sequences, SequencesExt

CONSTANTS MaxLine,   \* lines the client writes
          MaxWait    \* CLIENT_GONE_MAX_WAIT_MS, in rechecks

\* "init" names the protocol version of the manifest, "init_other" another.
LineKind == {"init", "init_other", "initialized", "list", "call"}
Requests == LineKind \ {"initialized"}
Replay == 0            \* the initialize replayed into the SDK, id INIT_ID
ReplayInitialized == MaxLine + 1

ASSUME ColdBounds == MaxLine \in Nat \ {0} /\ MaxWait \in Nat \ {0}

VARIABLES
  lines,      \* the kinds of the lines written so far
  taken,      \* how many of them the process has read
  mode,       \* "cold", "loading" (the bundle is being imported), "full"
  idle,       \* the idle-load timer is armed
  held,       \* pending: lines kept for the full server
  init,       \* the line of the initialize answered cold, 0 for none
  initialized,\* notifications/initialized was seen cold
  swallow,
  sdk,        \* what onmessage gave the SDK, in order
  open,       \* requests the SDK has not answered
  hung,       \* those whose dispatch never ends
  answers,    \* [1..MaxLine -> Nat] replies written to the client
  stray,      \* a reply to INIT_ID reached the client
  left,       \* how the client left: "stdin" ended, nobody reads "stdout", the "parent" died
  known,      \* of these, what a watch or a failed write has shown the process
  waited,
  exited

coldVars == <<lines, taken, mode, idle, held, init, initialized, swallow, sdk, open, hung, answers, stray, left, known, waited, exited>>

ColdInit ==
  /\ lines = <<>> /\ taken = 0
  /\ mode = "cold" /\ idle = FALSE
  /\ held = <<>> /\ init = 0 /\ initialized = FALSE
  /\ swallow = FALSE /\ sdk = <<>> /\ open = {} /\ hung = {}
  /\ answers = [n \in 1..MaxLine |-> 0]
  /\ stray = FALSE
  /\ left = {} /\ known = {} /\ waited = 0 /\ exited = FALSE

\* The client initializes once, first, and does not wait for replies.
Legal(kind) ==
  IF lines = <<>> THEN kind \in {"init", "init_other"}
  ELSE kind \in {"list", "call"} \/ (kind = "initialized" /\ ~Contains(lines, "initialized"))

Write ==
  /\ "stdin" \notin left /\ Len(lines) < MaxLine
  /\ \E kind \in LineKind : Legal(kind) /\ lines' = Append(lines, kind)
  /\ UNCHANGED <<taken, mode, idle, held, init, initialized, swallow, sdk, open, hung, answers, stray, left, known, waited, exited>>

\* write(): to a pipe nobody reads it ends in an 'error' event of stdout.
Answer(n) ==
  /\ answers' = [answers EXCEPT ![n] = @ + 1]
  /\ known' = known \cup (left \cap {"stdout"})

\* A dispatch may never end; the other messages are always answered.
Deliver(ms) ==
  /\ sdk' = sdk \o ms
  /\ open' = open \cup {m \in ToSet(ms) : m = Replay \/ (m \in 1..MaxLine /\ lines[m] \in Requests)}
  /\ \E h \in SUBSET {m \in ToSet(ms) \cap (1..MaxLine) : lines[m] = "call"} : hung' = hung \cup h

\* receive(): what the manifest cannot answer is held and the load is asked for.
Receive ==
  /\ ~exited /\ taken < Len(lines)
  /\ taken' = taken + 1
  /\ LET n == taken + 1
         kind == lines[n]
     IN \/ /\ mode = "full"
           /\ Deliver(<<n>>)
           /\ UNCHANGED <<mode, idle, held, init, initialized, answers, known>>
        \/ /\ mode # "full" /\ kind = "init" /\ init = 0
           /\ init' = n /\ Answer(n) /\ idle' = TRUE
           /\ UNCHANGED <<mode, held, initialized, sdk, open, hung>>
        \/ /\ mode # "full" /\ kind = "initialized" /\ init # 0
           /\ initialized' = TRUE
           /\ UNCHANGED <<mode, idle, held, init, sdk, open, hung, answers, known>>
        \/ /\ mode # "full" /\ kind = "list" /\ init # 0
           /\ Answer(n) /\ idle' = TRUE
           /\ UNCHANGED <<mode, held, init, initialized, sdk, open, hung>>
        \/ /\ mode # "full"
           /\ \/ kind \in {"call", "init_other"}
              \/ kind \in {"initialized", "list"} /\ init = 0
           /\ held' = Append(held, n) /\ idle' = FALSE /\ mode' = "loading"
           /\ UNCHANGED <<init, initialized, sdk, open, hung, answers, known>>
  /\ UNCHANGED <<lines, swallow, stray, left, waited, exited>>

IdleLoad ==
  /\ ~exited /\ idle
  /\ idle' = FALSE
  /\ mode' = IF mode = "cold" THEN "loading" ELSE mode
  /\ UNCHANGED <<lines, taken, held, init, initialized, swallow, sdk, open, hung, answers, stray, left, known, waited, exited>>

\* Mutant of Connect: start() drops the pending lines.
ConnectForgets ==
  /\ ~exited /\ mode = "loading"
  /\ mode' = "full" /\ idle' = FALSE /\ held' = <<>>
  /\ swallow' = (init # 0)
  /\ Deliver(IF init = 0 THEN <<>> ELSE <<Replay>>)
  /\ UNCHANGED <<lines, taken, init, initialized, answers, stray, left, known, waited, exited>>

\* The SDK connects: start() replays the handshake, then the held lines.
Connect ==
  /\ ~exited /\ mode = "loading"
  /\ mode' = "full" /\ idle' = FALSE /\ held' = <<>>
  /\ swallow' = (init # 0)
  /\ Deliver((IF init = 0 THEN <<>> ELSE <<Replay>>)
             \o (IF init # 0 /\ initialized THEN <<ReplayInitialized>> ELSE <<>>) \o held)
  /\ UNCHANGED <<lines, taken, init, initialized, answers, stray, left, known, waited, exited>>

\* send(): the SDK's own answer to the replayed initialize goes nowhere.
SdkReply ==
  /\ ~exited
  /\ \E m \in open \ hung :
       /\ open' = open \ {m}
       /\ IF m = Replay
          THEN IF swallow THEN swallow' = FALSE /\ UNCHANGED <<answers, known, stray>>
               ELSE stray' = TRUE /\ UNCHANGED <<swallow, answers, known>>
          ELSE Answer(m) /\ UNCHANGED <<swallow, stray>>
  /\ UNCHANGED <<lines, taken, mode, idle, held, init, initialized, sdk, hung, left, waited, exited>>

\* The end of stdin is an event, or the readableEnded that surviveClientGone looks at.
StdinEnds ==
  /\ left' = left \cup {"stdin"} /\ left' # left
  /\ UNCHANGED <<lines, taken, mode, idle, held, init, initialized, swallow, sdk, open, hung, answers, stray, known, waited, exited>>

StdoutBreaks ==
  /\ left' = left \cup {"stdout"} /\ left' # left
  /\ UNCHANGED <<lines, taken, mode, idle, held, init, initialized, swallow, sdk, open, hung, answers, stray, known, waited, exited>>

(* exitWhenParentGone compares with the parent main() found, once the       *)
(* bundle is loaded: a death before that is never seen.                     *)
ParentDies ==
  /\ left' = left \cup {"parent"} /\ left' # left
  /\ known' = IF mode = "full" THEN known \cup {"parent"} ELSE known
  /\ UNCHANGED <<lines, taken, mode, idle, held, init, initialized, swallow, sdk, open, hung, answers, stray, waited, exited>>

\* Nothing keeps a cold process with a closed stdin and no timer.
ColdEnd ==
  /\ ~exited /\ "stdin" \in left /\ mode = "cold" /\ ~idle /\ taken = Len(lines)
  /\ exited' = TRUE
  /\ UNCHANGED <<lines, taken, mode, idle, held, init, initialized, swallow, sdk, open, hung, answers, stray, left, known, waited>>

\* Before main() nobody listens for the 'error' of stdout, which then ends the process.
ColdBreak ==
  /\ ~exited /\ known # {} /\ mode # "full"
  /\ exited' = TRUE
  /\ UNCHANGED <<lines, taken, mode, idle, held, init, initialized, swallow, sdk, open, hung, answers, stray, left, known, waited>>

\* What calls exitWhenIdle: stdin read to its end, a failed write, a new parent.
ClientGone == known # {} \/ ("stdin" \in left /\ taken = Len(lines))

\* Mutant of Recheck: no limit on the wait.
RecheckForever ==
  /\ ~exited /\ ClientGone /\ mode = "full"
  /\ ~\E m \in open : m \in 1..MaxLine /\ lines[m] = "call"
  /\ exited' = TRUE
  /\ UNCHANGED <<lines, taken, mode, idle, held, init, initialized, swallow, sdk, open, hung, answers, stray, left, known, waited>>

\* exitWhenIdle's recheck: dispatches in flight hold the process, up to a limit.
Recheck ==
  /\ ~exited /\ ClientGone /\ mode = "full"
  /\ LET inflight == \E m \in open : m \in 1..MaxLine /\ lines[m] = "call"
     IN IF inflight /\ waited < MaxWait
        THEN waited' = waited + 1 /\ UNCHANGED exited
        ELSE exited' = TRUE /\ UNCHANGED waited
  /\ UNCHANGED <<lines, taken, mode, idle, held, init, initialized, swallow, sdk, open, hung, answers, stray, left, known>>

ColdNext == Write \/ Receive \/ IdleLoad \/ Connect \/ SdkReply
            \/ StdinEnds \/ StdoutBreaks \/ ParentDies \/ ColdEnd \/ ColdBreak \/ Recheck

\* The event loop runs what is ready; timers fire.
ColdFairness == WF_coldVars(Receive) /\ WF_coldVars(IdleLoad) /\ WF_coldVars(Connect)
                /\ WF_coldVars(SdkReply) /\ WF_coldVars(ColdEnd) /\ WF_coldVars(ColdBreak)
                /\ WF_coldVars(Recheck)
ColdSpec == ColdInit /\ [][ColdNext]_coldVars /\ ColdFairness

-----------------------------------------------------------------------------
ColdTypeOK ==
  /\ lines \in Seq(LineKind) /\ taken \in 0..Len(lines)
  /\ mode \in {"cold", "loading", "full"} /\ init \in 0..MaxLine
  /\ open \subseteq 0..MaxLine /\ hung \subseteq open /\ waited \in 0..MaxWait
  /\ left \subseteq {"stdin", "stdout", "parent"} /\ known \subseteq left \ {"stdin"}

\* Whatever part of the handshake was answered cold, the SDK meets a legal
\* session: initialize first, then the lines in the order they were written,
\* and no reply is doubled, nor the replayed one seen by the client.
OneSession ==
  /\ ~stray
  /\ \A n \in 1..MaxLine : answers[n] <= 1
  /\ sdk # <<>> => Head(sdk) = Replay \/ (Head(sdk) = 1 /\ init = 0)
  /\ \A i, j \in 1..Len(sdk) : i < j /\ {sdk[i], sdk[j]} \subseteq 1..MaxLine => sdk[i] < sdk[j]

\* A request written before the client leaves is answered, unless its own
\* dispatch hangs: none stays behind in the cold path.
EveryLineAnswered ==
  \A n \in 1..MaxLine :
    n <= Len(lines) /\ lines[n] \in Requests ~> answers[n] = 1 \/ n \in hung \/ left # {}

\* A server whose client is gone ends, whatever dispatches are in flight: one
\* whose stdin ended, at any time, that wrote to a broken stdout, or that lost
\* its parent after the watch began.
OrphanEnds == "stdin" \in left \/ known # {} ~> exited

\* Not so of every departure: a parent that dies while the server is cold or
\* loading, and a stdout nobody reads, may go unseen for ever.
EveryOrphanEnds == left # {} ~> exited

=============================================================================
