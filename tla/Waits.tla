---------------------------------- MODULE Waits ----------------------------------
(* How long a call of dispatch.js waits: the poll of the caller and the limit *)
(* of the process it asked for, worked out of what it gave; the wait between  *)
(* two looks at the answer; ci-status with wait. Times are whole numbers of   *)
(* one unit, the margin of the poll over the process.                         *)
EXTENDS Naturals, FiniteSetsExt

CONSTANTS
    DefaultPoll, ExecDefault, ExecCeiling, \* DEFAULT_TIMEOUT, EXEC_DEFAULT_LIMIT, EXEC_HARD_CEILING
    LaneWait,    \* GIT_LANE_WAIT
    MaxTimer,    \* MAX_TIMER_TIMEOUT
    Ceilings,    \* pollTimeoutCeilingMs, as configured
    Amounts,     \* times a caller may give
    CiBudgets, FirstNap, LongNap, CiCallMax  \* ci-status; what one of its calls takes

Margin == 1

ASSUME TimesAreOrdered ==
    /\ {DefaultPoll, ExecDefault, ExecCeiling, LaneWait, MaxTimer, FirstNap, LongNap, CiCallMax} \subseteq Nat \ {0}
    /\ Amounts \cup Ceilings \cup CiBudgets \subseteq Nat /\ 0 \notin Ceilings \cup CiBudgets
    /\ ExecDefault <= ExecCeiling /\ ExecCeiling + Margin < MaxTimer /\ FirstNap <= LongNap

VARIABLE times \* what the call asked for, and what it gets

Least(x, y) == IF x < y THEN x ELSE y
Most(x, y) == IF x < y THEN y ELSE x

None == [kind |-> "absent", n |-> 0]
Times == {None} \cup [kind : {"given"}, n : Amounts]
Asks == [seconds : Times \cup {[kind |-> "text", n |-> 0]},
         prefix : Times \cup {[kind |-> "malformed", n |-> 0]},
         runs : BOOLEAN, resume : BOOLEAN, lane : Times, git : BOOLEAN, ceiling : Ceilings]

Usable(time) == time.kind = "given" /\ time.n > 0
HasPrefix(ask) == ask.runs /\ ask.prefix.kind = "given"

\* timeoutInputDiagnostic
RefusesSeconds(ask) ==
    \/ ask.seconds.kind = "text" \/ ask.seconds = [kind |-> "given", n |-> 0]
    \/ Usable(ask.seconds) /\ ask.seconds.n > Least(MaxTimer, ask.ceiling)
RefusesPrefix(ask) ==
    ask.runs /\ (ask.prefix.kind = "malformed" \/ ask.prefix.n > ExecCeiling)

\* timeoutMilliseconds, pollTimeoutMs. Mutant of Poll: no margin past the process.
PollBare(ask) ==
    IF Usable(ask.seconds) THEN Least(MaxTimer, ask.seconds.n)
    ELSE IF HasPrefix(ask) /\ ~ask.resume THEN Most(DefaultPoll, ask.prefix.n) ELSE DefaultPoll
Poll(ask) ==
    IF Usable(ask.seconds) THEN Least(MaxTimer, ask.seconds.n)
    ELSE IF HasPrefix(ask) /\ ~ask.resume THEN Most(DefaultPoll, ask.prefix.n + Margin) ELSE DefaultPoll

\* execLimitMs, withTimeoutMsPrefix
ExecLimit(ask) ==
    IF HasPrefix(ask) THEN Least(ask.prefix.n, ExecCeiling)
    ELSE Least(ExecCeiling, Most(ExecDefault, Least(Poll(ask), ask.ceiling) - Margin))

\* callerLaneWait; git verbs wait for their lane.
LaneBudget(ask) == IF Usable(ask.lane) THEN ask.lane.n ELSE IF ask.git THEN LaneWait ELSE 0

Refusal == [at |-> "planned", refused |-> TRUE, poll |-> 0, limit |-> 0]
PlanOf(ask) ==
    IF RefusesSeconds(ask) \/ RefusesPrefix(ask) THEN Refusal
    ELSE [at |-> "planned", refused |-> FALSE, limit |-> ExecLimit(ask),
          poll |-> Least(Most(Poll(ask), LaneBudget(ask)), ask.ceiling)]

Unasked == [seconds |-> None, prefix |-> None, runs |-> FALSE, resume |-> FALSE, lane |-> None,
            git |-> FALSE, ceiling |-> Min(Ceilings)]
PlanInit == times = [ask |-> Unasked, gets |-> [Refusal EXCEPT !.at = "none"]]
PlanStep ==
    /\ times.gets.at = "none"
    /\ \E ask \in Asks : ~(ask.git /\ ask.runs) /\ times' = [ask |-> ask, gets |-> PlanOf(ask)]

-----------------------------------------------------------------------------
(* waitForSpoolChange: the answer may land between any two of its lines, and *)
(* the directory watch may break, with or without a word.                    *)

VARIABLE wait \* [at, watch, landed, told]

WaitInit == wait = [at |-> "enter", watch |-> "none", landed |-> FALSE, told |-> FALSE]

Enters ==
    \/ wait.at = "enter" /\ \E watch \in {"on", "none"} : wait' = [wait EXCEPT !.at = "look", !.watch = watch]
    \/ wait.at = "look" /\ wait' = [wait EXCEPT !.at = IF wait.landed THEN "woken" ELSE "sleeps"]

AnswerLands == ~wait.landed /\ wait' = [wait EXCEPT !.landed = TRUE, !.told = wait.watch = "on"]
WatchBreaks == wait.watch = "on" /\ wait' = [wait EXCEPT !.watch = "none", !.told = FALSE]

\* An event, the fallback, the deadline or an abort; the loop looks and waits again.
Wakes == wait.at = "sleeps" /\ wait' = [wait EXCEPT !.at = "woken"]
WaitsAgain == wait.at = "woken" /\ ~wait.landed /\ wait' = [wait EXCEPT !.at = "enter", !.watch = "none"]

WaitStep == Enters \/ AnswerLands \/ WatchBreaks \/ Wakes \/ WaitsAgain

-----------------------------------------------------------------------------
(* runCiStatusWithWait                                                       *)

VARIABLE ci \* [at, now, budget, nap, began, run, read, aborted]

CiInit ==
    \E budget \in CiBudgets :
        ci = [at |-> "asks", now |-> 0, budget |-> budget, nap |-> FirstNap, began |-> 0,
              run |-> "running", read |-> "running", aborted |-> FALSE]

\* One dispatch: its reply shows the run as it was at its start or later.
CiCalls ==
    /\ ci.at = "asks"
    /\ \E took \in 0..CiCallMax, seen \in {"running", "settled", "unreadable"} :
          /\ seen = "settled" => ci.run = "settled"
          /\ seen = "running" => ci.run = "running"
          /\ ci' = [ci EXCEPT !.at = "judges", !.read = seen, !.now = @ + took, !.began = ci.now]

RunSettles == ci.run = "running" /\ ci.at # "told" /\ ci' = [ci EXCEPT !.run = "settled"]
CiAborts == ~ci.aborted /\ ci.at # "told" /\ ci' = [ci EXCEPT !.aborted = TRUE]

Nap == Least(ci.nap, ci.budget - ci.now)

CiJudges ==
    /\ ci.at = "judges"
    /\ ci' = IF ci.read # "running" \/ ci.now >= ci.budget \/ ci.aborted THEN [ci EXCEPT !.at = "told"]
             ELSE [ci EXCEPT !.at = "naps"]

\* sleepUnlessAborted
CiNaps ==
    /\ ci.at = "naps"
    /\ \E slept \in IF ci.aborted THEN 0..Nap ELSE {Nap} :
          ci' = [ci EXCEPT !.at = "asks", !.now = @ + slept, !.nap = Least(2 * @, LongNap)]

CiStep == CiCalls \/ RunSettles \/ CiAborts \/ CiJudges \/ CiNaps

-----------------------------------------------------------------------------
waitsVars == <<times, wait, ci>>
WaitsInit == PlanInit /\ WaitInit /\ CiInit

WaitsTypeOK ==
    /\ times.gets.poll \in Nat /\ times.gets.limit \in Nat
    /\ wait.at \in {"enter", "look", "sleeps", "woken"} /\ wait.watch \in {"on", "none"}
    /\ ci.at \in {"asks", "judges", "naps", "told"} /\ {ci.now, ci.nap, ci.began} \subseteq Nat

(* A call is refused or gets the poll it asked for and the very limit it     *)
(* asked for; and where it gave one of the two and the poll may be as long,  *)
(* the poll outlasts the process, so that its answer is read by this call.   *)
PollOutlasts ==
    times.gets.at = "planned" /\ ~times.gets.refused =>
        LET ask == times.ask
            get == times.gets
        IN /\ Usable(ask.seconds) => get.poll >= ask.seconds.n
           /\ HasPrefix(ask) => get.limit = ask.prefix.n
           /\ ask.runs /\ ~ask.resume /\ HasPrefix(ask) /\ ~Usable(ask.seconds)
                 /\ ask.prefix.n + Margin <= ask.ceiling => get.poll >= get.limit + Margin
           /\ ask.runs /\ ~ask.resume /\ ~HasPrefix(ask) /\ Usable(ask.seconds)
                 /\ ask.seconds.n >= ExecDefault + Margin => get.poll >= get.limit + Margin

(* An answer that lands while a call waits with a working watch wakes it, at *)
(* whatever line of the wait it lands: the fallback is not needed.           *)
LandingIsSeen == wait.at = "sleeps" /\ wait.landed /\ wait.watch = "on" => wait.told

(* ci-status asks until the run has settled or its time is over: it asks no  *)
(* more after that, and a run it gives up on is one it asked for in the last *)
(* moment, or was asking for when the time ran out.                          *)
CiAsksToTheEnd ==
    /\ ci.began <= ci.budget
    /\ ci.at = "told" /\ ci.read = "running" /\ ~ci.aborted => ci.now >= ci.budget

(* The state is typed, and each of the waits is as long as it must be.       *)
WaitsInv == WaitsTypeOK /\ PollOutlasts /\ LandingIsSeen /\ CiAsksToTheEnd
================================================================================
