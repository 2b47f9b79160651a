------------------------------ MODULE SpoolClient ------------------------------
(* dispatchSpool (spool-transport.js): one request written to the spool of a  *)
(* runner, and the wait for its reply by a directory watch, by looks after a  *)
(* silence of the watch, and by a deadline. Time is counted in ticks of the   *)
(* poll timer; the runner writes its reply in two steps.                      *)
EXTENDS Naturals

CONSTANTS
    Budget,     \* ticks from the start of the wait to its deadline
    Silence,    \* WATCH_SILENT, in ticks
    Retries     \* RENAME_BACKOFF, entries

ASSUME ClientTimes == {Budget, Silence, Retries} \subseteq Nat \ {0}

VARIABLES
    client,     \* [at: its line, tried: renames, temp: its temporary file]
    waiter,     \* waitForReply: [result, watch, heard: tick of the last event, tick]
    spoolSide   \* [runner, asked: the request, reply, landed: tick of the whole reply]

clientVars == <<client, waiter, spoolSide>>

Lines == {"check", "write", "rename", "joins", "gone"}
Results == {"none", "reply", "timeout", "dead", "failed", "unreadable"}

ClientInit ==
    /\ client = [at |-> "check", tried |-> 0, temp |-> FALSE]
    /\ waiter = [result |-> "none", on |-> FALSE, watch |-> "none", heard |-> 0, tick |-> 0]
    /\ \E runner \in {"lives", "ended"} :
          spoolSide = [runner |-> runner, asked |-> "no", reply |-> "none", landed |-> 0]

Open == waiter.on /\ waiter.result = "none"
\* finish: the first outcome stays, and the watch and the timer end.
Finish(w, result) == IF w.on /\ w.result = "none" THEN [w EXCEPT !.on = FALSE, !.result = result, !.watch = "none"] ELSE w
\* check: readCompleteReply takes a reply that does not parse for none.
Looked(w) == IF spoolSide.reply = "whole" THEN Finish(w, "reply") ELSE w

\* spoolHealth; a pid-less or unreadable status is a runner not alive.
CheckHealth ==
    /\ client.at = "check"
    /\ IF spoolSide.runner = "lives"
         THEN /\ client' = [client EXCEPT !.at = "write"]
              /\ \E watch \in {"hears", "none"} :
                    waiter' = [waiter EXCEPT !.on = TRUE, !.watch = watch]
         ELSE client' = [client EXCEPT !.at = "gone"] /\ waiter' = [waiter EXCEPT !.result = "dead"]
    /\ UNCHANGED spoolSide

\* submitRequest: the temporary file, then its rename, tried again when the
\* file is held; any other error removes the file (which succeeds here) and
\* cancels the wait.
WriteTemp ==
    /\ client.at = "write" /\ client' = [client EXCEPT !.at = "rename", !.temp = TRUE]
    /\ UNCHANGED <<waiter, spoolSide>>
GiveUp == client' = [client EXCEPT !.at = "gone", !.temp = FALSE]
SubmitFails ==
    /\ client.at \in {"write", "rename"} /\ GiveUp
    /\ waiter' = [waiter EXCEPT !.on = FALSE, !.result = "failed", !.watch = "none"]
    /\ UNCHANGED spoolSide
RenameHeld ==
    /\ client.at = "rename" /\ client.tried < Retries
    /\ client' = [client EXCEPT !.tried = @ + 1] /\ UNCHANGED <<waiter, spoolSide>>
RenameIntoPlace ==
    /\ client.at = "rename"
    /\ client' = [client EXCEPT !.at = "joins", !.temp = FALSE]
    /\ spoolSide' = [spoolSide EXCEPT !.asked = "in"]
    /\ UNCHANGED waiter
\* The caller has the outcome of the wait.
Joins ==
    /\ client.at = "joins" /\ waiter.result # "none"
    /\ client' = [client EXCEPT !.at = "gone"] /\ UNCHANGED <<waiter, spoolSide>>

\* The runner claims the request and writes its reply, in two steps, or ends.
RunnerClaims == spoolSide.asked = "in" /\ spoolSide.runner = "lives" /\ spoolSide' = [spoolSide EXCEPT !.asked = "taken"]
          /\ UNCHANGED <<client, waiter>>
RunnerEnds == spoolSide.runner = "lives" /\ spoolSide' = [spoolSide EXCEPT !.runner = "ended"] /\ UNCHANGED <<client, waiter>>

\* A watch that hears tells of a change, and the waiter looks: at what is there
\* when it is told, later than the change.
Writes ==
    /\ spoolSide.asked = "taken" /\ spoolSide.runner = "lives" /\ spoolSide.reply # "whole"
    /\ spoolSide' = [spoolSide EXCEPT !.reply = IF @ = "none" THEN "part" ELSE "whole", !.landed = waiter.tick]
    /\ UNCHANGED <<client, waiter>>
WatchTells ==
    /\ Open /\ waiter.watch = "hears" /\ spoolSide.reply # "none"
    /\ waiter' = Looked([waiter EXCEPT !.heard = waiter.tick]) /\ UNCHANGED <<client, spoolSide>>
\* It breaks, with an error event or without a word.
WatcherBreaks ==
    /\ waiter.watch = "hears" /\ \E watch \in {"none", "deaf"} : waiter' = [waiter EXCEPT !.watch = watch]
    /\ UNCHANGED <<client, spoolSide>>

\* A watch that broke with an error is doubted, and one that says nothing.
Silent == waiter.watch = "none" \/ waiter.tick + 1 > waiter.heard + Silence

\* A reply that is there and cannot be read.
ReadFails ==
    /\ Open /\ spoolSide.reply # "none" /\ (waiter.watch = "hears" \/ Silent)
    /\ waiter' = Finish(waiter, "unreadable") /\ UNCHANGED <<client, spoolSide>>

\* The timer of the waiter, once the submission waits for something: past the
\* deadline it looks no more.
Ticks ==
    /\ Open /\ (client.at = "joins" \/ client.tried > 0)
    /\ LET ticked == [waiter EXCEPT !.tick = @ + 1]
       IN waiter' = IF ticked.tick >= Budget THEN Finish(ticked, "timeout") ELSE IF Silent THEN Looked(ticked) ELSE ticked
    /\ UNCHANGED <<client, spoolSide>>

ClientNext ==
    \/ CheckHealth \/ WriteTemp \/ SubmitFails \/ RenameHeld \/ RenameIntoPlace \/ Joins
    \/ RunnerClaims \/ RunnerEnds \/ Writes \/ WatchTells \/ WatcherBreaks \/ ReadFails \/ Ticks

-----------------------------------------------------------------------------
ClientTypeOK ==
    /\ client.at \in Lines /\ client.tried \in 0..Retries /\ waiter.result \in Results
    /\ waiter.watch \in {"none", "hears", "deaf"} /\ waiter.tick \in 0..Budget /\ waiter.heard <= waiter.tick

(* A call told that nothing was written, or that its request could not be,   *)
(* left neither a request nor a temporary file; one told that its time is    *)
(* over has its request in the spool once it has left, and a reply is given  *)
(* only whole.                                                               *)
OutcomeIsTrue ==
    /\ waiter.result = "reply" => spoolSide.reply = "whole"
    /\ client.at = "gone" => ~client.temp
    /\ client.at = "gone" /\ waiter.result \in {"dead", "failed"} => spoolSide.asked = "no"
    /\ client.at = "gone" /\ waiter.result = "timeout" => spoolSide.asked # "no"

(* A wait is not over its time for a reply that lay there, whole, for longer *)
(* than the silence: also when the watch went deaf without a word.           *)
ReplyIsSeen ==
    waiter.result = "timeout" /\ spoolSide.reply = "whole" => waiter.tick <= spoolSide.landed + Silence + 2

ClientInv == ClientTypeOK /\ OutcomeIsTrue /\ ReplyIsSeen
================================================================================
