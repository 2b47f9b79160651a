------------------------------ MODULE BrowserFeed ------------------------------
(* The live browser feed (browser-feed.js): the guest appends a line per      *)
(* event to a file, a watch of the server tails it and pushes each new line   *)
(* to the client. The file is cut in halves of lines, since the guest may be  *)
(* in the middle of one when the server reads.                                *)
EXTENDS Naturals, SequencesExt

CONSTANTS
    Events,     \* events the guest emits
    MaxWatch    \* watches started

ASSUME FeedBounds == {Events, MaxWatch} \subseteq Nat

VARIABLES
    spoolFile,  \* halves <<seq, "head">> and <<seq, "tail">>, in order
    emitted,    \* seq of the last event
    feed,       \* the watch in feeds; from: the last seq when it began
    pushed,     \* seqs this watch has pushed
    renewed     \* the file was started anew: "no", "yes", "missed" by a read

feedVars == <<spoolFile, emitted, feed, pushed, renewed>>
guestVars == <<spoolFile, emitted>>

NoWatch == [on |-> FALSE, nth |-> 0, offset |-> 0, partial |-> <<>>, lastSeq |-> 0, from |-> 0]

FeedInit == spoolFile = <<>> /\ emitted = 0 /\ feed = NoWatch /\ pushed = <<>> /\ renewed = "no"

-----------------------------------------------------------------------------
\* The guest: a line is written in two steps, its seq only grows; it may start
\* its file anew and keep the newest lines.
WholeFile == Len(spoolFile) % 2 = 0
GuestWritesHead ==
    /\ emitted < Events /\ WholeFile
    /\ emitted' = emitted + 1
    /\ spoolFile' = Append(spoolFile, <<emitted + 1, "head">>)
    /\ UNCHANGED <<feed, pushed, renewed>>
GuestWritesTail ==
    /\ ~WholeFile
    /\ spoolFile' = Append(spoolFile, <<emitted, "tail">>)
    /\ UNCHANGED <<emitted, feed, pushed, renewed>>
GuestRotates ==
    /\ spoolFile # <<>> /\ WholeFile
    /\ \E kept \in 0..(Len(spoolFile) \div 2 - 1) :
          spoolFile' = SubSeq(spoolFile, Len(spoolFile) - 2 * kept + 1, Len(spoolFile))
    /\ renewed' = IF feed.offset > 0 /\ renewed = "no" THEN "yes" ELSE renewed
    /\ UNCHANGED <<emitted, feed, pushed>>

-----------------------------------------------------------------------------
\* The lines of a text end at its tails; what is after the last of them is kept.
LastEnd(text) == FoldLeftDomain(LAMBDA end, i : IF text[i][2] = "tail" THEN i ELSE end, 0, text)
\* A tail read without its head does not parse; an event is pushed when it is
\* newer than the last one pushed.
Parsed(text, i) == text[i][2] = "tail" /\ i > 1 /\ text[i - 1] = <<text[i][1], "head">>
LastOf(told, last) == IF told = <<>> THEN last ELSE Last(told)
Newer(text, last) ==
    FoldLeftDomain(LAMBDA told, i : IF Parsed(text, i) /\ text[i][1] > LastOf(told, last) THEN Append(told, text[i][1]) ELSE told,
                   <<>>, text)

\* pumpOnce; a file shorter than what was read is one started anew.
Shrunk == Len(spoolFile) < feed.offset
Pump ==
    /\ feed.on
    /\ LET start == IF Shrunk THEN 0 ELSE feed.offset
           text == (IF Shrunk THEN <<>> ELSE feed.partial) \o SubSeq(spoolFile, start + 1, Len(spoolFile))
           told == Newer(text, feed.lastSeq)
       IN /\ feed' = [feed EXCEPT !.offset = Len(spoolFile),
                                  !.partial = SubSeq(text, LastEnd(text) + 1, Len(text)),
                                  !.lastSeq = LastOf(told, feed.lastSeq)]
          /\ pushed' = pushed \o told
    /\ renewed' = IF renewed = "yes" THEN IF Shrunk THEN "no" ELSE "missed" ELSE renewed
    /\ UNCHANGED guestVars

\* startFeedWatch: from the end of the file, in place of the watch there is.
StartFeedWatch ==
    /\ feed.nth < MaxWatch
    /\ feed' = [NoWatch EXCEPT !.on = TRUE, !.nth = feed.nth + 1, !.offset = Len(spoolFile), !.from = emitted]
    /\ pushed' = <<>> /\ renewed' = "no" /\ UNCHANGED guestVars

\* stopFeedWatch: asked for, or past the deadline of the watch.
StopFeedWatch ==
    /\ feed.on /\ feed' = [NoWatch EXCEPT !.nth = feed.nth]
    /\ pushed' = <<>> /\ renewed' = "no" /\ UNCHANGED guestVars

FeedNext == GuestWritesHead \/ GuestWritesTail \/ GuestRotates \/ Pump \/ StartFeedWatch \/ StopFeedWatch

-----------------------------------------------------------------------------
FeedTypeOK ==
    /\ emitted \in 0..Events /\ feed.on \in BOOLEAN /\ renewed \in {"no", "yes", "missed"}
    /\ {feed.offset, feed.lastSeq, feed.from} \subseteq Nat /\ feed.nth \in 0..MaxWatch

(* A watch pushes an event once and in the order of their seqs, also when    *)
(* the guest starts its file anew with lines already pushed.                 *)
PushedInOrder == \A i, j \in DOMAIN pushed : i < j => pushed[i] < pushed[j]

(* Whatever line was read whole or in parts: an event of a later time than   *)
(* the watch is pushed once its line was read to the end. A file started     *)
(* anew that is longer than what was read, when it is next read, is missed.   *)
ReadIsPushed ==
    feed.on /\ renewed = "no" =>
        \A i \in 1..feed.offset : spoolFile[i][2] = "tail" /\ spoolFile[i][1] > feed.from =>
            \E j \in DOMAIN pushed : pushed[j] = spoolFile[i][1]

FeedInv == FeedTypeOK /\ PushedInOrder /\ ReadIsPushed
================================================================================
