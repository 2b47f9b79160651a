----------------------------- MODULE ReplyPages ----------------------------
(***************************************************************************)
(* How a caller of src/src/dispatch.js reads what does not fit in one      *)
(* reply: fs_read by lines (the range keys, the pages cut to the reply     *)
(* cap), gm_result by characters of a spilled file, and the notice of a    *)
(* reply that was cut (capReplyText).                                      *)
(*                                                                         *)
(* A text is lengths only: a file is the sequence of its line lengths, a   *)
(* spilled reply its number of characters.                                 *)
(***************************************************************************)
EXTENDS Naturals, Sequences, FiniteSetsExt, SequencesExt, Functions

CONSTANTS FileLines,    \* line lengths of the file that is read
          Frame,        \* characters a reply adds around file text
          InlineMax,    \* characters of an unranged page
          Caps,         \* reply caps a caller may ask for
          Chars,        \* characters of the spilled reply
          Limits,       \* page limits a caller may ask for
          Notices       \* lengths of the cut notices, longest first

Total == Len(FileLines)

ASSUME PageBounds ==
  /\ FileLines \in Seq(Nat) /\ Total > 0 /\ Chars \in Nat
  /\ \A n \in 1..Total : \E cap \in Caps : FileLines[n] + Frame <= cap
  /\ Caps \subseteq Nat /\ \E largest \in Caps : \A cap \in Caps : cap <= largest
  /\ 0 \notin Limits /\ Limits \subseteq Nat
  /\ Notices \in Seq(Nat \ {0}) /\ Len(Notices) > 1
  /\ \A i \in 1..Len(Notices) - 1 : Notices[i] > Notices[i + 1]

VARIABLES
  doing,    \* what the caller reads: a file by lines, a spill by characters, one reply
  reader,   \* the fs_read caller: the line it asks for next, its cap
  pages,    \* line intervals it was given, in order
  paging,   \* the gm_result caller: the offset it asks for next
  texts,    \* character intervals it was given, in order
  cut       \* the last reply that was cut

pageVars == <<doing, reader, pages, paging, texts, cut>>

MinOf(a, b) == IF a < b THEN a ELSE b

-----------------------------------------------------------------------------
\* fs_read

\* Characters of lines a..b joined by newlines.
Joined(a, b) == FoldFunctionOnSet(LAMBDA x, y : x + y, b - a, FileLines, a..b)

\* fsReadRequestedRange and fsReadRangeCanonicalBody: the spellings come down
\* to a first line and an optional last one; a count is a number of lines.
Ranges(start) ==
  {[start |-> start, last |-> Total]}                                  \* no end given
  \cup {[start |-> start, last |-> end] : end \in start..Total + 1}       \* endLine, end, to
  \cup {[start |-> start, last |-> start + count - 1] : count \in 1..2}   \* limit, lines, count

\* Mutant of NextLine: the last line given is asked for again.
NextLineSame(end) == end

NextLine(end) == end + 1

\* applyFsReadRangeFallbackRaw, or a guest that serves the range itself.
RangeReply(r) ==
  LET end == MinOf(r.last, Total)
  IN [start |-> r.start, end |-> end, more |-> end < Total, next |-> NextLine(end), partial |-> FALSE]

\* fsReadUnrangedPage: whole lines up to the inline limit, at least one.
UnrangedPage ==
  LET count == Max({1} \cup {n \in 1..Total : Joined(1, n) <= InlineMax})
  IN [start |-> 1, end |-> count, more |-> count < Total, next |-> NextLine(count), partial |-> FALSE]

\* fsReadFitReply: the most lines that fit the cap; one line too long for it is
\* cut by characters, and the reply names no next line.
FitReply(p, cap) ==
  IF Joined(p.start, p.end) + Frame <= cap THEN p
  ELSE LET fitting == {n \in p.start..p.end : Joined(p.start, n) + Frame <= cap}
       IN IF fitting = {} THEN [p EXCEPT !.end = p.start, !.more = TRUE, !.next = 0, !.partial = TRUE]
          ELSE [p EXCEPT !.end = Max(fitting), !.more = TRUE, !.next = NextLine(Max(fitting))]

\* The caller takes the page and follows next_start_line; a partial line it
\* asks for again under a larger cap.
TakePage(p) ==
  /\ pages' = IF p.partial THEN pages ELSE Append(pages, <<p.start, p.end>>)
  /\ reader' = IF p.partial THEN [reader EXCEPT !.cap = Max(Caps)]
               ELSE IF p.more THEN [reader EXCEPT !.want = p.next] ELSE [reader EXCEPT !.done = TRUE]

ReadWhole ==
  /\ doing = "lines" /\ ~reader.done /\ reader.want = 1 /\ pages = <<>>
  /\ TakePage(FitReply(UnrangedPage, reader.cap))
  /\ UNCHANGED <<doing, paging, texts, cut>>

ReadRange ==
  /\ doing = "lines" /\ ~reader.done
  /\ \E r \in Ranges(reader.want) : TakePage(FitReply(RangeReply(r), reader.cap))
  /\ UNCHANGED <<doing, paging, texts, cut>>

-----------------------------------------------------------------------------
\* gm_result

\* The pieces the decoder hands out, as lengths: any split of the text.
Splits == {p \in UNION {[1..k -> 1..Chars] : k \in 1..3} : FoldLeft(LAMBDA sum, piece : sum + piece, 0, p) = Chars}

\* readUtf8Page: every piece adds to the page the characters of it that lie
\* at or past the offset, up to the limit.
Consume(page, piece, offset, limit) ==
  LET remaining == limit - page.length
      start == IF offset > page.seen THEN offset - page.seen ELSE 0
      taken == IF remaining > 0 /\ page.seen + piece > offset THEN MinOf(remaining, piece - start) ELSE 0
  IN [from |-> IF page.length = 0 /\ taken > 0 THEN page.seen + start ELSE page.from,
      length |-> page.length + taken, seen |-> page.seen + piece]

Utf8Page(pieces, offset, limit) ==
  FoldLeft(LAMBDA page, piece : Consume(page, piece, offset, limit),
           [from |-> offset, length |-> 0, seen |-> 0], pieces)

\* gmResult: next_offset while characters are left.
ReadResult ==
  /\ doing = "characters" /\ ~paging.done
  /\ \E pieces \in Splits, limit \in Limits :
       LET page == Utf8Page(pieces, paging.want, limit)
           more == paging.want + limit < page.seen
       IN /\ texts' = Append(texts, <<page.from, page.from + page.length>>)
          /\ paging' = [want |-> IF more THEN paging.want + limit ELSE paging.want, done |-> ~more]
  /\ UNCHANGED <<doing, reader, pages, cut>>

-----------------------------------------------------------------------------
\* capReplyText

\* The longest notice that fits under the cap beside the outcome lines; the full
\* one only when it takes at most half of the cap.
NoticeLength(kept, cap) ==
  LET usable == {i \in 1..Len(Notices) : kept + Notices[i] <= cap /\ (i = 1 => Notices[1] * 2 <= cap)}
  IN IF usable = {} THEN 0 ELSE Notices[Min(usable)]

\* The head is cut to what the outcome and the notice leave; then the full
\* notice is rebuilt with the delivered count, which may be one digit longer.
CutReply ==
  /\ doing = "reply"
  /\ \E outcome \in 0..Notices[1], cap \in Caps, body \in 0..Chars :
    LET text == body + outcome
        kept == MinOf(outcome, cap)
        notice == NoticeLength(kept, cap)
        room == IF cap > kept + notice THEN cap - kept - notice ELSE 0
    IN /\ text > cap
       /\ \E head \in 0..MinOf(body, room), grown \in {0, 1} :    \* cut back to a line end
            LET rebuilt == IF notice = Notices[1] /\ kept + head + notice + grown <= cap THEN notice + grown ELSE notice
            IN cut' = [cap |-> cap, kept |-> kept, head |-> head, notice |-> rebuilt, full |-> text]
       /\ UNCHANGED <<doing, reader, pages, paging, texts>>

-----------------------------------------------------------------------------
PagesInit ==
  /\ doing \in {"lines", "characters", "reply"}
  /\ \E cap \in Caps : reader = [want |-> 1, cap |-> cap, done |-> FALSE]
  /\ pages = <<>>
  /\ paging = [want |-> 0, done |-> FALSE]
  /\ texts = <<>>
  /\ cut = [cap |-> 0, kept |-> 0, head |-> 0, notice |-> 0, full |-> 0]

PagesNext == ReadWhole \/ ReadRange \/ ReadResult \/ CutReply
PagesSpec == PagesInit /\ [][PagesNext]_pageVars

PagesTypeOK ==
  /\ reader.want \in 1..Total /\ reader.cap \in Caps /\ reader.done \in BOOLEAN
  /\ paging.want \in 0..Chars /\ paging.done \in BOOLEAN

\* Pages put end to end are the text: nothing is skipped, nothing is given twice,
\* and a reader that was told there is no more has all of it, whatever ranges,
\* limits and caps it asked for on the way.
Contiguous(intervals, first, step) ==
  /\ intervals # <<>> => intervals[1][1] = first
  /\ \A i \in 1..Len(intervals) - 1 : intervals[i + 1][1] = intervals[i][2] + step

PagesCoverTheText ==
  /\ Contiguous(pages, 1, 1) /\ (reader.done /\ pages # <<>> => pages[Len(pages)][2] = Total)
  /\ Contiguous(texts, 0, 0) /\ (paging.done => texts[Len(texts)][2] = Chars)

\* A reply that was cut keeps to its cap and still says that it was cut, when
\* the cap has room for the shortest notice beside the outcome lines.
CutIsAnnounced ==
  /\ cut.kept + cut.head + cut.notice <= cut.cap
  /\ cut.full > cut.cap /\ cut.kept + Notices[Len(Notices)] <= cut.cap => cut.notice > 0

\* The state is typed, pages cover the text, and a cut is announced.
PagesInv == PagesTypeOK /\ PagesCoverTheText /\ CutIsAnnounced
=============================================================================
