-------------------------------- MODULE MCParts --------------------------------
(* One run over parts of gm-mcp that share no state: a behaviour is one of   *)
(* them, the others rest in one initial state.                               *)
EXTENDS Publish, Housekeep, ReplyPages, CloseGate, GitRepo, FileCalls, Janitor,
        CodeMode, WriterLock, TriageFiles, Leases, Waits, Liveness, BrowserFeed, SpoolClient,
        SuperviseLock, TLC

CONSTANTS a, b, c, doc, row, closes, text0, k1, k2, k3,
          s1, s2, op, bak, bak2, shelf, lane_, x, y,
          r1, r2, c1, c2, g1, g2, e1, e2, p1, f1, f2, z1, m1,
          q1, q2, d1, i1, n1

VARIABLE subject

\* Publish: three lanes, each in a clone of its own.
Clones == a :> k1 @@ b :> k2 @@ c :> k3
EditsOf == a :> {doc} @@ b :> {doc, row} @@ c :> {doc}
DropsOf == [l \in Lane |-> {}]
PinsOf == a :> 2 @@ b :> 3 @@ c :> 0
Clash == {{a, c}}

\* Housekeep: what is prunable, and base names of its archives.
Classes == bak :> "bak" @@ bak2 :> "bak" @@ shelf :> "shelf" @@ lane_ :> "lane"
Bases == bak :> x @@ bak2 :> x @@ shelf :> y @@ lane_ :> y

\* ReplyPages: an empty line, one longer than the smallest cap, three notices.
LinesOf == <<2, 1, 5, 0, 2>>
NoticesOf == <<6, 4, 2>>

\* GitRepo: a chain of three directories, and one beside it.
Dirs == {<<>>, <<1>>, <<1, 1>>, <<2>>}

\* FileCalls: empty files, files with and without a last line end, empty lines.
TextsOf == {<<>>, <<0>>, <<1>>, <<1, 0, 0, 2>>, <<1, 0, 2, 0>>, <<1, 0, 0>>}
NewTexts == {<<>>, <<3>>, <<0>>, <<3, 0>>, <<3, 0, 0>>}
DirOfFile == [f \in File |-> "d"]

\* Janitor: a record that has the pid in its name.
PidInOf == n1 :> {q1}

\* Liveness: two verbs.
Verbs == [r \in Request |-> IF r = 2 THEN "fs_read" ELSE "codesearch"]

Subjects == {"publish", "housekeep", "pages", "gate", "layout", "lock", "edits", "adds", "janitor",
             "codemode", "writers", "work", "queue", "orphans", "leases", "times", "wake", "ci", "daemon", "scan",
             "feed", "client", "supervisors"}

publishing == <<pubVars, hkVars, pageVars, gateVars>>
calling == <<gitVars, fileVars, janVars, modeVars>>
triage == <<writerVars, workVars, queueVars, orphanVars>>
dispatching == <<leaseVars, times, wait, ci, lookVars, scanVars>>
besides == <<feedVars, clientVars, superVars>>
partsVars == <<subject, publishing, calling, triage, dispatching, besides>>

\* The parts whose subject it is not start in one of their initial states.
PartsInit ==
    /\ subject \in Subjects
    /\ PubInit /\ HkInit /\ GateInit /\ GitInit /\ JanInit /\ ModeInit /\ LeasesInit
    /\ PlanInit /\ WaitInit /\ LooksInit /\ FeedInit
    /\ ClientInit /\ (subject # "client" => spoolSide.runner = "lives")
    /\ SuperInit /\ (subject # "supervisors" => superLock = NoLock)
    /\ PagesInit /\ (subject # "pages" => doing = "lines" /\ reader.cap = 5)
    /\ FileInit /\ (subject # "edits" => text = <<>>)
    /\ LockInit /\ WorkInit
    /\ QueueInit
    /\ writer["w1"].row = "x" \* rows have no order
    /\ (subject # "queue" => queue = {} /\ \A w \in Writer : writer[w].act = "add" /\ writer[w].row = "x")
    /\ OrphanInit /\ (subject # "orphans" => served = {} /\ \A r \in Asked : spooled[r] = "in")
    /\ CiInit /\ (subject # "ci" => ci.budget = 1)
    /\ ScanInit /\ (subject # "scan" => \A r \in Request : spool[r] = "unsent")
    /\ partsVars = partsVars \* TLC works the values out: the VIEW leaves out those that rest

OthersRest(others) == UNCHANGED <<subject, others>>
Rest(others) == OthersRest(<<others, besides>>)
Usual == <<publishing, calling, triage, dispatching>>

PartsNext ==
    \/ subject = "publish" /\ PubNext /\ Rest(<<hkVars, pageVars, gateVars, calling, triage, dispatching>>)
    \/ subject = "housekeep" /\ HkNext /\ Rest(<<pubVars, pageVars, gateVars, calling, triage, dispatching>>)
    \/ subject = "pages" /\ PagesNext /\ Rest(<<pubVars, hkVars, gateVars, calling, triage, dispatching>>)
    \/ subject = "gate" /\ GateNextStep /\ Rest(<<pubVars, hkVars, pageVars, calling, triage, dispatching>>)
    \/ subject = "layout" /\ LayoutNext /\ Rest(<<publishing, fileVars, janVars, modeVars, triage, dispatching>>)
    \/ subject = "lock" /\ LockNext /\ Rest(<<publishing, fileVars, janVars, modeVars, triage, dispatching>>)
    \/ subject = "edits" /\ EditNext /\ Rest(<<publishing, gitVars, janVars, modeVars, triage, dispatching>>)
    \/ subject = "adds" /\ AddNext /\ Rest(<<publishing, gitVars, janVars, modeVars, triage, dispatching>>)
    \/ subject = "janitor" /\ JanNext /\ Rest(<<publishing, gitVars, fileVars, modeVars, triage, dispatching>>)
    \/ subject = "codemode" /\ ModeNext /\ Rest(<<publishing, gitVars, fileVars, janVars, triage, dispatching>>)
    \/ subject = "writers" /\ LockStep /\ Rest(<<publishing, calling, workVars, queueVars, orphanVars, dispatching>>)
    \/ subject = "work" /\ WorkStep /\ Rest(<<publishing, calling, writerVars, queueVars, orphanVars, dispatching>>)
    \/ subject = "queue" /\ QueueStep /\ Rest(<<publishing, calling, writerVars, workVars, orphanVars, dispatching>>)
    \/ subject = "orphans" /\ OrphanStep /\ Rest(<<publishing, calling, writerVars, workVars, queueVars, dispatching>>)
    \/ subject = "leases" /\ LeasesNext /\ Rest(<<publishing, calling, triage, times, wait, ci, lookVars, scanVars>>)
    \/ subject = "times" /\ PlanStep /\ Rest(<<publishing, calling, triage, leaseVars, wait, ci, lookVars, scanVars>>)
    \/ subject = "wake" /\ WaitStep /\ Rest(<<publishing, calling, triage, leaseVars, times, ci, lookVars, scanVars>>)
    \/ subject = "ci" /\ CiStep /\ Rest(<<publishing, calling, triage, leaseVars, times, wait, lookVars, scanVars>>)
    \/ subject = "daemon" /\ LookStep /\ Rest(<<publishing, calling, triage, leaseVars, times, wait, ci, scanVars>>)
    \/ subject = "scan" /\ ScanStep /\ Rest(<<publishing, calling, triage, leaseVars, times, wait, ci, lookVars>>)
    \/ subject = "feed" /\ FeedNext /\ OthersRest(<<Usual, clientVars, superVars>>)
    \/ subject = "client" /\ ClientNext /\ OthersRest(<<Usual, feedVars, superVars>>)
    \/ subject = "supervisors" /\ SuperNext /\ OthersRest(<<Usual, feedVars, clientVars>>)

PartsSpec == PartsInit /\ [][PartsNext]_partsVars

\* What a state is told apart by: the parts that rest never change.
Moving ==
    CASE subject = "publish" -> <<subject, pubVars>>
      [] subject = "housekeep" -> <<subject, hkVars>>
      [] subject = "pages" -> <<subject, pageVars>>
      [] subject = "gate" -> <<subject, gateVars>>
      [] subject \in {"layout", "lock"} -> <<subject, gitVars>>
      [] subject \in {"edits", "adds"} -> <<subject, fileVars>>
      [] subject = "janitor" -> <<subject, janVars>>
      [] subject = "codemode" -> <<subject, modeVars>>
      [] subject = "writers" -> <<subject, writerVars>>
      [] subject = "work" -> <<subject, workVars>>
      [] subject = "queue" -> <<subject, queueVars>>
      [] subject = "orphans" -> <<subject, orphanVars>>
      [] subject = "leases" -> <<subject, leaseVars>>
      [] subject = "times" -> <<subject, times>>
      [] subject = "wake" -> <<subject, wait>>
      [] subject = "ci" -> <<subject, ci>>
      [] subject = "daemon" -> <<subject, lookVars>>
      [] subject = "feed" -> <<subject, feedVars>>
      [] subject = "client" -> <<subject, clientVars>>
      [] subject = "supervisors" -> <<subject, superVars>>
      [] OTHER -> <<subject, scanVars>>

\* Bounds: one use of an entry at a time, two passes at once.
Bounded == Cardinality(UsesNow) <= 1 /\ Cardinality({p \in HkProc : ~PassAt(p, "off")}) <= 2

-----------------------------------------------------------------------------
(* What is read while it grows is told whole and once: the pages of a reply  *)
(* file, and the events of a browser feed.                                   *)
TellingInv == PagesInv /\ FeedInv

(* Whoever waits for an answer waits as long as it must, and is told what    *)
(* became of its request: a call of the server, and of the spool transport.  *)
CallersInv == WaitsInv /\ ClientInv

(* A lock file names one holder at a time: that of a checkout, and that of   *)
(* the supervisors of a project.                                             *)
HoldersInv == WriterLockInv /\ SuperInv
================================================================================
