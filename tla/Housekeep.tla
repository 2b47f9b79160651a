------------------------------- MODULE Housekeep -------------------------------
(* housekeep (triage-verbs.js): what is prunable under .gm, and the passes    *)
(* that prune it. A server runs one automatic pass when it starts, under a    *)
(* lock and at most once a day; the verb runs a pass of its own, with neither. *)
(* Every await of a pass is a step, and so is every system call of an archive. *)
(* Ages are classes: an item is old when its class lets it be pruned, the     *)
(* stamp after a day, the lock after two hours. Sizes and the report are left *)
(* out. What is old is not written again.                                     *)
EXTENDS Naturals, FiniteSets

CONSTANTS
    Server,   \* processes that run an automatic pass when they start
    Operator, \* processes that run the verb with apply
    Item,     \* what a pass may prune
    ClassOf,  \* "lane", "out", "bak", "shelf", "target" or "log"
    BaseOf,   \* the base name its archive gets
    MaxCrash  \* passes ended in the middle

ASSUME PassesApart == Server \cap Operator = {}

Parts == {1, 2} \* entries of a directory

HkProc == Server \cup Operator
Archived == {i \in Item : ClassOf[i] \in {"bak", "shelf"}}

VARIABLES
    disk,    \* what is left of each item
    aged,    \* those old enough
    busy,    \* lanes that are some process's cwd; the target while cargo runs
    archive, \* what each archive of .gm/shelved holds
    stamp,   \* housekeep.json: "none", "fresh", "aged"
    hkLock,  \* housekeep.lock: "free", "held", "stale"
    pass,    \* the pass of each process
    begun,   \* history: automatic passes since the stamp got old
    usurped, \* history: a lock in force was removed since then, as the stale one it followed
    replaced,\* history: items whose archive came after the look of the pass that replaced it
    crashes

hkHistory == <<begun, usurped, replaced>>
hkVars == <<disk, aged, busy, archive, stamp, hkLock, pass, hkHistory, crashes>>

Names == {BaseOf[i] : i \in Archived} \X {0, 1}
NoPass == [at |-> "off", tries |-> 0, plan |-> {}, item |-> {}, expected |-> {}, made |-> {}, name |-> <<>>,
           seen |-> {}]

HkInit ==
    /\ disk = [i \in Item |-> Parts] /\ aged = {} /\ busy = {}
    /\ archive = [n \in Names |-> {}]
    /\ stamp = "none" /\ hkLock = "free"
    /\ pass = [p \in HkProc |-> NoPass]
    /\ begun = 0 /\ usurped = FALSE /\ replaced = {} /\ crashes = 0

PassAt(p, stage) == pass[p].at = stage
PassGoes(p, stage) == pass' = [pass EXCEPT ![p].at = stage]
PassEnds(p) == pass' = [pass EXCEPT ![p] = NoPass]
Due == stamp # "fresh"

\* planHousekeep, planTarget, planWatcherLogs, as the disk and /proc are now.
Prunable == {i \in aged \ busy : disk[i] # {} /\
               (ClassOf[i] = "shelf" => archive[<<BaseOf[i], 0>>] = {})}

Without(items) == [i \in Item |-> IF i \in items THEN {} ELSE disk[i]]

-----------------------------------------------------------------------------
(* housekeepAutomatic: a scan without the lock, the lock, a second look.    *)

HkStart(p) ==
    /\ p \in Server
    /\ PassAt(p, "off")
    /\ Due
    /\ Prunable # {}
    /\ PassGoes(p, "lock")
    /\ UNCHANGED <<disk, aged, busy, archive, stamp, hkLock, hkHistory, crashes>>

TakeLock(p) ==
    /\ PassAt(p, "lock")
    /\ hkLock = "free"
    /\ hkLock' = "held"
    /\ pass' = [pass EXCEPT ![p].at = "due", ![p].tries = 0]
    /\ UNCHANGED <<disk, aged, busy, archive, stamp, hkHistory, crashes>>

\* The lock is there: gone when it is looked at, in force, or stale.
LockExists(p) ==
    /\ PassAt(p, "lock")
    /\ hkLock # "free"
    /\ PassEnds(p) \/ (hkLock = "stale" /\ PassGoes(p, "reclaim"))
    /\ UNCHANGED <<disk, aged, busy, archive, stamp, hkLock, hkHistory, crashes>>

\* The lock of that name is removed, whosever it is by now; the create is tried once more.
ReclaimLock(p) ==
    /\ PassAt(p, "reclaim")
    /\ hkLock' = "free"
    /\ usurped' = (usurped \/ hkLock = "held")
    /\ IF pass[p].tries = 0 THEN pass' = [pass EXCEPT ![p].at = "lock", ![p].tries = 1] ELSE PassEnds(p)
    /\ UNCHANGED <<disk, aged, busy, archive, stamp, begun, replaced, crashes>>

StillDue(p) == PassAt(p, "due") /\ Due

Rescan(p) ==
    /\ StillDue(p)
    /\ PassGoes(p, "scan")
    /\ UNCHANGED <<disk, aged, busy, archive, stamp, hkLock, hkHistory, crashes>>

NotDue(p) ==
    /\ PassAt(p, "due")
    /\ ~Due
    /\ hkLock' = "free"
    /\ PassEnds(p)
    /\ UNCHANGED <<disk, aged, busy, archive, stamp, hkHistory, crashes>>

\* The verb with apply: no lock, no stamp to respect.
HkVerb(p) ==
    /\ p \in Operator
    /\ PassAt(p, "off")
    /\ PassGoes(p, "scan")
    /\ UNCHANGED <<disk, aged, busy, archive, stamp, hkLock, hkHistory, crashes>>

-----------------------------------------------------------------------------
(* housekeepRun and executeHousekeep.                                       *)

Unlocks(p) == hkLock' = IF p \in Server THEN "free" ELSE hkLock

BeginPass(p) ==
    /\ PassAt(p, "scan")
    /\ IF Prunable = {}
       THEN PassEnds(p) /\ Unlocks(p) /\ UNCHANGED <<stamp, hkHistory>>
       ELSE /\ pass' = [pass EXCEPT ![p] = [NoPass EXCEPT !.at = "lanes", !.plan = Prunable]]
            /\ stamp' = "fresh"
            /\ begun' = IF p \in Server THEN begun + 1 ELSE begun
            /\ UNCHANGED <<hkLock, usurped, replaced>>
    /\ UNCHANGED <<disk, aged, busy, archive, crashes>>

OfClass(p, class) == {i \in pass[p].plan : ClassOf[i] = class}

\* The live-process check is made again, and no lane is live that is removed.
PruneLanes(p) ==
    /\ PassAt(p, "lanes")
    /\ disk' = Without(OfClass(p, "lane") \ busy)
    /\ PassGoes(p, "out")
    /\ UNCHANGED <<aged, busy, archive, stamp, hkLock, hkHistory, crashes>>

PruneOut(p) ==
    /\ PassAt(p, "out")
    /\ disk' = Without(OfClass(p, "out"))
    /\ PassGoes(p, "archive")
    /\ UNCHANGED <<aged, busy, archive, stamp, hkLock, hkHistory, crashes>>

\* freeArchiveName for a backup; a shelved directory has one name only.
FreeName(i) ==
    IF ClassOf[i] = "bak" /\ archive[<<BaseOf[i], 0>>] # {} THEN <<BaseOf[i], 1>> ELSE <<BaseOf[i], 0>>

\* Backups come before shelved directories.
NextArchived(p) ==
    IF OfClass(p, "bak") # {} THEN OfClass(p, "bak") ELSE OfClass(p, "shelf")

\* treeFiles: what the archive must list. An item gone by now is kept as missing.
Expect(p) ==
    /\ PassAt(p, "archive")
    /\ \E i \in NextArchived(p) :
          pass' = [pass EXCEPT ![p].plan = @ \ {i},
                               ![p].item = {i},
                               ![p].expected = disk[i],
                               ![p].name = FreeName(i),
                               ![p].at = IF disk[i] = {} THEN "archive" ELSE "tar"]
    /\ UNCHANGED <<disk, aged, busy, archive, stamp, hkLock, hkHistory, crashes>>

TheItem(p) == CHOOSE i \in pass[p].item : TRUE

\* tar -cJf to a file beside the target, from what is there at that time.
Tar(p) ==
    /\ PassAt(p, "tar")
    /\ pass' = [pass EXCEPT ![p].at = "list", ![p].made = disk[TheItem(p)]]
    /\ UNCHANGED <<disk, aged, busy, archive, stamp, hkLock, hkHistory, crashes>>

\* tar -tJf: every expected entry is listed, and no archive has taken the name.
ListsAll(p) ==
    /\ PassAt(p, "list")
    /\ pass[p].expected \subseteq pass[p].made
    /\ PassGoes(p, "exists")
    /\ UNCHANGED <<disk, aged, busy, archive, stamp, hkLock, hkHistory, crashes>>

\* Mutant of NameTaken: an archive of the name is not looked for.
NameTakenNever(p) == FALSE

NameTaken(p) == archive[pass[p].name] # {}

ArchiveExists(p) ==
    /\ PassAt(p, "exists")
    /\ pass' = [pass EXCEPT ![p].at = IF NameTaken(p) THEN "archive" ELSE "rename",
                            ![p].seen = archive[pass[p].name]]
    /\ UNCHANGED <<disk, aged, busy, archive, stamp, hkLock, hkHistory, crashes>>

\* tar fails, runs out of time or lists too little: the item is kept.
ArchiveFails(p) ==
    /\ pass[p].at \in {"tar", "list"}
    /\ PassGoes(p, "archive")
    /\ UNCHANGED <<disk, aged, busy, archive, stamp, hkLock, hkHistory, crashes>>

\* What another pass made under the name since the look is replaced.
RenameArchive(p) ==
    /\ PassAt(p, "rename")
    /\ replaced' = replaced \cup ({e[1] : e \in archive[pass[p].name] \ pass[p].seen} \ pass[p].item)
    /\ archive' = [archive EXCEPT ![pass[p].name] = pass[p].item \X pass[p].made]
    /\ PassGoes(p, "remove")
    /\ UNCHANGED <<disk, aged, busy, stamp, hkLock, begun, usurped, crashes>>

\* rmSync: a file at once, a directory entry by entry.
RemoveArchived(p) ==
    /\ PassAt(p, "remove")
    /\ \E left \in SUBSET disk[TheItem(p)] :
          /\ left # disk[TheItem(p)] \/ left = {}
          /\ left = {} \/ ClassOf[TheItem(p)] = "shelf"
          /\ disk' = [disk EXCEPT ![TheItem(p)] = left]
          /\ PassGoes(p, IF left = {} THEN "archive" ELSE "remove")
    /\ UNCHANGED <<aged, busy, archive, stamp, hkLock, hkHistory, crashes>>

ArchivesDone(p) ==
    /\ PassAt(p, "archive")
    /\ NextArchived(p) = {}
    /\ PassGoes(p, "rest")
    /\ UNCHANGED <<disk, aged, busy, archive, stamp, hkLock, hkHistory, crashes>>

\* target/ once more looked at, the rotated logs, the stamp of the end, the lock.
PruneRest(p) ==
    /\ PassAt(p, "rest")
    /\ disk' = Without((OfClass(p, "target") \ busy) \cup OfClass(p, "log"))
    /\ stamp' = "fresh"
    /\ PassEnds(p)
    /\ Unlocks(p)
    /\ UNCHANGED <<aged, busy, archive, hkHistory, crashes>>

-----------------------------------------------------------------------------
(* The rest of the machine.                                                 *)

\* The host ends the process, or the write of the lock's pid fails: the lock file stays.
HkCrash(p) ==
    /\ ~PassAt(p, "off")
    /\ crashes < MaxCrash
    /\ crashes' = crashes + 1
    /\ PassEnds(p)
    /\ UNCHANGED <<disk, aged, busy, archive, stamp, hkLock, hkHistory>>

ItemAges(i) ==
    /\ i \notin aged
    /\ aged' = aged \cup {i}
    /\ UNCHANGED <<disk, busy, archive, stamp, hkLock, pass, hkHistory, crashes>>

\* A process enters or leaves a lane, a build starts or ends.
BusyChanges(i) ==
    /\ ClassOf[i] \in {"lane", "target"}
    /\ busy' = IF i \in busy THEN busy \ {i} ELSE busy \cup {i}
    /\ UNCHANGED <<disk, aged, archive, stamp, hkLock, pass, hkHistory, crashes>>

\* No pass takes two hours to begin, or a day to end.
LockAges ==
    /\ hkLock = "held"
    /\ \A p \in Server : pass[p].at \notin {"due", "scan"}
    /\ hkLock' = "stale"
    /\ UNCHANGED <<disk, aged, busy, archive, stamp, pass, hkHistory, crashes>>

StampAges ==
    /\ stamp = "fresh"
    /\ \A p \in HkProc : PassAt(p, "off")
    /\ stamp' = "aged"
    /\ begun' = 0 /\ usurped' = FALSE
    /\ UNCHANGED <<disk, aged, busy, archive, hkLock, pass, replaced, crashes>>

HkArchives(p) ==
    \/ Expect(p) \/ Tar(p) \/ ListsAll(p) \/ ArchiveExists(p) \/ ArchiveFails(p)
    \/ RenameArchive(p) \/ RemoveArchived(p) \/ ArchivesDone(p)

HkStep(p) ==
    \/ TakeLock(p) \/ LockExists(p) \/ ReclaimLock(p) \/ Rescan(p) \/ NotDue(p)
    \/ BeginPass(p) \/ PruneLanes(p) \/ PruneOut(p) \/ HkArchives(p) \/ PruneRest(p)

HkNext ==
    \/ \E p \in HkProc : HkStart(p) \/ HkVerb(p) \/ HkStep(p) \/ HkCrash(p)
    \/ \E i \in Item : ItemAges(i) \/ BusyChanges(i)
    \/ LockAges \/ StampAges

HkSpec == HkInit /\ [][HkNext]_hkVars

-----------------------------------------------------------------------------
(* Properties.                                                              *)

HkTypeOK ==
    /\ disk \in [Item -> SUBSET Parts]
    /\ aged \subseteq Item /\ busy \subseteq Item
    /\ archive \in [Names -> SUBSET (Item \X Parts)]
    /\ stamp \in {"none", "fresh", "aged"} /\ hkLock \in {"free", "held", "stale"}
    /\ replaced \subseteq Item /\ usurped \in BOOLEAN
    /\ pass \in [HkProc -> [at : {"off", "lock", "reclaim", "due", "scan", "lanes", "out", "archive",
                                  "tar", "list", "exists", "rename", "remove", "rest"},
                            tries : {0, 1}, plan : SUBSET Item, item : SUBSET Item, expected : SUBSET Parts,
                            made : SUBSET Parts, name : Names \cup {<<>>}, seen : SUBSET (Item \X Parts)]]

(* A backup or a shelved directory is on disk or in an archive, entry by    *)
(* entry, whatever passes overlap and wherever they are ended, but for one  *)
(* whose archive another item of its base name replaced: the rename replaces *)
(* what came since the pass looked for the name.                            *)
NothingLost ==
    \A i \in Archived, part \in Parts :
        part \in disk[i] \/ i \in replaced \/ \E n \in Names : <<i, part>> \in archive[n]

(* "at most one apply pass per 24 hours per project", while no lock in      *)
(* force is removed by a server that judged the stale one before it.        *)
OnePassPerDay == ~usurped => begun <= 1

(* Not kept: "an existing archive is never overwritten", and one pass per   *)
(* day outright. A name is looked for and then renamed to, a lock judged    *)
(* and then removed, by whoever comes last.                                 *)
NeverOverwritten == replaced = {}
OnePassAtAll == begun <= 1

(* The state is typed, no entry is lost, and a day has one pass.             *)
HousekeepInv == HkTypeOK /\ NothingLost /\ OnePassPerDay
================================================================================
