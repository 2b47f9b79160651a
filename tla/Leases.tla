--------------------------------- MODULE Leases ---------------------------------
(* The leases of one project (dispatch.js): each server that dispatches into  *)
(* it writes a lease file, and a sidecar for each session; a dispatch that    *)
(* meets the session of another judges by them whether that one still lives.  *)
(* Servers interleave between two files, and may end at any. No pid is given  *)
(* again.                                                                     *)
EXTENDS FiniteSets

CONSTANTS Srv, Sess \* servers, one pid each; session ids

VARIABLES
    running,  \* servers
    ended,
    leaseOf,  \* servers whose lease file is there
    sidecar,  \* <<server, session>> whose sidecar is there
    attach,   \* what each server writes: [at, session]
    asks,     \* the verdict each server works out
    attached  \* history: <<server, session>> dispatched, the server running

leaseVars == <<running, ended, leaseOf, sidecar, attach, asks, attached>>

Unattached == [at |-> "rest", session |-> "none"]
NoVerdict == [at |-> "rest", owner |-> "none", todo |-> {}, drop |-> {}, live |-> {}, known |-> TRUE, blind |-> FALSE,
              mismatch |-> FALSE, steady |-> {}]

LeasesInit ==
    /\ running = {} /\ ended = {} /\ leaseOf = {} /\ sidecar = {} /\ attached = {}
    /\ attach = [p \in Srv |-> Unattached] /\ asks = [p \in Srv |-> NoVerdict]

ServerStarts(p) ==
    /\ p \notin running \cup ended
    /\ running' = running \cup {p}
    /\ UNCHANGED <<ended, leaseOf, sidecar, attach, asks, attached>>

\* What a server has dispatched no longer counts once it goes.
Forgets(p) == /\ attached' = {f \in attached : f[1] # p}
           /\ asks' = [q \in Srv |-> IF q = p THEN NoVerdict ELSE [asks[q] EXCEPT !.steady = @ \ {p}]]

Crashes(p) ==
    /\ p \in running
    /\ running' = running \ {p} /\ ended' = ended \cup {p}
    /\ attach' = [attach EXCEPT ![p] = Unattached]
    /\ Forgets(p)
    /\ UNCHANGED <<leaseOf, sidecar>>

\* releaseAgentLeases of an idle exit, file by file.
ExitsIdle(p) ==
    /\ p \in running /\ attach[p].at = "rest"
    /\ attach' = [attach EXCEPT ![p].at = "leaving"]
    /\ Forgets(p)
    /\ UNCHANGED <<running, ended, leaseOf, sidecar>>

ReleasesLease(p) ==
    /\ attach[p].at = "leaving"
    /\ \/ p \in leaseOf /\ leaseOf' = leaseOf \ {p} /\ UNCHANGED <<running, ended, sidecar, attach>>
       \/ \E f \in sidecar : f[1] = p /\ sidecar' = sidecar \ {f} /\ UNCHANGED <<running, ended, leaseOf, attach>>
       \/ /\ p \notin leaseOf /\ \A f \in sidecar : f[1] # p
          /\ running' = running \ {p} /\ ended' = ended \cup {p}
          /\ attach' = [attach EXCEPT ![p] = Unattached]
          /\ UNCHANGED <<leaseOf, sidecar>>
    /\ UNCHANGED <<asks, attached>>

\* The runner drops the lease of a dead server.
DropsLease(p) ==
    /\ p \in ended \cap leaseOf
    /\ leaseOf' = leaseOf \ {p}
    /\ UNCHANGED <<running, ended, sidecar, attach, asks, attached>>

\* Mutant of FileAt: the sidecar is written first.
FileAtSwapped(stage) == IF stage = "second" THEN "lease" ELSE "sidecar"
FileAt(stage) == IF stage = "first" THEN "lease" ELSE "sidecar"

Ensures(p, s) ==
    /\ p \in running /\ attach[p].at = "rest" /\ asks[p].at = "rest"
    /\ attach' = [attach EXCEPT ![p] = [at |-> "first", session |-> s]]
    /\ UNCHANGED <<running, ended, leaseOf, sidecar, asks, attached>>

\* ensureAgentLease, recordLeaseSession: what is there is left.
WritesLease(p) ==
    LET stage == attach[p].at
        f == <<p, attach[p].session>>
    IN /\ stage \in {"first", "second"}
       /\ leaseOf' = IF FileAt(stage) = "lease" THEN leaseOf \cup {p} ELSE leaseOf
       /\ sidecar' = IF FileAt(stage) = "sidecar" THEN sidecar \cup {f} ELSE sidecar
       /\ attach' = [attach EXCEPT ![p] = IF stage = "first" THEN [@ EXCEPT !.at = "second"] ELSE Unattached]
       /\ attached' = IF stage = "second" THEN attached \cup {f} ELSE attached
       /\ UNCHANGED <<running, ended, asks>>

-----------------------------------------------------------------------------
(* applySessionLeaseVerdict, when the reply names another owner.             *)

SidecarsOf(s) == {f \in sidecar : f[2] = s}

\* leaseSessionsFor: the directory is read, or cannot be.
AsksFor(q, s) ==
    /\ q \in running /\ asks[q].at = "rest" /\ attach[q].at = "rest"
    /\ \E known \in BOOLEAN :
          asks' = [asks EXCEPT ![q] = [NoVerdict EXCEPT
                      !.at = "check", !.owner = s, !.known = known,
                      !.todo = IF known THEN sidecar ELSE {},
                      !.steady = {f[1] : f \in {g \in attached : g[2] = s}}]]
    /\ UNCHANGED <<running, ended, leaseOf, sidecar, attach, attached>>

\* Only a sidecar of the owner counts; one without a lease is on its way out,
\* and one that cannot be read is passed over.
ChecksSidecar(q, f) ==
    /\ asks[q].at = "check" /\ f \in asks[q].todo
    /\ \/ /\ f[1] \notin leaseOf
          /\ asks' = [asks EXCEPT ![q].at = "drop", ![q].drop = {f}, ![q].todo = @ \ {f}]
       \/ /\ f[1] \in leaseOf
          /\ LET counts == f \in SidecarsOf(asks[q].owner) /\ f[1] \in running
             IN asks' = [asks EXCEPT ![q].todo = @ \ {f}, ![q].live = IF counts THEN @ \cup {f[1]} ELSE @]
       \/ /\ f[1] \in leaseOf
          /\ asks' = [asks EXCEPT ![q].todo = @ \ {f}, ![q].blind = @ \/ f \in sidecar]
    /\ UNCHANGED <<running, ended, leaseOf, sidecar, attach, attached>>

DropsSidecar(q) ==
    /\ asks[q].at = "drop"
    /\ sidecar' = sidecar \ asks[q].drop
    /\ asks' = [asks EXCEPT ![q].at = "check", ![q].drop = {}]
    /\ UNCHANGED <<running, ended, leaseOf, attach, attached>>

\* A directory that cannot be read frees nobody.
Judges(q) ==
    /\ asks[q].at = "check" /\ asks[q].todo = {}
    /\ asks' = [asks EXCEPT ![q].at = "judged", ![q].mismatch = ~asks[q].known \/ asks[q].live # {}]
    /\ UNCHANGED <<running, ended, leaseOf, sidecar, attach, attached>>

Replies(q) ==
    /\ asks[q].at = "judged"
    /\ asks' = [asks EXCEPT ![q] = NoVerdict]
    /\ UNCHANGED <<running, ended, leaseOf, sidecar, attach, attached>>

LeasesNext ==
    \/ \E p \in Srv : \/ ServerStarts(p) \/ Crashes(p) \/ ExitsIdle(p) \/ ReleasesLease(p) \/ DropsLease(p)
                      \/ WritesLease(p) \/ DropsSidecar(p) \/ Judges(p) \/ Replies(p)
                      \/ \E s \in Sess : Ensures(p, s) \/ AsksFor(p, s)
                      \/ \E f \in Srv \X Sess : ChecksSidecar(p, f)

LeasesSpec == LeasesInit /\ [][LeasesNext]_leaseVars

-----------------------------------------------------------------------------
LeasesTypeOK ==
    /\ running \cap ended = {} /\ leaseOf \subseteq Srv /\ {sidecar, attached} \subseteq SUBSET (Srv \X Sess)
    /\ \A p \in Srv : /\ attach[p].at \in {"rest", "first", "second", "leaving"}
                      /\ asks[p].at \in {"rest", "check", "drop", "judged"}

(* A session that dispatched through a server that runs has its lease and    *)
(* its sidecar, whoever asks, clears up, starts and ends meanwhile.          *)
AttachedIsKept == \A f \in attached : f[1] \in leaseOf /\ f \in sidecar

(* The owner of a project whose server ran all the while is not taken for    *)
(* gone: another session's dispatch is told of the mismatch, as long as it   *)
(* could read each sidecar that was there.                                   *)
OwnerIsSeen ==
    \A q \in Srv : asks[q].at = "judged" /\ asks[q].steady # {} /\ ~asks[q].blind => asks[q].mismatch

(* The state is typed, what is attached stays attached, and an owner that    *)
(* runs is seen.                                                             *)
LeasesInv == LeasesTypeOK /\ AttachedIsKept /\ OwnerIsSeen
================================================================================
