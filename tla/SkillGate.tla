----------------------------- MODULE SkillGate -----------------------------
(***************************************************************************)
(* The skill gate of an MCP server, src/src/skill-gate.js: which skills    *)
(* are listed follows the gm state of the project the client last named.   *)
(* The state is read by dispatches that take time; one refresh is in       *)
(* flight at a time; a change is noticed by a cheap fingerprint, or by a   *)
(* backstop when the fingerprint did not move.                             *)
(***************************************************************************)
EXTENDS Naturals

CONSTANTS Root,        \* projects a caller may name
          MaxChange,   \* changes of gm state
          MaxFail      \* reads that fail or miss their budget

AllListed == "all listed"     \* the context of a state that could not be read
NoRoot == "no root"

ASSUME GateBounds == MaxChange \in Nat /\ MaxFail \in Nat

VARIABLES
  state,       \* [Root -> Nat] the gm state, counted: every change is a new one
  print,       \* [Root -> Nat] the fingerprint of turn-state.json and prd/
  root,        \* explicitRoot: the project the last reply named
  noted,       \* the fingerprint taken by the last refresh
  refresh,     \* the refresh in flight: its root, and the context it read
  overdue,     \* FULL_REFRESH_MS passed since lastRefreshAt
  applied,     \* the context the listed prompts and resources follow
  connected,
  view,        \* the context of the list the client last fetched
  owed,        \* a list_changed the client has not acted on
  fails

gateVars == <<state, print, root, noted, refresh, overdue, applied, connected, view, owed, fails>>

\* Contexts of two projects are told apart; a root never read is not.
Ctx(r) == <<r, state[r]>>
Fingerprint(r) == <<print[r]>>        \* it does not name its root
Idle == [root |-> NoRoot, ctx |-> <<>>]
Unread == <<>>
All == <<AllListed>>

GateInit ==
  /\ state = [r \in Root |-> 0]
  /\ print = [r \in Root |-> 0]
  /\ root = NoRoot
  /\ noted = <<>>
  /\ refresh = Idle
  /\ overdue = FALSE
  /\ applied = All          \* attachSkillGate: every skill is listed
  /\ connected = FALSE
  /\ view = <<>>
  /\ owed = FALSE
  /\ fails = 0

\* The project's state changes. A row edit can keep the directory's mtime.
Change(r) ==
  /\ state[r] < MaxChange
  /\ state' = [state EXCEPT ![r] = @ + 1]
  /\ \E seen \in {0, 1} : print' = [print EXCEPT ![r] = @ + seen]
  /\ UNCHANGED <<root, noted, refresh, overdue, applied, connected, view, owed, fails>>

\* Mutant of Unmoved: without the backstop.
UnmovedEver(r) == Fingerprint(r) = noted

Unmoved(r) == Fingerprint(r) = noted /\ ~overdue

(***************************************************************************)
(* refreshIfChanged and refreshSkillGate: nothing for an unmoved           *)
(* fingerprint before the backstop; the refresh in flight answers a second *)
(* one, whatever its root; the fingerprint is taken before the reads.      *)
(***************************************************************************)
RefreshIfChanged(r) ==
  IF r = NoRoot \/ Unmoved(r) \/ refresh # Idle
  THEN UNCHANGED <<noted, refresh>>
  ELSE /\ noted' = Fingerprint(r)
       /\ refresh' = [root |-> r, ctx |-> Unread]

\* kickSkillGate, after a reply to a call that named its cwd.
Kick(r) ==
  /\ connected /\ root # r
  /\ root' = r
  /\ RefreshIfChanged(r)
  /\ UNCHANGED <<state, print, overdue, applied, connected, view, owed, fails>>

\* The three-second timer, and a kick that names the same root.
Poll ==
  /\ connected
  /\ RefreshIfChanged(root)
  /\ UNCHANGED <<state, print, root, overdue, applied, connected, view, owed, fails>>

\* phase-status and prd-list are answered, or one is not in time.
ReadState ==
  /\ refresh # Idle /\ refresh.ctx = Unread
  /\ \/ refresh' = [refresh EXCEPT !.ctx = Ctx(refresh.root)] /\ UNCHANGED fails
     \/ /\ fails < MaxFail
        /\ fails' = fails + 1
        /\ refresh' = [refresh EXCEPT !.ctx = All]
  /\ UNCHANGED <<state, print, root, noted, overdue, applied, connected, view, owed>>

\* applyTo: a changed list is announced to a connected client.
Apply ==
  /\ refresh # Idle /\ refresh.ctx # Unread
  /\ applied' = refresh.ctx
  /\ owed' = (owed \/ (refresh.ctx # applied /\ connected))
  /\ refresh' = Idle
  /\ overdue' = FALSE
  /\ UNCHANGED <<state, print, root, noted, connected, view, fails>>

Backstop ==
  /\ ~overdue
  /\ overdue' = TRUE
  /\ UNCHANGED <<state, print, root, noted, refresh, applied, connected, view, owed, fails>>

\* The client connects and lists the skills once; later it lists when told.
ClientConnects ==
  /\ ~connected
  /\ connected' = TRUE
  /\ view' = applied
  /\ UNCHANGED <<state, print, root, noted, refresh, overdue, applied, owed, fails>>

ListAgain ==
  /\ owed
  /\ owed' = FALSE
  /\ view' = applied
  /\ UNCHANGED <<state, print, root, noted, refresh, overdue, applied, connected, fails>>

GateNext ==
  \/ \E r \in Root : Change(r) \/ Kick(r)
  \/ Poll \/ ReadState \/ Apply \/ Backstop \/ ClientConnects \/ ListAgain

\* Timers fire, dispatches are answered or give up, the client reacts.
GateFairness == WF_gateVars(Poll) /\ WF_gateVars(ReadState) /\ WF_gateVars(Apply)
                /\ WF_gateVars(Backstop) /\ WF_gateVars(ListAgain)
GateSpec == GateInit /\ [][GateNext]_gateVars /\ GateFairness

-----------------------------------------------------------------------------
GateTypeOK ==
  /\ root \in Root \cup {NoRoot} /\ refresh.root \in Root \cup {NoRoot}
  /\ connected \in BOOLEAN /\ owed \in BOOLEAN /\ overdue \in BOOLEAN
  /\ fails \in 0..MaxFail

\* Once the client stays with one project and its state rests, the client sees
\* the skills of that state: no change is lost to a refresh already in flight,
\* to a failed read, or to a fingerprint that did not move.
GateCatchesUp ==
  \A r \in Root : <>[](root = r) => <>[](view = Ctx(r))
=============================================================================
