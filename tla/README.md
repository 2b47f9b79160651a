# A verification of gm-mcp

This directory holds TLA+ models of `gm-mcp` (the MCP server in `src/`), the TLC
configurations that check them and TLAPS proofs about them. It is written for a
reader who has the repository beside it. Paths such as `src/src/dispatch.js`
start at the root of that repository.

Run a check with `tlc -config X.cfg M` (the pairs are in the table of runs) and
a proof with `tlapm M.tla`.

## 1. The system

`gm-mcp` is an MCP server. A host (an editor, an agent) sends it `gm` tool
calls; it writes each as a request file into a directory of the project, the
*spool*, where a daemon (`agentplug-runner`, a program of another repository)
picks it up and leaves an answer file. Many gm-mcp processes, each with many
calls at once, share one spool and one daemon, and they have no other way to
talk to one another than files. That is why most of what is hard here is one
thing in many places: a file is looked at, judged, and later read, renamed or
removed by its name, while other processes go on.

| Component | Where | State | Operations | Hard part | Correct when |
|---|---|---|---|---|---|
| Spool dispatch | `dispatch.js` (`runDispatch`), `spool-store.js` | request, claim and answer files; the locals of each call | publish, poll, read, abort, resume, time out, prune | calls, daemon and sweep interleave at every system call | a request runs once; what a reply says of it is so; no answer is lost |
| Verdict on an unanswered request | `dispatch.js` (`readDaemonLiveness`, `scanSpoolQueue`) | status files, owner lock, listings | read, list, stat, conclude | four reads while daemons come and go | a daemon that serves is called alive; counts are between before and after |
| Waits | `dispatch.js` (timeouts, `ci-status`) | none | clamp, plan, poll, nap | three inputs with defaults and ceilings | the poll outlasts the process |
| Runner ensure | `dispatch.js` (`ensureSpoolDecision` ...) | two lock files; map of children started | lock, reclaim, spawn, reap | locks judged and then taken by name; crashes with locks held; hung runners | no stacked runners, and one again when it is gone |
| stdio supervisor | `bin/gm-supervise.js` | children, in-flight table, gate, swap in progress; its lock | route, swap bundle, restart, drain, shut down | crash during a swap; late answers; requests queued at the gate | each request gets one reply; one child; new bundles are served |
| Orphan sweep, write queue | `triage-verbs.js` | claims of dead daemons; queue file and lock | measure, list, move; lock, read, write | the table is older than the list; locks of the dead | no live request is moved; no row is lost |
| Leases and sessions | `dispatch.js` | `*.lease`, `*.session` files | attach, release, judge a mismatch | two files, dead owners | an attached session stays so and is seen |
| Publication | `triage-verbs.js` (`publish_on_origin`) | origin/main, remote-tracking refs | fetch, fork, commit, push, replay, verify | lanes share a ref; pushes are refused or unanswered | what landed stays |
| Housekeep | `triage-verbs.js` | prunable directories, archives, stamp, lock | lock, plan, archive, remove | overlapping passes, a lock judged and then removed, ends between two steps | nothing is removed before its archive is whole; one pass a day |
| Writer lock, consolidate | `triage-verbs.js` | lock file, quarantine; checkouts | take, release, quarantine; back up, reset | locks moved by name; failed backups | one writer; no work is reset away |
| PRD close | `dispatch.js`, `public-search.js`, `triage-verbs.js` | rows, gate file, close records | gate, add, refer, close, record | awaited notes, half-done closes | rows are gated by date; a gone row is recorded |
| Continuation, PRD feed | `continuation.js`, `prd-feed.js`, `live-state.js` | pending rows, last row noted, cache | note, push, warn when idle | look-ups that land late | a row named as next was so when asked |
| Skill gate | `skill-gate.js` | one refresh in flight, fingerprint | poll, refresh, notify | refreshes joined to one for another root | what is exposed follows the state |
| Cold start, transport guard | `fast-stdio.js`, `transport-guard.js` | buffered lines; client gone since | answer, hand over, recheck, exit | lines around the hand-over; work in flight | each line is answered; an orphan ends |
| Self-update, drift | `self-update.js`, `bundle-drift.js` | deployed bundle, pin, stamp, cache | probe, fetch, swap; hash, announce | awaits between test and swap; a file replaced between stat and read | "current" is so; a release is deployed and told of once |
| Release bridge | `release-bridge.js` | lock, state file | reconcile, signal, back off | crash between two renames; lost signals | last releases installed |
| Reaper, leak watch | `leak-reaper.js`, `leak-watch.js`, `singleton.js`, `child-ledger.js` | process table, records of ports | measure, judge, signal | evidence that ages | nothing with a living client is ended; leaks go |
| Janitor | `janitor.js`, `running-images.js` | entries, manifests, records | plan, remove | one table, which may be empty; a slow removal | what is seen in use stays |
| Git adapter | `git-adapter.js` | cache of layouts, `index.lock` | ask, forget, recover | git init and worktree meanwhile | the cache answers as git would |
| Calls that are rewritten | `dispatch.js`, `codemode.js` | a text read, a listing, a body's calls | edit lines, plan an add, fold keys, run a body | what is sent is made of what was read | other lines are kept; keys reach the verb |
| Replies and feeds | `dispatch.js`, `browser-feed.js`, `spool-transport.js` | caps, spills, an event file, a watch | page, cut, tail, wait | boundaries, half lines, deaf watches | told whole, once and in time |

`PROJECT.json` lists these and the parts without behaviour worth a model, and,
under `hazards`, each place in the code where something can go wrong that a
test would hardly reach.

## 2. Modules

| Module | Models |
|---|---|
| `DispatchPromise` | what one dispatch promises its caller: the abstract specification |
| `SpoolDispatch` | the spool of one project, its calls, its daemon, respawn and sweep; implements `DispatchPromise` |
| `SpoolDispatchInv` | its inductive invariant `IInv` |
| `Liveness` | what is read of the daemon and the queue to say why a request is unanswered |
| `Waits` | how long a call waits: planned times, the wake of a poll, `ci-status` |
| `RunnerEnsure` | which process starts the runner of a project |
| `Supervisor`, `SuperviseLock` | `bin/gm-supervise.js`, and the lock that keeps it single |
| `SelfUpdate`, `BundleDrift` | how processes keep the deployed bundle current, and who is told of a newer one |
| `ReleaseBridge` | how servers install the runner and the guest and signal the daemon |
| `Leases` | lease files, session sidecars and the mismatch verdict |
| `TriageFiles` | `write_queue` and `spool_orphans` |
| `Publish`, `Housekeep`, `WriterLock` | `publish_on_origin`; the prune passes; `writer_lock` and `consolidate` |
| `CloseGate` | how rows are gated, closed and recorded |
| `Feeds`, `SkillGate`, `ColdStart` | what one session is told; its skills; its stream and its end |
| `Reaper`, `Janitor` | what is ended and removed on a host, and by what evidence |
| `GitRepo`, `FileCalls`, `CodeMode`, `ReplyPages` | layouts and `index.lock`; line edits and `git_add`; a code-mode body; pages and cuts |
| `BrowserFeed`, `SpoolClient` | the tail of the event file; the client of the spool transport |
| `...Proofs` | the theorems of a module (section 5) |
| `MC...` | constants, symmetry sets and compositions for the runs |

How they meet. The processes of a project share its spool (`SpoolDispatch`,
whose daemon `RunnerEnsure` starts, and whose claims `TriageFiles` sweeps); what
`SelfUpdate` deploys is what `BundleDrift` and `Supervisor` see change on disk;
what `Publish` lands is what `CloseGate` calls a record on origin. Each module
has the others' effect on its files as actions of its own, so that it is
checked against every order in which they can come.

### Conventions

A process, call or pass has a stage (`at`, `pc`) that names the system call or
the await it reaches next; everything the event loop runs without a break is one
step, and everything another process can come between is two. Programs of other
repositories (the daemon, the guest, git, the host) are *external*: they do what
the code here relies on, and nothing more is asked of them. Ages and times are
classes (`fresh`, `aged`, `old`) wherever the code only compares them with one
limit. Variables marked `history` are read by properties only. Operators called
"mutant of X" are not part of a model: they are forms of X with a mistake that
the property must detect, and `PROJECT.json` pairs them.

### SpoolDispatch

A *call* is one invocation of `runDispatch`. A *task* is one request; `ticket`
says where its request file is (`unwritten`, `queued` is `in/<verb>/<task>.txt`,
`claimed` is `.txt.inflight`, `released` is gone after its claim, `withdrawn` was
unlinked by its call, `quarantined` was moved by the sweep), `out` is the answer
file. `landed`, `runs` and `cleaned` are history. The contents of requests and
replies are abstracted to what the code branches on: an answer is `ok`,
`refused` or `orphaned`, and the verb of a task is `plain` (its call first awaits
the owner probe), `secret` (its answer is removed when read), `listing` (its
answer supersedes older listings) or `object`.

Actions and code: `Start` (a call begins and prunes old answers), `ResumeOut`,
`ResumeIn`, `ResumeInflight` (the three looks of a resume), `Preflight...`,
`OwnerProbed`, `Publish`, `PublishFails`, `AbortedReply`
(`withdrawUnclaimedRequest`), `SeeLanded` and `OpenReply` (the existence test and
the open of `readLandedOutFile`), `FinishReply` (prune, spill and remove),
`OpenFails` and `FinishFails` (its `catch` and `finally`: a file that does not open
or parse, and a throw after the parse, before or after the prune; on each way out
the `finally` removes a secret always, a refusal once it was parsed),
`SeeDeadline`, `RecheckEnds`, `VerdictClaimed`, `VerdictQueued`
(`spoolRequestState`), `Abort`, `Respawn`, `SweepMeasures`, `SweepMoves`. The
daemon claims by rename, lands an answer and removes the claim; it may exit
between any two of these, and the next one answers what was left.

`Liveness` takes the verdict apart: one machine reads the project's status file,
the shared one, the owner lock and the process, another lists the verb
directories and stats what it listed, each while daemons go on. `Waits` works
out the poll and the process limit of a call from what it gave
(`timeoutInputDiagnostic`, the clamps and ceilings), lets an answer land at every
line of the wait between two looks, and runs the loop of `ci-status`.

### Supervisor and SuperviseLock

One action per event of the node event loop together with the continuations
that run before the next event; an `await` that yields separates two actions
(the hash in `pollBundle`, which may also reject (`PollFails`), the handshake, the
drain, the old child's exit). A child may crash before and after any of them.
`inflight`, `hostQueue`, `active`, `draining`, `paused`, `stopping` are the
variables of the script; `asked` is what a child was sent and has not answered,
which survives its exit because lines it wrote may be read after it. The end of
a drain goes on with the child it was handed, whatever happened to it since. Two
histories name what the code does not guard against: `crossed`, a swap has begun
while a restart was due, and `relic`, the last child a failed swap went back to
after that child had exited.
`SuperviseLock` is `acquireLock` and `releaseLock` of several supervisors, with
the lock empty between its creation and its text and kills at any step.

### RunnerEnsure

A pass of `ensureSpoolDecision` is synchronous, so one process has one pass at a
time, and every system call of a pass is a step. A lock file is a record of the
process that created it, the pid its text names (`None` while it is empty) and
its age class, which is all that `ENSURE_LEASE_MS` and `ENSURE_CHILD_MAX_AGE_MS`
are used for.

### SelfUpdate and BundleDrift

A bundle is its sha256; `deployed`, `pin`, `stamp` and `cache` are the files all
processes share. `check[p]` holds the locals of `refreshStaleDeployedBundle`
between its awaits: `Begin` reads the files, `ProbeCurrent`, `ProbeAnswers`,
`ProbeFails`, `GitAnswers`, `GitFails` are the outcomes of the two probes,
`FetchCurrent`, `FetchRefused`, `FetchDeferred`, `FetchAccepted` what follows the
fetch. The swap blocks its process in `node --check` while others go on, so
the rename and the writes after it are steps. Ticks, retries of a deferred
check and `self-update-now` all begin the same check. `Relaunch` ends a process at
any step. Two checks of the same process do not overlap in the model, as two
processes do; the freeze file, which stops all of it, is left out.
`BundleDrift` is the other side: a server stats the entry file, reads it when
the stamp is new, and announces or notes a bundle that is not the one it runs.

### ReleaseBridge

`run[p]` holds the locals of `runReleaseBridge`; its stages are the system calls
of `acquireLock`, the awaits of the run and the two renames of `swapIn`. The
runner's version is what the file reports, the guest's is what `gm.version` says,
as in the code. The daemon loads what is installed when it starts and reports it
later. A signalled daemon exits; a `thrown` signal is one sent to a daemon that
has just exited, which fails the run. `RecordFails` is the write of `gm.version`, or
of what follows it, that throws: the build is in place, and the run ends.

### Leases and TriageFiles

In `Leases` a server writes its lease, then the sidecar of the session, and
removes both on its way out; `asks` is a verdict: the owner read, the sidecars
still to look at, those found without a lease and dropped later. A sidecar that
is gone and one that cannot be read are passed over alike, and the verdict is
`blind` in the second case. In
`TriageFiles` a `write_queue` call tries the lock, judges one it finds by age,
removes it by name, reads, writes and unlocks, and may die at any of these;
`spool_orphans` reads the process table, then lists, then moves.

### Publish, Housekeep, WriterLock, CloseGate

`Publish`: origin is a sequence of trees, a file the set of edits in it; a lane
forks at the tip its clone knows, merges each listed file in three ways, pushes,
and after a refusal fetches and replays or after a lost answer verifies.
`Housekeep`: the lock of the day is made, found and judged, removed by name and made
again in steps of their own (`TakeLock`, `LockExists`, `ReclaimLock`); a pass is
tar, list, look for a free name, rename, remove for each archived item; three
processes (two servers' automatic passes and the verb) overlap, and one may be
ended between any two. `WriterLock`: takes by hard link, quarantine by rename;
`consolidate` walks head and status, count, backup, diff and reset of each
checkout, any of which may fail: a status that fails reads as clean, a count that
fails as work to back up. `CloseGate`: a call passes `ensureReferenceGate` note by
note, then its verb; a close without the runner is record, remove, commit. A
close that names an event and a commit, and one that refutes its premise, need
no record (`NeedsNoRecord`); a call whose id or root does not resolve passes both
gates to the runner, which answers it, and is left out.

### Feeds, SkillGate, ColdStart

`Feeds`: the tail of `gmDispatch` for two calls of a session, each with look-ups
that may miss their budget and land late; rows change under it. `SkillGate`: at
most one refresh in flight, whose read of the state is a step of its own; the
fingerprint may stay the same over a change, and a backstop refreshes then.
`ColdStart`: lines reach the cold path, the pending list or the SDK; the client
may leave at any time, by the end of stdin, by not reading stdout or by dying
(`left`); what the process has seen of it is `known`. Stdin is watched throughout, a
broken stdout shows at a write, and the parent is watched from `main()` on only,
which takes the parent of that moment for the first. `Recheck` waits for dispatches
up to a limit.

### Reaper, Janitor

Both read a process table once and act on it later. In `Reaper` the host goes on
between table, second evidence and signal: processes start, age, lose their
parents, take records; a candidate is judged by class, parents and ledger. In
`Janitor` the plan is made from the table and the working directories of its
rows; entries and records are then removed one by one. `ps` may fail, which gives
an empty table, or give some rows only, and a working directory may be unreadable
(on systems without `/proc` each is): the sweep goes on in both cases. A KEEP
manifest that is there and cannot be read, which counts as empty, is left out.

### GitRepo, FileCalls, CodeMode, ReplyPages, BrowserFeed, SpoolClient

`GitRepo`: directories are paths, the cache maps each to the toplevel git
answered; verbs that may move a repository forget what overlaps. `FileCalls`:
`exactLineEdit` on texts of characters, `planGitAdd` over a tree that changes.
`CodeMode`: the calls of a body end in any order, before or after its end, and
one reply is budgeted; keys of a call fold into one dispatch. `ReplyPages`: the
pages of `fs_read` and `gm_result` and the cut of a reply as lengths.
`BrowserFeed`: a file of half lines, pumped by a watch from an offset.
`SpoolClient`: write, rename with retries, then a watch, looks after silence and
a deadline, with a runner that writes its reply in two steps.

## 3. Runs

| Run | Question | Bounds |
|---|---|---|
| `SpoolDispatch_safety` | runs once, withdrawn never runs, "nothing written" is so, an answer is the task's own and leaves the disk only by age, by a later listing, or by a reader that had it or said that it could not read it, a read-once file is gone, `IInv`, and the spool implements `DispatchPromise` | 2 calls; one read-once request, two listings |
| `SpoolDispatch_returns` | every call returns | 2 calls, 1 plain request |
| `Supervisor_children` | one reply to each request, none forgotten, gate open only when served, one child, every request answered, new bundles served, but for what `crossed` and `relic` name | 2 requests, 1 crash at any time, 1 failing handshake or read, 2 changes of the bundle |
| `Supervisor_dead_child` | a code bug | 1 crash |
| `RunnerEnsure_locks` | no process stacks runners; an unserved project gets a runner; a hung one is killed or superseded while its starter lives | 2 processes (one mortal), 2 runner pids |
| `SelfUpdate_checks` | validators belong to the cached bundle; "current" is so; the last release is deployed | a server, `self-update-now`; 2 commits, 3 bundles |
| `ReleaseBridge_checks` | last releases installed, limits on requests kept, a pending signal is made | 2 releases of each part, 3 faults (failing records among them), runs one after another |
| `Sessions_checks` | next rows are fresh and one bootstrap is given; an idle session is warned; the skills catch up; every line is answered; an orphan ends that was seen to be one | 2 calls; 2 roots, 1 unnoticed change and 1 failed read; 4 lines |
| `Host_checks` | nothing with a living client is ended; a leak is retired; a newer bundle is told of, once | 3 pids (one is the reaper's), 2 starts; 3 bundles, 3 deployments, 2 readers |
| `Parts_checks` | the invariants of the 16 modules that share no state | below |
| `Publish_lanes` | a code bug | 2 lanes of one clone, 1 file |
| `WriterLock_consolidate` | a statement of the docs the code does not keep | 1 checkout, 1 piece of work |

Three runs are compositions of parts that share no state. Putting them all in
one interleaving would multiply their states and check nothing more, so the
variable `subject` says which part a behaviour is about, and the others rest:
`MCLive` (3 parts), `MCHost` (2) and `MCParts` (23 machines of 16 modules:
publish, housekeep, pages, gate, layouts, index lock, line edits, adds, janitor,
code mode, writer lock, consolidate, write queue, orphans, leases, times, wake,
ci, daemon, queue scan, browser feed, spool client, supervisor lock). The steps
of each are those of its own module, and fairness is that of its own module,
restricted to behaviours about it. In `Parts_checks` the `VIEW Moving` tells two
states apart by `subject` and the variables of that part: the others have one
value in all states of that subject, so no state is confused with another.

`CONSTRAINT Bounded` of `Parts_checks` leaves out states with two uses of a
janitor entry at a time and with three housekeep passes at once; each pair of
passes and each use are there.

Why the bounds are enough. In `SpoolDispatch` calls meet only through the files of
the tasks they poll: two calls give a publisher and a resumer, or a reader that
is overtaken; the two listings are alike and prune each other (`Alike` is the
symmetry of calls and of listings), the read-once request shares only the
daemon with them. Counters are histories and need no bound. In `Supervisor` every
spawn after the first answers a crash, a failed handshake or a new bundle, and
`MaxGen` allows for all of them. A crash may come at any step, the hash and the
handshake of a swap included; `MaxFailures` counts handshakes and reads of the
bundle that fail. What follows two of these crashes is excused in the properties
by history and stated in section 4: a swap that begins while a restart is due
(`crossed`), and a failed swap that goes back to a child that has exited (`relic`;
`Supervisor_dead_child` is that behaviour).
In `RunnerEnsure` two processes and two runner pids give every way in which one
process takes a lock from the other; pids are reused once nothing names them, so
runs are not bounded in length. One project is modelled: several would contend
for the machine-wide lock, which delays a pass and is otherwise the same race.
`SlowPasses = FALSE`: a pass is synchronous and does not outlast the lease.

In `SelfUpdate` two processes, one of which may be ended and is launched again at any
step, give every overlap of two checks; the second commit makes a release land
between any two steps, and the third bundle, of a later version, is what a
checkout runs. In `ReleaseBridge_checks` one process makes run after run: runs that do
not overlap act one after another, and the lock is met when a run was ended
while it held it. `MaxFault` bounds what goes wrong in a behaviour, 3 being a
rate limit, a deferred signal and a crash; hence, after the last fault, steps succeed.
With two processes runs can overlap, because of the lock (section 4).

In `Parts_checks`: three lanes, each pair of which edits another set of the same
files, moves the pin or clashes, give a refused push, its replay and a second
refusal, each lane in a clone of its own (`Publish_lanes` is one clone); two
servers and the verb meet over one lane and one archived directory with one crash; two calls and two rows, one of them of the beginning, with two
failures, give a gate pass that is overtaken, fails and is made again; a
directory chain of three and one beside it give every overlap of a cached
layout; two editors of one file, texts with and without a last line end and
empty lines are every boundary of a line edit; three writers are one that holds,
one that waits and one that takes the lock of a dead one; two servers and two
sessions give an owner, a judge and a server on its way out; the amounts of
`Waits` are one on each side of every default, ceiling and the timer limit; four
events, two watches and one rotation give every cut of a line; a silence of 2
ticks in a budget of 9 lets a watch go deaf before and after the reply; three
supervisors are two that start and one that takes over. In `Sessions_checks` one
change the fingerprint misses and one failed read come at any time; four lines
hold an initialize, its notification and two requests. In `Host_checks` the
two pids beside the reaper are a server and its parent, and change roles.

`CHECK_DEADLOCK FALSE` is set where the system may stop: all calls returned and
the daemon gone, the supervisor shut down, all requests answered, all runners at
rest, a part's calls made.

### Fairness

`SpoolDispatch`: weak fairness for the steps of each call, and nothing else. The
poll loop waits on a directory watch with a fallback timer and a deadline, so it
always takes another step; the daemon is granted none.
`Supervisor`: weak fairness of its timers and continuations, of a child's answer
to what it was asked, and of the exit of a child that was told to stop (it is
killed after a grace). Crashes, failures and host lines have none.
`RunnerEnsure`: a pass is synchronous and runs to its end, the watchdog timer
fires again, time passes, and a killed process exits (weak fairness). A spawn
that is tried again and again succeeds at last (strong fairness of `Spawn`
for each process: a full process table or a missing binary is not for ever). A
runner may hang at any point: nothing makes it serve or exit.
`SelfUpdate`: timers fire, requests end by their timeouts, time passes (weak
fairness); a fetch and a swap that are tried again and again succeed at last,
but only where dispatches do not stand in the way (strong fairness). Nothing is
assumed of dispatches, probes or people.
`ReleaseBridge`: time passes, the daemon reports, and servers are started again
and again and come to the end of their runs, as the bridge only runs when a
server starts (weak fairness).
`Feeds`: calls return, look-ups answer (they have time limits) and the timer of
the idle monitor fires. `SkillGate`: the poll and the backstop are timers, a
read settles, and a client that was told lists again. `ColdStart`: the event
loop reads, loads, connects and rechecks; the SDK answers a request unless its
dispatch hangs. `Reaper`: the watch's timer fires, processes age, and one that
was signalled ends. `BundleDrift`: a server finishes what it
started, and its watch timer finds it at rest again and again (strong fairness
of a look by the watch, because status reads come in between).
`Parts_checks` has safety properties only.

## 4. Findings

Three runs must be found violated by TLC; `PROJECT.json` quotes the statement each
contradicts.

- `Supervisor_dead_child` (bug): the old child crashes during the handshake of a
  swap that then fails; the gate reopens on a dead child and nothing restarts it.
- `Publish_lanes` (bug): `publishLane` reads `origin/main` by name for its index, for
  each merge and for the parent of its commit. When another lane of the clone
  pushes or fetches in between, the tree is of the older tip and the parent is
  the newer one: the push is a fast-forward that takes the other's edit away.
  Found by the proof of `LandedIsKept`, which does not go through without
  `OwnClones`.
- `WriterLock_consolidate`: a `git update-ref` or `git diff` that fails or is cut
  by its timeout is followed by `git reset --hard`, with the work not backed up.

More statements of the docs and comments, or of what a reader would expect, that
the code does not keep are stated in the modules and are not runs of their own.
Each is violated by TLC when put in the place of the properties of the run named
with it (with the change of a constant named there).

| Statement | Module and code | Run | What happens |
|---|---|---|---|
| `TimedOutNotLost` (`README.md:602`: "not lost") | `SpoolDispatch`, `dispatch.js:2284`, `:3925` | `SpoolDispatch_safety` | a timed-out listing's answer is pruned by a later listing of the session; a secret's is removed by a resume that failed to read it |
| `NoInputVerdictTrue` | `SpoolDispatch`, `dispatch.js` | `SpoolDispatch_safety` (one plain request) | "no input file left" is said of a request that was claimed, or answered, between two looks |
| `UnknownTaskTrue` | same | same | a resume is refused although the request moved from one looked-at name to another |
| `AbortedCallWithdraws` | same | same | an abort in the last recheck withdraws nothing |
| `SweepMovesNoLiveRequest` | same, `triage-verbs.js:1091` | same | the sweep moves a claim made after its process table was read |
| `OneRunnerPerProject` | `RunnerEnsure`, `dispatch.js:2040` | `RunnerEnsure_locks` | lock files are taken by name after they were judged, and two processes can each start a runner |
| `HungSpoolReplaced` | `RunnerEnsure` | `RunnerEnsure_locks` | a hung runner whose starter has exited holds the launcher lock against all others |
| `OnlyOneChild` ("runs exactly one gm-mcp child", `gm-supervise.js:2`), `NoRequestForgotten`, outright | `Supervisor`, `gm-supervise.js:320` | `Supervisor_children` | a crash while `pollBundle` awaits the hash lets a swap and a restart run at once: one child is left running unheard, a request is lost, or the old bundle goes on being served |
| `SwapWaits` | `SelfUpdate`, `self-update.js:421` | `SelfUpdate_checks` | the clock of a deferred swap goes on when another process makes the swap, so that the next release is swapped under a running dispatch |
| `SwapIsSignalled` | `ReleaseBridge`, `release-bridge.js:504` | `ReleaseBridge_checks` | a process that ends between a swap and the write of the state leaves the daemon on the old build |
| `OneBridge` ("serialised by the lock file", `README.md:103`) | `ReleaseBridge` | `ReleaseBridge_checks` (`Proc = {p1, p2}`) | a lock just created is still empty, is judged to have no holder and is renamed away |
| `CutNamesFile` | `CodeMode`, `codemode.js:789` | `Parts_checks` | a return that fits alone and is cut for the continuation block is not spilled |
| `NamedIsStaged` | `FileCalls`, `dispatch.js:877` | `Parts_checks` | an add of files and of submodules that did not move is answered for the submodules alone |
| `NoEditIsLost` | `FileCalls`, `dispatch.js` (`exactLineEdit`) | `Parts_checks` | what was written between the read and the runner's write is lost |
| `LiveRecordStays` | `Janitor`, `janitor.js:1` | `Parts_checks` | a record judged dead is removed by name, and names a new process by then |
| `WriterKeepsTheLock` | `GitRepo`, `git-adapter.js` | `Parts_checks` | between the look at a stale lock and its rename another git may have taken one |
| `EveryUseSpared` ("a path a live process uses, stays", `janitor.js:2`) | `Janitor`, `process-table.js:119`, `janitor.js:120` | `Parts_checks` | when `ps` fails, or a working directory cannot be read, the sweep sees no use there and removes what a live process uses |
| `NeverOverwritten` ("An existing archive is never overwritten", `triage-verbs.js:1540`) | `Housekeep`, `triage-verbs.js:1576` | `Parts_checks` (`Item = {bak, bak2}`) | two passes archive two backups of one base name: both find the name free, and the second rename replaces the first archive, whose backup is removed |
| `OnePassAtAll` ("at most one apply pass per 24 hours per project", `triage-verbs.js:1874`) | `Housekeep`, `triage-verbs.js:1849` | `Parts_checks` | two servers judge one stale lock; the second removes by name the lock the first has taken since, and both run the pass of the day |
| `RefusedLandsNothing` | `Publish`, `triage-verbs.js` | `Parts_checks` | a push whose answer is lost landed, and the call is refused |
| `ChangesAreTold` | `Feeds`, `continuation.js:132` | `Sessions_checks` | a block is marked as told by a reply that never carried it |
| `EveryOrphanEnds` | `ColdStart`, `index.js:60`, `transport-guard.js:88` | `Sessions_checks` | a parent that dies while the server is cold or loading is not seen: its heir is taken for the parent, and the process stays as long as its stdin is open |
| `RunningIsLoaded` | `BundleDrift`, `bundle-drift.js` | `Host_checks` | what runs is hashed at the first look, and a deployment before that is taken for it |

Some invariants say under which condition a promise holds, where it does not
hold outright. `QueueKept` and `OneWriter` and `OneBoss` hold while nobody
removes, under a lock's name, another lock than the one it judged (`mixed`,
`upset`, `snatched`): the write queue, the writer lock and the supervisor lock
are all judged and then unlinked or renamed by name. `WorkKept` holds while git
fails at nothing. `ReadIsPushed` holds until a file started anew is longer than
what was read of the old one. `NothingLost` and `OnePassPerDay` of `Housekeep` hold but
for an archive another pass replaced (`replaced`) and after the removal of a lock
that was not the one judged (`usurped`); `RepliesInv` and `ChildrenInv` of the
supervisor until a swap crosses a restart (`crossed`), and its gate but for the
exited child a failed swap goes back to (`relic`); `OwnerIsSeen` for verdicts that
could read each sidecar (`blind`); `RowGoneIsRecorded` for closes that need a record
(`waived`). Each of these histories is set by the step that the code lets through,
and by nothing else. `LandedStays` holds for lanes in clones of their own
(`OwnClones`), which its theorem has as a hypothesis.

Read off the code while modelling, without a definition of their own:

- *Self-update.* A pin made while a check awaits its fetch is not seen, and the
  pinned bundle is replaced (`README.md:81`: "the channel may not overwrite it"). A
  candidate of the same version and other bytes is accepted, and one is compared
  with the running image and not with the installed bundle (`README.md:85`: "must be
  strictly greater than the installed one"). A first install of the guest that
  ends before `gm.version` is written is never upgraded again.
- *Reaper.* Children attributed to a server in the ledger but without a port are
  never retired; chains of parents longer than 8 are not followed; an orphan whose
  parent is `systemd --user` is never retired by itself; records of dead ports and
  of owners are removed without a second read.
- *Feeds.* The server's own listings pass through `continuedReply` and mark blocks
  as given that nobody saw; the warning's own look-up moves the last activity, so
  that it repeats.
- *ReleaseBridge.* A record that could not be written leaves the new build in place,
  and the daemon is not told of it by that run.
- *CloseGate.* A close that names an event number and any commit is forwarded without
  a record, whether or not that commit exists. The cap on references is checked and used apart; a row added again
  under an old id closes on its old record; a commit that failed leaves a close no
  retry completes; a witness refused late says "Nothing was written" after the
  notes of the gate.
- *CodeMode.* The body goes on dispatching after its deadline; a raw or unparseable
  body drops the flat keys; a synchronous loop is never cut.
- *Waits.* With all defaults the poll equals the process limit; a prefix near the
  ceiling outlives the clamped poll; `GM_MCP_POLL_TIMEOUT_CEILING_MS` is not
  bounded by the timer limit.
- *SpoolDispatch.* The prune of listings matches session ids by prefix, so that of
  `abc` also takes listings of `abc-1`; an answer pruned between the test and the
  open reads as "not valid JSON". A secret whose file could not be read, and a secret
  or a refusal whose reply could not be spilled, is removed although nobody has it;
  the caller is told only that the reply was not valid JSON. A removal
  that fails is swallowed, and the spill of a secret stays until it ages out.
- *BrowserFeed.* A restart of a watch drops what was written since its last read,
  and a guest that starts its sequence again is not heard until it passes the last.
- *SpoolClient.* A deadline that passes during the retries of the rename rejects a
  promise nobody awaits yet; the request is submitted all the same. A deadline
  rejects without a last look. No module of `src/src` imports `dispatchSpool`.
- *SuperviseLock.* An empty lock left by a crash refuses every later supervisor.
- *GitRepo.* Cache keys are lower-cased paths on every system.

## 5. Proofs

Every theorem holds for every value of the constants that the named assumptions
of the module admit.

| Module | Theorems | Assumptions |
|---|---|---|
| `SpoolDispatchProofs` | `Invariance`, `TypeCorrect`, `RunsOnce`, `Withdrawn`, `UnsentIsUnsent`, `AnswerIsOwn`, `NoneLostUnread`, `ReadOnceStaysGone`, `RunsOnlyAsAsked`, `AnswersAreKept`; `PromiseKept`: the refinement of `DispatchPromise` | the four of `SpoolDispatch` |
| `SelfUpdateProofs` | `TypeCorrect`, `CacheIsTrue`, `CurrentMeansCurrent`, `CacheIsSound` | those of `SelfUpdate` |
| `SupervisorProofs` | `RepliesKept` (`RepliesInv`), `ChildrenServed` (`ChildrenInv`); `SessionsKept` (`SessionsInv`) | those of `Supervisor`; `KindsGiven`, `GateBounds`, `ColdBounds` |
| `RunnerEnsureProofs` | `NoneStacks` (`EnsureInv`) | those of `RunnerEnsure` |
| `TriageProofs` | `LeasesKeep` (`LeasesInv`), `TriageKeeps` (`TriageInv`), `GateKeepsRows` (`CloseGateInv`) | none; `NoOneAssumption`; `GateAssumption` |
| `PartsProofs` | `HoldersKept` (`HoldersInv`), `CallersKept` (`CallersInv`), `LivenessKept` (`LivenessInv`), of `PartsSpec` | `BossNames`, `WriterShape`; `TimesAreOrdered`, `ClientTimes`; `RequestsAreOrdered`, `NoPidIsNone` |
| | `CodeModeKept` (`CodeModeInv`), `TellingKept` (`TellingInv`), `FileCallsKept` (`FileCallsInv`), of `PartsSpec` | `ModeBounds`; `PageBounds`; `FileBounds` |
| `HostProofs` | `DriftKept` (`DriftInv`); `ReaperKept` (`ReaperInv`); `BridgeIsSafe` (`BridgeSafe`) | `DriftBound`; `ReaperAssumption`; `BoundAssumption` of `ReleaseBridge` |
| `RepoProofs` | `LayoutKept` (`GitRepoInv`); `LandedIsKept` (`PublishInv`); `BackupsAreKept` (`HousekeepInv`); `SweepKept` (`JanitorSafe`) | `RepoShape`; `PublishAssumption` and `OwnClones`; `PassesApart`; `JanitorShape` |

The assumptions say what kind of thing a constant is (a number, a set of
numbers, a subset), that a value meaning "nobody" is no process, and of `Waits`
that the defaults of the source are in their order. `OwnClones` is a hypothesis of
its theorem and no assumption of the module, because the code does not see to it:
section 4 shows what happens without.

None of these properties is inductive, and what each needs besides is the
argument for it:

- *Spool.* That a request runs once follows only if nobody can write it again,
  which depends on who may still publish it. `IInv` adds: a call before
  publication is the only call of its task and the request is unwritten
  (`WriterIsAlone`, `UnpublishedIsUnwritten`); how often it ran can be read off
  the place of its file (`RunsFollowTicket`); only claimed requests land
  (`OnlyClaimedLand`); an answer on disk or in a call's hands is the landed one
  (`AnswersAgree`); a refusal stays true (`RefusalsStayTrue`). `PromiseKept` maps
  the spool by `Life` and `Told`: initial states map to initial states, and every
  step to a step of `DispatchPromise` or a stutter.
- *Self-update.* `UpdateInv` says what a check holds while it awaits: the cache
  record it read was valid, the bundle it swaps in is that of the commit it
  probed, and whatever upstream showed it is in the history of what main held
  since it began. Without the first a probe could write back a record that never
  was valid; without the last a late answer could be an old one.
- *Supervisor.* `SupInv`: what holds throughout (`Throughout`: no reply is sent twice,
  because a request leaves the table with its reply), and `SInv` until a swap has
  begun while a restart was due. `SInv`: a swap that tries a child out and a restart never overlap,
  and while either is under way the gate is closed (`OneAtATime`); the children
  told nothing are the active one and the one tried out (`Lives`); and what is in
  flight waits on the active child, with nothing in flight when a restart is due
  (`Wire`). So a child gives way to another only with nothing left waiting on it,
  and no answer can come from a child nobody listens to. A crash during the
  hash is what makes a restart due while a swap may still begin, the one way out of
  `SInv`; a crash during the handshake keeps it, but leaves the gate open on the
  old child when the handshake fails, which is what `relic` records. Nothing is
  assumed of when children crash.
- *Runner ensure.* `RInv`: a living process knows the runner it started, because
  it is in the process's entry of the project or in the pass that has just
  spawned it (`Known`); and a pass that may still spawn left the entry empty, its
  child gone or killed (`EntryEmptied`). So a second spawn finds no first.
- *Leases.* `LInv`: a lease is written before a sidecar and is there as long as
  its server is not on its way out; hence a sidecar seen without a lease belongs
  to a server that attaches no more, however long ago it was seen
  (`SidecarsLeased`), and a server that stays is counted by a verdict, still in
  its list, or passed over by a failed read (`SteadyCounted`).
- *Write queue and orphans.* `QueueInvariant`: until a lock was removed that was
  not the one judged, a call between its lock and its unlock holds the lock, and
  what it read is what is there. `ServingSpared`: a request served since before
  the table is in the table and not in the list of what is moved.
- *Close gate.* `GInv`: what is still in the list of a pass of the gate was added
  early; a first row that was never removed is tagged or in that list
  (`CallRests`); and a close that goes on to remove a row has made its record, or
  needs none.
  A failed note ends the pass without the gate file, so the file is written only
  when the list is empty and every row of it was tagged or is gone.

- *Lock of the supervisors.* `SupInv`: whoever is judged gone has run and ended
  (`HolderHasRun`), and from its making to its removal a lock names its maker
  (`MakerHasLock`), until one removed a lock it had not judged (`snatched`).
- *Writer lock.* `WLockInv`: takes are numbered, what a call judges or puts back is
  a lock of the past (`CallsMeanLocks`), and until a lock was moved that was not
  the one judged (`upset`), a firm holder's take is in the file (`FirmHasLock`):
  two firm holders would be two takes in one file. *Consolidate*: `LandInv` says of each piece of work where it is at each
  stage - in the checkout, in a backup ref or patch being made, or on the shelf
  (`OnItsWay`, `WorkKept`) - so that the reset finds none that is only in the
  checkout.
- *Waits.* That the poll outlasts the process is arithmetic over what was given,
  defaulted and clamped, and that an answer is seen follows from the order of
  watch and look; both need the types only (`Planned`, `Wakeful`). `CiInTime`: a
  nap begins before the end of the budget, and the last question is asked at it.
- *Spool client.* `CInv`: its request is there from the rename on and its temporary
  file until then (`AskedWhenRenamed`), a wait is over once (`WaitIsOver`), and an
  open wait has looked no longer ago than the silence (`LooksInTime`).
- *Verdict.* Of a reading: which daemons were there during it and which from its
  first read on, against what each of the four reads found. Of a scan: what it
  has counted, what it has listed and what it has still to list are disjoint
  parts of what waited when it began, and a request that still waits is in one
  of them; the bounds follow by counting.
- *Bundle drift.* A server's stamp is never newer than the file's (`KnowsThePast`),
  so what it keeps under the file's stamp is the file's; and what was told to
  anybody is in the memory that keeps it from being told again (`Remembered`).
- *Sessions.* `SinceIsKept`: from the moment a call ran, every first row is noted for
  it, so what a lookup reads, a reply is fed and a bootstrap names is among them
  (`FoundIsFresh`), also when a lookup lands late; and the call that is to bring the
  bootstrap marked the entry before it (`OneBootstrap`).
- *Cold start.* `TakenInOrder` and `Handshake`: what is held is of the lines read, in
  their order, and is only there while the bundle loads; so what `start()` replays
  is the handshake and then the lines as they came. A line that waits, unread, held
  or open, has no answer yet (`WaitingIsUnanswered`).
- *Reaper.* `RInv`: while a pass lasts, a pid of its table is that process or nobody,
  and a process that still runs has the parent of the table or was given to init or a
  session manager (`TableIsPast`); so a client above it now is one the walk over the
  table met alive. From then on no client comes to be above it: a process starts
  without children, and an heir has no client above (`Family`, `StaysUndriven`). That
  `Chain`, a recursive function, is the chain of parents is proved by the least length
  at which there would be none (`ChainsExist`), and that a client is at most two
  steps up by who starts whom (`DrivenIsNear`).
- *Release bridge.* `LimitsInv`: until a lock is taken from the run that holds it there is
  one run in the locked region (`Alone`), so what it read of the limits is what the
  state file says until it asks (`InStep`); and a refusal of GitHub is known to the run
  that asks (`AskersKnow`) until it is on record, or is called forgotten because that
  run ended or failed before it settled (`ToldIsKept`). The run of TLC has one process,
  whose runs follow one another; the theorem is about any number of them.
- *Layouts.* `LayoutIsGits` is kept by an eviction, which forgets all, and by a change
  of `.git`, which forgets every directory above and below it. That no other
  directory's top level moves is a fact of prefixes (`PrefixChain`,
  `ToplevelIsAbove`): the repositories above a directory are a chain, the top
  level is the longest, and there is one because of a set of naturals one is the
  least (`LeastOf`).
- *Lanes.* `PubIInv`: until it commits, what a lane has not merged yet is what the tip
  has and what it has merged keeps the tip's edits and has its own (`Merging`);
  its commit keeps its parent (`Committed`), and so does each replay on the new
  tip; a lane that has not landed has no edit in any tree of origin (`Authors`),
  so a replay cannot take a lane's own edit for one it removes. A push lands on
  the last commit only, so keeping the parent is keeping what landed.
- *Housekeep.* `KeptInv`: an archive that is there holds one item whole
  (`ArchivesWhole`), what is not whole on disk has one or had one that was replaced
  (`GoneIsArchived`), and a pass that is about to rename has listed every part it saw
  (`Archiving`). `DayInv`: before the first pass of a day at most one server has the
  lock or is between it and the stamp, until a lock was removed that had been taken
  after the judgement.
- *Janitor.* `StillUsed`: a use that began before the table was read, still holds and
  was there to see is by a command line the table shows, a readable directory of a
  process in the table, or a lock; hence the plan, which reads directories and locks when it is made,
  leaves it out, and what is removed was planned (`PlanSpares`).

- *Code mode.* A folded request has each key in the place it is sent from
  (`FoldingKeeps`); a capped text is within its cap because the notice is in it
  (`CappedIs`). That the parts of a body that threw leave the block its room is
  division: each budget is a share of what is left after the block's reserve, or
  the least, and the sum of heads, budgets and notices stays under the cap when the
  least of each does (`PartsShare`, `SumBound`).
- *Pages.* `PagesLink`, `CharsLink`: what the reader asks for next is where its last
  page ended, so each page meets the one before. A range is cut on a whole line
  (`FitsFrom`); and a page of characters is the same however the file's bytes are cut
  in pieces, since after each piece it is what the characters seen so far make of
  it (`ConsumeReaches`, `Utf8PageIs`).
- *Browser feed.* `FileHolds`: the file is heads and tails of the newest events in
  order, for some number that are gone. Of the file up to its offset a watch has
  pushed every event that came after it began (`ReadSoFar`); what it reads next is
  a suffix of the file (`ReadsInStep`), from which `Newer` takes the events past the
  last one, once and in order (`NewerIs`).
- *Calls that are rewritten.* An edit: a text that is split and joined, and lines that
  are joined and split, are the same (`SplitJoined`, `SplitOfJoin`), but for lines that end
  with an empty one, which `JoinLines` cannot tell from a final line end; so the lines
  of what is written are those before the range, those put in and those after it
  whenever the text ends with a line end, is empty, or has lines after the range
  (`EditWrites`). An add: an excluded path is in a plan only when it was named
  (`AddsInv`), and what is run is the plan.

Induction is over the naturals, for one set at a time: a set of naturals that is not
empty has a least element (by `WFMin`). So it is for the lengths of paths (`LeastOf`)
and for the lengths at which a recursive function would have no value
(`ChainsExist`). What the models compute with folds is proved in the same way: a
fold over a list is the function the library defines it by (`FoldsExist`), and what
that function gives at each prefix follows from the least prefix at which it would
not (`SumSteps`, `SplitSteps`, `JoinSteps`, `NewerIs`).

Only model-checked: the liveness properties (in the table of section 3, those of runs
with a fair specification), because the prover has no rule for fairness. Every
invariant and every action property of a passing run is stated by a theorem.

## 6. Not modelled

- Text: the layout of replies (`response-compact.js`, `reply-format.js`), the
  completion checklist, the parsing of CI output, of search results and of the
  Windows process tables. They compute a string from a string and keep no state.
- HTTP: the searches of `public-search.js`, the sessions of `http-transport.js`
  and the allocation of ports. What other components read of a port's record is in
  `Reaper`.
- Most triage verbs measure and report without changing shared state; those that
  change it are modelled. Of `release-bridge.js`, builds made locally, the guest
  build record and the BOM marker are left out.
- The sandbox of code mode is `node:vm`; the bodies of verbs run in the runner,
  a program of another repository, as do the guest plugins.
- Wiring and output: `index.js`, `cli.js`, `mcp-server.js`, `server-log.js`,
  `dev-sync.js`, the build scripts, and the generated bundle
  `bin/gm-mcp-server.js`.
- Reuse of pids within one pass of the reaper, one life of a lease or one reading
  of liveness: a sidecar or a verdict may then be wrong until the next dispatch.
- The resolution of a project root for calls without `cwd`, which reads a file all
  servers share several times in a call.

Worth proving next: `AttachedIsKept` under reuse of pids, which needs a model of it
first.
