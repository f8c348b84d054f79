# A TLA+ model of SDLC Workbench

SDLC Workbench is a desktop application (Wails: a Go backend, a Vue frontend)
that drives AI coding sessions. It starts Claude processes and threads of one
shared Codex app-server, shows their events, asks the user to approve what they
want to do, writes an audit of all of it, and lets gates decide over
specifications, plans and merges. This directory holds TLA+ specifications of
its backend, the TLC configurations that check them, and proofs checked by
TLAPS. Paths below are relative to `src/`.

    tlc -workers 2 -config SessionManager_turns.cfg SessionManager.tla
    tlapm SessionManagerProofs.tla

## 1. The system

| Part | Source | State it keeps | Operations | Talks to |
| --- | --- | --- | --- | --- |
| session manager | `internal/appcore/manager.go`, `internal/contract/state.go` | one slot per workspace session (WSID): phase, generation, tokens, queue of events, reducer; `closed` | reserve, commit, abort, restore, remove, freeze; begin, accept and reject a submission; begin, cancel and finish an end or a reset; emit an event; close | every flow calls it; it writes the audit sink and the frontend's event stream |
| session flows | `app.go`, `session_host.go`, `internal/appcore/pump.go` | host registry, approval sockets, app phase | the frontend's bindings; reapers; shutdown with its forced pass and the ownership lease | manager, hosts, registries |
| approvals | `internal/approval`, `app.go` (7011-7042, 6903-7009, 8733-8781) | waiters and queue of the broker; registry of pending requests; the freeze latch | ask, serve, pump, register, resolve, deny sweep, freeze, timeout | asking process, frontend, manager's audit |
| append-only journal | `internal/journal` | a JSONL file and its lines in memory, a degraded latch | open with tail repair, append | gates, escalations, evidence |
| gates and policies | `internal/gate`, `internal/gatepolicy`, `app.go` (3938-4030, 5112-5190, 5297-5470, 5653-5706, 5915-5982) | journal of requests, decisions and transitions, projected | submit, prepare and commit a decision, reconcile; list | journal, git, escalations |
| escalations | `internal/escalation`, `app.go` (5993-6384) | journal of items | create, acknowledge, resolve, by user or by condition | journal, gates |
| workspace registry, restore | `internal/wsregistry`, `restore.go`, `app.go` | `workspace-sessions.json`, an uncertain latch | add, tombstone, bind, note a resume id, begin a view; migrate, backfill and restore at a start | creation, removal, startup |
| replay index and rebuild | `internal/replayindex`, `rebuild_orchestrator.go`, `app.go` | files of complete turns and a checkpoint beside the audit, degraded and unverified latches | observe, flush, rebuild, verify; close open turns at a start | audit sink, manager's lock |
| Codex generation | `internal/codex/{single,owner,session}.go`, `app.go` | the one app-server: epoch, owner, watcher, recording | ensure, take, replace, recover, finalize, shut down | wire log, Codex sessions |
| Codex turns and routing | `internal/codex/{turns,rpc,mapevent}.go`, `app.go` | active and early-ended turns, the tables from thread, turn and request to session, the pending start | start a thread or turn, note its end, attribute a frame, time out | manager, hosts |
| wire log and its frames | `internal/wirelog`, `wire_frames.go` | logs, sidecars, segments, a journal of pending views, a latch | append, open and close a segment, finalize, index, expand in the background | Codex connection, audit |
| Claude session | `internal/claude` | a process and its decoder | start, send, end | pump, reaper |
| process supervision | `internal/proc` | a child, its process group and streams, what was sent to it and how it ended | start, terminate, wait, read, close, tell a cancellation from a crash | the operating system; all providers use it |
| evidence, specs, plans, domain specs, assist, forge | the packages of these names | files and git | run a command, validate, diff, query | gates |
| workspace confirmation, single instance lock, recorder | `workspace_confirmation.go`, `internal/singleinstance`, `internal/recorder` | one flag; a lock file; a line count | confirm; acquire; write | bindings |
| frontend, CI scripts, probes | `frontend`, `.github`, `cmd` | presentation and tooling | | bindings |

The parts share no lock. A session exists three times: as a slot in the manager
(mutex `mu`), as a host in the app's host registry (`hostMu`) and as an entry in
the durable registry; a request for approval exists in the broker, in the app's
registry, in the audit and on the screen; a frame of the app-server is recorded,
attributed to a session, routed to a host and, later, counted in a view. What
makes the behaviour hard:

* **Interleaving.** The bindings run in goroutines of their own; every Claude
  host has a pump and a reaper; every app-server has a read loop and a watcher;
  the broker serves each request in a goroutine; rebuild and frame expansion run
  in the background; shutdown runs against all of these. The manager's means
  against that is the *token*: whoever takes a slot gets one with the slot's
  generation and a sequence number, and a later call with a token that is not
  outstanding is refused. The Codex generation's is the *epoch*.
* **Stale state.** Flows read the host, the removable check or the busy flag in
  one critical section and act in another; the gates rest a decision on files
  that change.
* **Ordering.** Events arrive before the submission they answer is accepted; a
  turn's end overtakes the response that names the turn; a rebuild reads rows
  while sessions write them.
* **Timeouts.** A pump may never drain; a request may never be answered; a call
  that was given up may be answered all the same.
* **Crashes.** Journals, registry, index and frame jobs are each repaired in
  their own way at the next start.
* **Bounds.** Places per provider, approval sockets, the queue of the broker.

The hazards, each at its line with the properties aimed at it, are in
`PROJECT.json`.

## 2. Modules

| Module | Models | Kind |
| --- | --- | --- |
| `SessionLifecycle` | what a workspace session promises its callers | abstract specification |
| `SessionManager` | `appcore.Manager` with `contract.Reducer` | component; implements `SessionLifecycle` |
| `SessionFlows` | bindings, reapers and shutdown over `SessionLifecycle` and the host registry | composition |
| `SessionCatalog` | registry, slots and conversations across creation, renewal, removal and restart | composition |
| `Approvals` | a request from the asking process to the answer | component |
| `Journal` | `journal.Open` and `Append` over crashes | component |
| `Gates` | gates and escalations under the workflow lock | composition of both |
| `ReplayIndex` | index, rebuild, orchestrator and the start that verifies | component |
| `CodexServer` | the life of the shared app-server and of its recording | component |
| `CodexTurns` | sessions, threads and turns on one connection; whose frame is it | composition |
| `WireFrames` | which frames of the logs a view shows, with the background worker | component |
| `ProcSupervisor` | one child process, its group and its supervisor | component |
| `MC...` | callers and symmetry of the runs of the module so named | model checking |
| `...Proofs` | theorems about the module so named; `GatesProofs` has those about `Journal` too, `CodexServerProofs` those about `ProcSupervisor`, `ApprovalsProofs` those about `ReplayIndex` | proofs |

Operators with an underscore and a phrase at the end of their name
(`ReserveSession_CountsCommitted`), each under a comment that begins with
"deviation", are not part of the specifications. They are plausible mistakes in
the definition that follows them; put in its place, each makes the property that
`PROJECT.json` names with it fail. They show that the property is one that the
code could break.

### SessionManager and SessionLifecycle

`slots[w]` is the code's `slot`, field by field where a field decides anything:
`stage` stands for absence, reservation and `committed`; a removed slot is
`gone`, and it is not created again because WSIDs are ULIDs. `seq`, `endSeq` and
`resetSeq` number the tokens, `None` is a nil pointer. `log[w]` is what the slot
sent to the sink, `arrived[w]` numbers its events so that loss and reordering
show, and `issued[w]` collects the tokens that were ever handed out: a caller
may come back with any of these, at any time and again. `issued` and `arrived`
are history; no guard of the code's reads them. Each action is one exported
method, from the lock to the unlock, with the guards in the order of its early
returns; a call that returns an error changes nothing and is a stutter. The cost
totals and the texts are left out, and so is the sink's failure: `emitLocked`
keeps its error (`auditErr`, `manager.go:956`) and goes on to the frontend, so
`log[w]` is the sequence of rows handed to the sink, not of those it stored.

`SessionLifecycle` is the drawing in the comment above `Manager`
(`idle --BeginNewSessionSubmit--> starting ...`) with the cap on places and the
rule that a closed manager begins nothing. It has no tokens, no queues and no
events. Two things in it are not in the drawing and are stated in the module:
`NewSession` leads to `idle` from anywhere, and `Close` settles submissions.

### SessionFlows

The manager here is `SessionLifecycle`, instantiated: every call that a flow
makes on it is one of its steps (`M!Move`, `M!Renew`, `M!Release`, `M!Shut`). A
token would add nothing to that, provided no flow ever presents a stale one. That
is what `TokensCurrent` says, and it is checked. `flow[a]` is the program counter
of caller, reaper or forced teardown `a` between two critical sections; `hosts`
are processes with pump and broker (Claude) or threads (Codex); `reg` is
`sessionHosts`; `sock` is `sockIndexOwner`; `app` and `snap` are the steps of
`shutdown` and the hosts it found. `once` is the `sync.OnceValue` in
`teardownFn`, which reaper and forced teardown share.

### SessionCatalog

`mem` is the store's file as parsed, `disk.now` what a read returns, `disk.safe`
what a crash of the machine leaves; they differ after a rename whose directory
could not be synced, which sets `latched`. The four steps of a write (temporary
file, sync, rename, sync of the directory) run under the store's mutex and are
one action with three outcomes. `slot` is the manager's, reduced to what the
registry has to agree with; `conv` and `pump` are the conversation of the
provider process and how far its identity has come on its way into the registry.
`tx[c]` follows a binding of a caller between the critical sections, `token` is
`crToken`, which admits one creation or removal at a time. A view is the number
of its boundary and a conversation the pair of session and view it was begun in.
`promised` is history: the entry that the store last acknowledged. So are
`unfilled`, that a write of the resume backfill failed, and `revived`, the renewed
sessions that a later attempt then gave the conversation of `restore.json`.
Left out: that the registry file is created empty at a first start, and a
teardown that fails while the pump is inside its write. The parameter of an
explicit resume is left out, and `SetTaskRunBinding` and the label have no
caller and no effect on what is modelled.

### Approvals

`pc` follows a request through the goroutine that serves it
(`Broker.serve` for Claude, `codexApproval` for Codex), `claim` follows the
resolver that took it. `waiters`, `pending` and `verdicts` are the broker's map,
its bounded channel and the channel of each waiter; `registered` and `frozen` are
the app's registry; `pump` is the goroutine between queue and registry. `audit`
and `shown` are what the user finally sees. A timeout is a decision of its own:
the provider is told "deny", the audit says "timeout". The provider is chosen in
`Init`: a session belongs to one. The order in which dialogs are displayed is left
out.

### Journal

A line is its number and the form it has in the file: whole, bare (everything
but the newline) or part. `file` is what a read returns, `device` the set of
contents a crash of the machine could leave; `fsync` makes the set a singleton.
`Crash` ends the process, and may or may not end the machine.

### Gates

`entries` is `gate.Project` of the gate journal: one entry per request with its
bindings and its state; its index stands for its request and approval ids.
`inbox` is the set of conditions that have an unresolved item in
`escalation.Project`, `Blocking` is `BlockingFor`. What either journal does when
it fails is a part of `Journal`'s behaviour: a failed append latches it
(`gateDown`, `escDown`), and the line may or may not be found when it is opened
again (`found`, `foundInbox`).

`decide.at` follows `gateDecide`, the one flow that holds `workflowMu` over
several steps: reconcile, `PrepareDecision`, settle the item of the stale
version, check for blockers, `CommitDecision`. `submit` and `run` follow a
submission and an evidence run between the critical sections they use. Edits of
the files happen at any time. `Decided` is what one op of the journal does to the
projection; `Marked` what a durable reconciliation writes; `Shown` what the list
without one says.

Abstracted: a specification tree, one plan with one task, and the test files, so
that each gate has one subject; a digest is the version of the tree it was taken
of, and a commit of the plan its plan's version. One reconciliation reads the
trees at one time. One kind of evidence run stands for both, one at a time. Items
that come about like a modelled one (risk, evidence journal) are not listed
apart, and an acknowledgement changes nothing that blocks. gate3 has no caller
that submits to it, and is left out together with expiry, which only its policy
can cause.

### ReplayIndex

`log` is `events.jsonl` as a sequence of rows, an offset the number of rows
before it, a turn the rows that open and close it. `idx` is `Index` in memory with
its two latches; `file` and `ckpt` are `turns.jsonl` and `checkpoint.json`, whose
lines have the forms of a broken write. `emit` says who holds the manager's lock
between write, `Observe` and `Notify`; `loop` is `runRebuildLoop`, whose passes
scan beside the sessions and take the lock for the rest once no more than
`CatchUpLimit` rows are left. `Restart` loads what there is, `phase` and `todo`
follow the startup that verifies the index and then closes every open turn.
`flaws` is history, the four ways in which what is on disk comes apart so that no
reader can tell: an append after an unfinished line glues the two (`glued`), the
flush of a degraded index writes an old offset with new open turns (`mixed`), the
files are set aside beside a checkpoint that is trusted and not written again yet
(`gap`), and a start cut off in that gap is followed by one that trusts the
checkpoint (`lost`). The properties about the disk exclude histories with one. Audit rows are whole, the index's own writes are taken
to have reached the disk when a machine crashes (the code does not sync them and
relies on the checkpoint's identity), and the error returns of `OpenWith` are left
out. So is an emit that fails while the start repairs open turns: the code goes on
and leaves that turn open (`app.go:1963`, `:2018`). `ErrRebuildInProgress` cannot come about under the orchestrator.

### CodexServer

`gen[g]` is one app-server with pipe, recorder, finalization and watcher; `cur`
and `epoch` are `Single`; `smu` and `mu` are `Single.mu` and `codexServerMu`;
`wireGen` and `latch` are what `checkWireRecorder` polls and keeps. `pc[c]` is
where the binding of a caller stands, under which locks. The frames are counted:
written by the server (`said`), in the pipe (`out`), handed to the recorder
(`kept`). The read loop runs from the start of the process on, before `attach`
gives it a recorder; a frame read by then is dropped, which `early` remembers. It
ends when the process is gone and the pipe empty, or on an error of its scanner (a
line over the limit, stdout closed by the supervisor), which `cut` remembers. Steps
between which no other goroutine can see a difference are merged: terminate, wait,
drain and detach; publication and the start of the watcher; `gen.Err` and the
latch. Frames of the handshake are not told apart from the others. A line is taken
to be a JSON frame: one that is not is read, and what `record` then hands to the
recorder is empty and fails, which shows in the result of the finalization and not
in the meta file. The end of the application while a watcher still finalizes is
left out.

### CodexTurns

`call` are the requests made, in order; the number of a call is the id of the
thread or the turn that the server makes for it. `c2s` and `s2c` are the two
directions of the connection, `late` the calls whose caller has given up. `host`
is the published host with its `ThreadRunner`: `pending`, `active` and the turns
that ended early. `rd` is the read loop between recording a frame and dispatching
it; `threadW`, `turnW` and `reqW` are the tables by which a frame finds its
session, `starting` is the start registered as pending. `open` and `overlap` are
the segments of the wire log. The range of a segment is open from the step that
reads its beginning to the step that reads its end, which comes after the release
of its registration: `mixed` are the sessions whose range has got a frame of
another whose range was open too, `crossed` those whose range was open together
with one that was released before it began, or after. Both are history. A frame of
a session that has no range open any more (an answer to a call that was given up)
is nobody's in this count. Each session has one caller.
Taking a number, resolving and writing a request are one step; a thread that is
refused looks like one that timed out; `turn/interrupt`, failing appends of the
log and segments without a frame are left out; a frame of an unknown method that
names a thread behaves as an item. How approvals are answered is in `Approvals`.

### WireFrames

A log is, per session and generation, the number of that session's frames.
`closeWireSegment` is `pc[s]`: it counts the frames of the generation at hand,
writes a pending row (`views`), puts the rest down in the journal (`jobs`, `done`)
and in the `queue`, and gives a signal; `worker` takes the views one at a time and
writes a `result`. `side` are the sidecars that a finalized generation leaves and
that the worker may rebuild; `cache` is `wireIdxCache`, `rotten` the logs that
cannot be read, `latched` the journal that failed. A truncated log is a prefix.
`lost` are the open jobs that have lost a segment, `early` the generations that the
worker read before their last frame; both are history. A `journal.Open` that fails
at a restart (`wire_frames.go:102`), after which no job is taken, is left out.
The window in which a crash leaves a pending row without its job is documented in
the code (`wire_frames.go:146`) and part of the model.

### ProcSupervisor

`leader`, `cause`, `hit`, `kid` and `holds` are the operating system's: the child,
what it died of, the signals that reached it alive, and its descendants with the
write ends of the pipes that they inherited. `exited`, `canceled`, `termSent`,
`killSent`, `exit`, `forced` and `callerClosed` are the fields of `Proc` and its
reader. `sup` is the supervising goroutine between `cmd.Wait` and the publication
of the `Exit`, `watcher` that of the context, `escalations` the timers of
`Terminate`; `rd` and `closing` are a caller in `Read` and one in `Close`. A
signal and its record under `p.mu` are one step. What `kill` returns for a group of
which only a zombie or a process in creation is left differs between systems, and
both answers are possible. `Offsets` stands for the number of probes in
`cleanupOffsets`; a descendant that was killed may hang, so the budget may pass
with the group still there. Stdout and stderr are inherited together. That the id
of a group is not used anew while it is signalled is assumed; that `Terminate`
sends nothing after the end is on record, which guards against it, is in the
model. `sent` is history: a verdict is compared with what was really sent.

## 3. Runs

| Run | Question | Bounds |
| --- | --- | --- |
| `manager_turns` | Does a slot keep owner, audit and turn consistent under every call and every late token, as the lifecycle says? | 1 place, one session that works and one that competes for the place (`Working`); 2 generations, 3 submissions, 2 ends, 1 reset, 3 events of 3 kinds: a token of the first generation is late in the second, a queue holds events on both sides of an accept. |
| `flows_both` | Do the flows keep slot and host together, is no turn cut off, and does each flow come to an end, shutdown with them? | a Claude and a Codex session that 2 callers share: one ends what the other begins; 2 hosts, one socket, so that a start can fail; pumps that stick; a restart while the first host is still being torn down. |
| `catalog_crashes` | Is what the registry acknowledged found again, and does a session continue only its own conversation? | 2 sessions over 2 places, 2 callers, views 0 to 2 (legacy, first, renewed), 2 failing writes, so that one fails while another is repaired, and one end of the process or the machine. |
| `approvals_both` | Is each request answered, fail-closed, and audited? | 2 requests, a queue of one: the second one finds it full. |
| `journal_faults` | What survives failing writes, fsyncs and crashes? | 5 appends, 4 crashes: a repair after a repair. |
| `gates_decide` | Is what is approved current and unblocked, whatever happens around a decision? | 3 requests, so that a contract can rest on a plan that rests on a specification, or an approval be replaced; 2 versions and 2 edits, so that files change and are restored; one failing append in either journal, one restart. |
| `replay_rebuild` | Can an index that claims to be in order be trusted, in memory and on disk? | 2 sessions, 4 rows: turns of both interleave; 2 failing writes, so that a rebuild fails too; one restart; one row may be left for the pass under the lock, one catch-up before the rebuild backs off. |
| `codex_server` | Has every app-server one who will end it, and is its log whole? | 1 session start and 1 caller that asks for or replaces the server, two operations between them; 2 generations, so that there is an old and a new one; 1 frame (each hazard of the recording is about one), 1 failing write of the log, and a pipe that may outlive its process. |
| `codex_turns` | Is every frame given to its session, and is a session busy as long as its turn? | 2 sessions; 5 calls: two threads, a turn in each, and one more; one call that times out, one item or approval request. |
| `wire_frames` | Is an answer complete or says that it is not, and is no job lost? | 2 sessions, 3 generations, 3 views: a job in the worker's hand and one in the queue, and a segment that takes a lost one's place while its generation is live; 1 end of the process, by a crash or a shutdown, with a restart after it; 1 frame in each generation; 1 fault, a write of the journal, a log that rots, or a segment record that is lost. |
| `proc_life` | Is a cancellation told from a crash, is nothing left behind unsaid, and is an end always reported? | 2 descendants, so that one forks another between two signals; one probe before the last, one `Terminate` beside that of the context. |
| `flows_reaper` | Finding, see below | 1 caller, 2 hosts |

`CHECK_DEADLOCK FALSE` stands where a system comes to rest: a closed manager, a
finished shutdown, an answered request, a history that has used up its bounds.
`Gates` and `CodexServer` are checked for deadlock: a caller that waits for a lock
nobody will give back would show. The bounds are constants that begin with `Max`
and stand in the guards of the actions that count; `Working` in `SessionManager`
names the sessions that do more than compete. Sessions are interchangeable where
a run declares a symmetry; none of the runs with a symmetry checks liveness.

### What the properties say

* `SessionManager`. `Ownership`: at most one caller owns a slot, the phase says
  which, and queue, generation and provider session belong to it.
  `NoTokenRevival`: a token that is no longer outstanding never becomes valid
  again. `AuditIsArrivalOrder`: no event is lost, repeated or reordered.
  `OneTurnInFlight`: no second message before the turn of the first is closed.
  `LifecycleSpec`: the refinement.
* `SessionFlows`. `TokensCurrent`: a slot in passage has one flow that settles
  it, and no flow ever presents a stale token. `EndRefusedWhileBusy`: no user's
  end, reset or removal tears a Codex host down over a turn, although the host
  was read before the slot was taken. Violated: `IdleHasNoHost`. Under fairness `EverySlotSettles` and `ShutdownCompletes`.
* `SessionCatalog`. `Kept`: an acknowledged entry is found again after any crash.
  `SlotsMatch`: the manager's slots are the registry's sessions, and no file
  holds more than a restart admits. `EntriesFitViews`: no conversation is
  continued over a boundary or by another session, except that of `restore.json`
  by a session that was renewed before a failed backfill was tried again.
  `IdentityRecorded`: an
  identity is recorded whether it is known before the session runs or after.
* `Approvals`. `FailClosed`: "allow" comes from a user who allowed this very
  request. `FrozenStaysClosed`: a request that nobody had allowed when the session
  froze is never told "allow", wherever the freeze found it. `CodexAuditNamesAnswer`:
  the audit of an answered request is the request and, once, the decision that its
  answer follows from, a verdict or "timeout". Under fairness `EventuallyAnswered`.
* `Journal`. `MemoryIsFile`: what the projections read is what a restart would
  read. `AckedOutlastRepairs`: an acknowledged line is lost or reordered only
  after a repair was itself interrupted.
* `Gates`. `OneActivePerGate`: approval and supersession are one record, so no
  gate has two approvals in force. `NoApprovalUnderBlocker`: none is given while
  an item covers its scope, though the check is a step before the append.
  `NoApprovalOverStaleSpec`: once the specification's approval is stale on
  record, nothing above it is approved before a new one is. The items that block
  are made in steps that may fail, so this is what the making-up at the next
  reconciliation is for. `ContractRestsOnActivePlan`: a contract's plan approval
  and evidence are compared again when it is decided.
* `ReplayIndex`. `IndexExact`: an index without a latch has seen every row and
  holds every turn once. `DiskFaithful`: from a checkpoint that would be trusted
  no turn is missed. `QuietBeforeFlush`: shutdown flushes beside no rebuild.
  `RestartSettlesTurns`: a start that verified the index leaves no turn open.
* `CodexServer`. `EveryGenerationHasOwner`: a generation that nobody finalizes is
  published with its watcher, dead with a watcher about to act, or still being
  built under the lock. `LogIsWhole`: to a finalized log every frame was handed that
  the server wrote, unless the drain timed out, the read loop ended on an error or
  the frame came before the recorder was attached; its meta file names a write error
  exactly if there was one. `MonitorFollows`: the recorder that is
  polled is the one in use.
* `CodexTurns`. `RoutesOwn`: a notification of a turn that was not given up goes to
  the session of its thread; what is excepted for given-up calls, and for requests
  and threads whose session is gone, is named in the module (`Unrouted`, `Residue`).
  `CompletedIsNotBusy` and `TurnHasRunner`: busy no longer and no shorter than
  the turn runs, also if its end overtakes its beginning. `OverlapIsMarked`: a
  segment whose range has a frame of another open range says so, unless one of the
  two had been released and its end was still to be read when the other began.
* `WireFrames`. `ResolvedIsComplete`: a resolved view has every generation of its
  session, unless a segment was lost, and of every earlier one all frames, unless the
  worker read that generation before its last frame. `JobsSurvive`: a job is forgotten only when its result is in the
  audit. `QueueIsSeen`: no queued job is left without a worker or a signal.
* `ProcSupervisor`. `VerdictIsCause`: an end is reported as a cancellation if the
  signal that reached the child alive ended it, and never for a signal that was
  not sent. `DoneIsClean`: a process that is done has left nothing in its group,
  or its exit says so. Under fairness `DoneFollowsExit`: a child that ended or was
  terminated is reported, and its reader released and told why.

### Fairness

`SessionFlows`: weak fairness of every step of a flow that has begun, of the
reapers and of shutdown's own steps, which is that Go schedules goroutines and
that calls into a provider return; a process that was told to end ends, unless
its pump is stuck, and then the timeout in `CloseSequence` passes. Nobody has to
start, send or end anything. `Approvals`: weak fairness of the serving
goroutines (the timeout is part of serving), of the pump and of resolvers that
have begun; nobody has to ask or click. `ProcSupervisor`: weak fairness of the
supervisor, the reader, the timers and a `Terminate` that was decided on, and of
the death of a child that was sent KILL; a descendant may live on for ever, killed
or not, and nobody has to close or cancel. The other modules check safety only.

### Finding

`flows_reaper`. The reaper's check and the `BeginEndSession` after it are two
critical sections; with an end and a start in between it ends the new session
with the old host's teardown, and the new process runs under an idle slot. The
comment at `app.go:7659` means a new host to be left alone. `endSessionFlowForWSID`
and `newSession` read the host before `BeginEndSession` too, and two callers of one
session have the same window.

### Seen while modelling

What follows is behaviour of the models that a comment or document describes
otherwise, or leaves open. No run stands for it; where a constant or a clause of a
property takes it out of a passing run, that is named.

* `Journal`: the repair empties the file before it writes the good lines back
  (`journal.go:111`); a crash in between loses acknowledged lines, which
  `AckedOutlastRepairs` excepts.
* `SessionFlows`: a session whose pump stuck when it was ended is in no snapshot
  of shutdown's, so the lease is released while that pump may still write
  (`app.go:2909`, comment at `:3021`). With two callers, an open and a removal of
  one session can interleave so that a tombstoned session keeps a slot
  (`app.go:7376`, the window the comment at `:7339` names); a message can go through a host that was replaced (`:7154`).
* `Approvals`: a deny sweep between registration and display leaves a dialog open
  that can no longer be answered (`app.go:7036`); for Claude, a timeout and a
  verdict that race are both audited (`:7029`).
* `Gates`: the list without a durable reconciliation judges a contract by the
  journal, in which a plan approval that has just drifted is active
  (`service.go:217`, `:238`).
* `SessionCatalog`: a resume backfill that failed is tried again after the session
  was reset and restores the old conversation (`store.go:481`), where the comment
  (`:471`) says that the marker keeps it from happening more than once. It happens
  in the run; `EntriesFitViews` excepts it by name (`revived`) and fails without
  the exception. With two callers of one session (`Shared = TRUE`) it fails too.
* `ReplayIndex`: a rebuild that gave up for lack of convergence leaves its memory
  to be flushed at shutdown (`index.go:540`). A start that finds a file corrupt in
  the middle sets all files aside and scans from 0, but the checkpoint on disk stays
  the old, trusted one until the first turn is scanned (`rebuild.go:152`,
  `corrupt.go:40`): when that start is cut off before, the next one scans from the
  checkpoint over empty files and the earlier turns are missing from then on, where
  the comment (`corrupt.go:53`) says that the full scan loses nothing.
* `CodexServer`: when a recovery reports an error after it has published a server,
  the latch stays although a good recording runs (`app.go:8228`). A death that
  `ensureAppServer` sees before the watcher is finalized without a cause
  (comment at `app.go:8064`). A frame that is read before the recorder is attached is
  dropped without a word (`rpc.go:165`), and so is what is left in the pipe when the
  read loop ends on an error (`rpc.go:310`). A start that crosses `refuseIfCodexLive` publishes a
  live session on a connection that is gone (`:8247`).
* `CodexTurns`: a turn that was given up can bind, when it starts late, to another
  session that is starting (`app.go:8372` accepts a residue shorter than this one);
  `RoutesOwn` excepts it. After a timeout of `turn/start` a second turn can be
  attempted on a thread where the first runs. When the server dies the active turn
  is never cleared (`app.go:7239`). `closeWireSegment` gives up the registration
  (`:7937`) before it reads the end of the range (`:7941`). A segment that begins in
  between overlaps it, neither is marked, and a row that says "exclusive" can hold
  the other's frames. It happens in the run; `OverlapIsMarked` excepts it by name
  (`crossed`) and fails without the exception.
* `WireFrames`: the worker may read the log of a generation while it is being
  finalized and replace its sidecar by a shorter one (`attribution.go:99`). A job
  keeps only the number of segments at its closing, which the comment at
  `wire_frames.go:78` calls an exact restoration that makes a lost tail of the
  segment file detectable. A later closing takes the lost one's place, the number
  fits again (`:275`), and the worker reads a generation that is still live, keeps
  the short answer and leaves a generation out. All of this happens in the run, and
  `ResolvedIsComplete` fails when `early` or `lost` is not excepted. The comment at
  `app.go:2945` gives the jobs a snapshot of the segments, where the worker reads
  the set as it is by then.
* `ProcSupervisor`: a descendant that leaves the group (`setsid`) with stderr open is
  not reached by the kill. The cleanup finds the group gone and closes nothing, and
  the supervisor waits at `proc.go:371` for as long as that descendant runs, though
  the comments at `:309` and `:371` say that the kill of the group guarantees the
  end of the streams. With `Detach = TRUE`, `DoneFollowsExit` fails.

## 4. Proofs

| Module | Theorem | Statement |
| --- | --- | --- |
| `SessionManagerProofs` | `InvHolds`, `OwnershipHolds`, `ClosedIsSettledHolds` | `Spec => []Inv`, and of `Ownership`, `ClosedIsSettled` |
| | `NoTokenRevivalHolds` | `Spec => NoTokenRevival` |
| | `LifecycleHolds` | `Spec => LifecycleSpec`: the refinement |
| | `SlotCapHolds`, `FreezeIsFinalHolds` | the cap on places; a frozen session begins nothing more |
| | `AuditInvHolds`, `TypeOKHolds` | `Spec => []AuditInv`, the inductive invariant of the audit; types |
| | `AuditIsArrivalOrderHolds`, `OneTurnInFlightHolds` | the two properties of the run about the audit |
| `ApprovalsProofs` | `TypeHolds`, `RoomForVerdictHolds` | types; a resolver never blocks on the waiter's channel of one |
| | `FailClosedHolds`, `FrozenStaysClosedHolds`, `CodexAuditNamesAnswerHolds` | the safety properties of its run |
| | `IndexInvHolds` | of `ReplayIndex`: `ReplaySpec => []IndexInv`, the inductive invariant |
| | `IndexExactHolds`, `DiskFaithfulHolds`, `QuietBeforeFlushHolds`, `RestartSettlesTurnsHolds` | every property of the run of `ReplayIndex` |
| `SessionFlowsProofs` | `TypeHolds`, `TokensCurrentHolds`, `EndRefusedWhileBusyHolds` | types, and the safety properties of its run |
| `GatesProofs` | `TypeHolds`, `OneActivePerGateHolds`, `NoApprovalUnderBlockerHolds`, `NoApprovalOverStaleSpecHolds`, `ContractRestsOnActivePlanHolds` | types, and every property of its run |
| | `JournalTypeHolds`, `NeverRefusedHolds` | of `Journal`: types; no history leaves a file that `Open` refuses |
| | `MemoryIsFileHolds`, `AckedOutlastRepairsHolds` | the properties of the run of `Journal` |
| `SessionCatalogProofs` | `KeptHolds` | `Spec => []Kept` |
| | `SlotsMatchHolds`, `EntriesFitViewsHolds`, `IdentityRecordedHolds` | the other properties of its run, under `~Shared` |
| `CodexServerProofs` | `LocksHolds` | a lock is held by exactly the caller inside it |
| | `EveryGenerationHasOwnerHolds`, `MonitorFollowsHolds`, `LogIsWholeHolds` | every property of its run |
| | `VerdictIsCauseHolds`, `DoneIsCleanHolds` | of `ProcSupervisor`: the safety properties of its run |
| `CodexTurnsProofs` | `InvHolds` | `Spec => []IInv`, the inductive invariant |
| | `TurnHasRunnerHolds`, `CompletedIsNotBusyHolds`, `OverlapIsMarkedHolds`, `RoutesOwnHolds` | every property of its run |
| `WireFramesProofs` | `QueueIsSeenHolds`, `JobsSurviveHolds`, `ResolvedIsCompleteHolds` | every property of its run |

Each holds for every value of the constants that satisfies the assumption its
module names (`ConstantsAssumption`, `BoundsAssumption` and the like), which TLC
evaluates in the module's run: finite sets of sessions, bounds that are natural
numbers, names that do not collide. `GatesProofs` extends `Journal` besides
`Gates`, `CodexServerProofs` extends `ProcSupervisor` besides `CodexServer`, and
`ApprovalsProofs` extends `ReplayIndex` besides `Approvals`, whose names are
disjoint for that; each theorem is about one of the two
specifications. Three theorems, those of `SessionCatalog` but `KeptHolds`, have a
hypothesis more, because the properties fail without it and not because the proofs
do: `~Shared`, no two callers use one session of the catalog at a time. With two, TLC
finds each of the three violated, the first by an open and a removal that leave a
slot behind a tombstone. The run has the same restriction.

Every proof goes by an inductive invariant, a conjunction of named parts:

* `SessionManagerProofs`. `Ownership` alone is not inductive: `AcceptSubmit`
  compares a token with the outstanding one, and to know that a late token is not
  equal to a new one it takes that every counter is ahead of every token handed
  out (`TokensBehind`). `Inv == Shape /\ Ownership /\ ClosedIsSettled /\
  TokensBehind`. An action replaces one slot (`Put`), so lemma `SlotStep` reduces
  preservation to a statement about the new slot (`Good`), and each action has a
  lemma that establishes it. The refinement needs two facts more, that a free or
  gone slot has no provider and that the cap holds.

  The audit has an invariant of its own, `AuditInv`. That a second message waits
  for the end of the first turn is decided by the reducer, which `BeginSubmit` reads
  long before `AcceptSubmit` writes; what connects the two is that a user message
  of the current generation that nothing has closed keeps the reducer in flight
  (`Tied`), that while a submission is pending there is none, and that no row is of
  a generation to come, so `NewSession` may reset the reducer. `LogOK` is this for
  the audit that a flush is in the middle of. A flush is a recursive function,
  which has to be shown to exist (`EmissionExists`) and to keep `LogOK` at every
  entry (`EmitAllOK`); both are inductions over the places of the queue, which
  lemma `UpTo` offers for a set of places: if 0 is in it and each of its members
  is followed by another, all are.
* `SessionFlowsProofs`. `Tokens` says three things of the flows that hold a slot:
  they agree with it (`Match`), there is one (`Single`), and a slot in passage has
  one (`Held`). That a start finds its slot again when its process is up takes
  `Starts`, which ties it to its reaper; that a flow that needs a host finds one,
  `Room`; and `Phased`, that shutdown collects what is left only after the
  bindings have come out. `EndRefusedWhileBusy` is a part of its own: both sender
  and ender may hold a host that was replaced, but each one's host is a host of its
  session (`HostsNamed`), so the one begins a turn and the other tears down with the
  same slot in hand, which has one holder. Every action
  moves one flow, and a few move one slot with it; lemmas say what the others see
  of that.
* `Journal`, in `GatesProofs`. `Contents` says that every content a crash could leave is one
  that `Open` can repair and that the file is one of them; `Mirror` relates lines
  in memory to the file per step of `Open` and `Append`; `Outlast` carries the
  acknowledged lines through all contents at once.
* `ApprovalsProofs`. `Decisive` and `Faithful` follow a verdict from the click
  through claim and channel to the answer; `QueuedOnce` and `Unclaimed` say that a
  request is in one place and has one resolver, from which the room follows.
  `CodexSide` says for each station of a Codex request what its audit holds by
  then, and that only its own goroutine writes it. `FrozenStaysClosed` is a property
  of pairs of states: it follows from `FailClosed` and from the step that a frozen
  session records no "allow".
* `ReplayIndex`, in `ApprovalsProofs`. What the audit says up to a row is given by
  `OpenAt` and `Turns`; lemmas `OpenStep` and `TurnsStep` say what one more row does
  to them, which is what the index does with it (`KnowsStep`), and `Prefix` that
  later rows change neither. `Followed` says up to which row the index knows the
  turns: the last one, while it is in order; its checkpoint or the cursor of the
  rebuild, while it is degraded; and one row more when only the checkpoint of a
  closed turn failed (`Ahead`), which is why a rebuild that meets this row again
  writes nothing. That a record is written once rests on names: a row that a power
  cut took had an era that no row gets again (`Named`), and before a row is observed
  its record is nowhere (`Unseen`). `FilesOK` says that no line but the last of a
  file is unfinished; lemmas `AppendedPlain` and `TruncatedOK` that an append which
  glues nothing and a repair keep that and every record. `Recoverable` is
  `DiskFaithful`'s part about the checkpoint. TLC refuted an earlier version of the
  model here, in which a restart after a `gap` counted as repaired: that is `lost`.
* `GatesProofs`. `One` and `AllLinked` (two entries of a gate are not both in
  force; what an entry rests on is what it says) are shown of `entries` and of
  `found`, since a restart may bring the latter back. `Deciding` and `Linking` say
  what the holder of the lock has established so far; `Reminded`, `Unblocked` and
  `Rested` connect stale approvals, their items and the decision under way. Lemma
  `ApprovalIsCommit` reduces the three action properties to the commit.
* `SessionCatalogProofs`. `Served`: memory, file and crash-safe file agree with
  what was promised. Lemma `WriteKeeps` shows it for any file that changes one
  session's entry, with each of the three outcomes of a write. The other three
  properties come from `IInv`: a file that a restart may find is one whose entries
  fit (`FilesOK`) for what has become of the backfill (`Past`; what fits goes on to
  fit as that grows, lemma `PastGrows`), slot, entry and conversation of a session agree up to the caller
  that is at work on it (`Agrees`), and what that caller can rely on at each of its
  stations (`Relies`). The cap is a fact about the occupied places (`Bounded`), of
  which the live entries of any file are a part.
* `CodexServerProofs`. `Locks` ties the program counters to the locks, `Building`
  and `Epochs` say what a caller inside may rely on. Most steps change one
  generation in a way that the invariant does not notice; lemma `QuietStep`
  covers these, and each step that takes, publishes, replaces or finalizes has a
  lemma of its own. `Logs` accounts for the frames of each generation, written,
  in the pipe and recorded, and says when one can miss the log, how far the recorder
  is at each station of a start and of the finalization, that a failed write ends in
  the meta file, and that whoever still writes to a log does so before it is final.
* `WireFramesProofs`. `QueueIsSeen` is inductive with the types. For `JobsSurvive`
  it takes that views are numbered in order (`Numbered`), that a job is crossed
  off only with a result (`CrossedOff`) and that queue, worker and journal
  remember the same views (`Remembered`). For `ResolvedIsComplete` it takes `Whole`:
  a closed generation keeps its log (`Ages`, `FrozenStays`), the segments a view
  counts are its own as long as its job is open and none was lost (`ViewsOK`:
  `AtStake`, `Stands`), whatever was read and kept is exact but for the generations
  in `early` (`Readings`), and
  the worker has, of every segment it is past, the frames or the failure (`Working`,
  and `Idle` without a job).

* `ProcSupervisor`, in `CodexServerProofs`. A signal that reached the child alive is
  on record, and what is on record was sent (`OnRecord`): the two are separate
  steps, and the kills of the cleanup, which nobody records, come when the child
  has been reaped. Past its cleanup the supervisor has seen the group empty or has
  given up on it, and a group that is empty forks no more (`Supervised`).
* `CodexTurnsProofs`. None of the properties says what came before: that a turn's
  end finds its session busy rests on what the caller waits for, on what is still
  under way from the server, and in which order. `Station` and `Threads` say which
  host, thread and route a session has at each step of its start, and whose a
  thread is; with them, the route of a frame is its owner's. `Responses` says who
  waits for a call that was not given up, once, so that a late answer is taken for
  no other. `FramesOK` ties a frame to a call the server has taken; `Ordered` says
  that no frame of a turn follows its end or its refusal, and `Begun` that none
  but the start precedes the start, so whoever knows a turn has its route by the
  time a frame of it is read. `Turns` puts this together: an accepted turn of a
  session still runs, or has its end on the way, or ended early and is remembered.
  A step that sends nothing is covered by lemmas on quiet steps (`Quiet`); each of
  the read loop's and the server's has its own. `Marked`, for the segments, is
  inductive without the rest: of two whose ranges are open at once both are marked,
  or they are crossed.

Only model-checked: liveness, which is out of the prover's reach. Every safety
invariant and every action property that a run checks is also proved, three of them
under the hypothesis above.

## 5. Not modelled, and what is left

* gate3 and its policy: nothing submits to it yet. Two evidence runs of one task
  that resolve one another's items (`app.go:6173`) would be the next step of
  `Gates`.
* Workspace confirmation (two confirmations of one workspace,
  `workspace_confirmation.go:152`), the single instance lock and the recorder: one
  flag, one file, one counter.
* The assist lane and `TerminateSession`, which has no caller yet; a composition of
  `CodexServer` with `CodexTurns`, in which a server dies under a turn.
* A failure reported between the last step of a rebuild and `finishRebuild`
  (`rebuild_orchestrator.go:106`), a request registered after shutdown's snapshot
  (`app.go:2908`), and the window between the check for live Codex hosts and the
  publication of a start (`app.go:8257`): steps of the models, but no property is
  aimed at them.
* Left out for good: specification, plan and domain-spec validators (pure
  functions of large documents), the inside of an evidence run (sequential, and
  its state is the file system), the forge client, the probes, the frontend and
  the CI scripts (no authority over the state modelled here).
