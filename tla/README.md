# A TLA+ verification project for vyane-rs

Vyane runs coding agents for a user: it queues runs of "workers", hands them to
hosts, cancels and recovers them, carries messages between agents and outside
channels, and keeps durable records of goals, tasks, sessions and workflows. Its
correctness rests on a handful of SQLite stores and log files whose operations are
called by processes that may crash, stall or come back late. This project models those
stores and the drivers, supervisors and commands that call them, checks them with TLC on
small instances, and proves the main invariants of seven of them with TLAPS for every
value of the constants.

Paths below are relative to `src/crates/`.

## 1. Inventory

### Durable stores

| Component | State | Operations | Hard behaviour | What makes it correct |
|---|---|---|---|---|
| AgentRun store (`vyane-agent`) | workers (a forest), their ordered run queues, runs with lease, fixed deadline, generation and revision, control operations, frozen cancel plans, prepared completions, event outbox | create root, spawn child, enqueue, claim, start, heartbeat, activity, bind resume session, prepare and commit completion, settle, cancel a tree, settle a cancel, claim recovery, confirm controller gone, commit recovered completion, resume, release | late holders, two cancellers and a reconciler on one run, a canceller that dies half-way, retries of a cancel request, a wall clock that is set back | one run in flight per worker; a run ends once; only the current ticket controls; a completion is committed exactly when its run succeeded; a cancelled run never succeeds; every claimed run ends |
| Message store (`vyane-message`) | messages with a publication gate, deliveries with lease, attempts and time to live, transport receipts, recorded results of receipt operations, sequence allocators, event outbox | enqueue, stage, publish, discard, claim, renew, mark delivered, record a transport receipt, acknowledge, nack, cancel, reply and acknowledge, expire, reclaim | receipts of earlier attempts, effects confirmed after the lease ran out, repeated calls, a time read before the write lock | bounded attempts; a confirmed effect is never repeated; hidden messages are not delivered; recorded results agree with the rows; every hand-out ends |
| Event outbox and projectors (`vyane-agent`, `vyane-broker`) | per-owner event sequence, projection cursors, deferrals and quarantine | unprojected_events, mark_projected, defer, quarantine, project into a message | crash between projecting and marking | every event is projected in order, at least once, with one message |
| Task store (`vyane-task`) | tasks with status, owner, lease, revision | create, attach, renew, request cancel, finish, interrupt | writers that lost their lease, cancellation racing the end | a row moves along its lifecycle and ends once |
| Goal store and pursuit (`vyane-goal`) | a goal with lease, criteria and verifications, a pursuit checkpoint, a continuity plan with approvals | acquire, verify, dispatch, checkpoint, complete; observe, approve, run, finish | two drivers under one worker id, a stale copy of the checkpoint, signals and late runs in any order | completion rests on current evidence; budgets hold across restarts; every run rests on the run and the approval before it |
| Kernel evidence store (`vyane-service/kernel_store.rs`) | receipts, delivery phases, approvals, effects | prepare, approve, deny, start, record effect, complete | two sessions of one receipt, a crash between effect and record | an effect at most once, never on a refused approval; decisions stand |
| Session store (`vyane-ledger/session.rs`) | session files with an execution lease and a revision | lease, load, migrate, save, update | dropped callers, failed syncs, a load that migrates | one transcript, turns reported saved survive |
| Event log (`vyane-ledger/event.rs`) | per stream a JSONL file and a lock file that holds the sequence allocator | append, read after a sequence, read from a byte cursor | writers that die in the middle of a write, power loss between syncs, cursors into a file that is repaired | numbers increase; acknowledged durable events stay readable; no page loses a record |
| Run log and costs (`vyane-ledger`) | append-only JSONL | append, read | a torn last line | a reader never sees half a record |

### Drivers and servers

| Component | State | Hard behaviour |
|---|---|---|
| Agent execution, recovery, supervision (`vyane-service/agent_*.rs`, `inprocess_agent.rs`) | the receipt or ticket being worked on, tasks in flight, tombstones of stopped controllers | heartbeat racing settlement, shutdown with work in flight, recovery of a controller that is still alive |
| Broker (`vyane-broker`) | one lane per adapter, the lease in hand | an adapter that succeeds after its lease, shutdown, retries |
| Dispatch kernel (`vyane-kernel`) | targets tried, events sent | failover after a partial stream, cancellation |
| Workflow engine and journal (`vyane-workflow`) | stages, journal | replay after a crash, cancellation of parallel stages |
| Native turn driver, permissions, approvals (`vyane-harness/native`, `vyane-service/approval_fsm.rs`, `native_authority.rs`) | turn, budget, approval in flight | an approval that arrives after its turn, budgets at their limit |
| Harness subprocesses (`vyane-harness/spawn.rs`) | process group, start gate, sentinel, reports | the TERM and KILL ladder, dropped futures, a dead parent, process numbers that are reused |
| Daemon and command line (`vyane-cli`) | workflow queue, agent spools, detached task records | restart with work queued, process identities that are reused |
| Protocols, router, quota, configuration, MCP, core types | none, or one request | pure transformations and I/O |

### Interaction

The **execution driver** claims runs, starts a controller on a backend, sends
heartbeats and settles. The **reconciler** (`agent_recovery.rs`) claims what expired,
asks the backend whether the controller is gone and only then confirms. A **canceller**
(command line, API, supervisor) freezes a plan for a subtree, takes control of its runs
and settles each with a ticket. All three only meet in the AgentRun store, and what they
hold, a receipt or a ticket, may be arbitrarily old when it is used. The **projector**
copies the store's events into messages; the **broker** claims deliveries, calls an
adapter and records what the transport confirmed. Every store operation is one write
transaction, so an action of a model is a whole transaction; interleaving happens between
transactions.

`PROJECT.json` lists every component with its status, and under `hazards` the lines where
this code can go wrong in a way that a test would hardly reach.

## 2. Plan

Done, in this order: **AgentStore**, **MessageStore**, **EventLog**, each with an abstract
contract; **EventProjector** (the outboxes of both stores); **AgentExecution** (driver,
in-process backend, recovery, canceller, completion publisher); **Broker** over
MessageStore; **TaskRow** with **TaskSupervisor** and **WorkflowSupervisor**;
**HarnessProcess**; **GoalPursuit** and **Continuity**; **Workflow**; **Sessions** (the
dispatch kernel over the session store); **ProcessDelivery** (the kernel evidence store and
its phases); **DetachedTask**.

Left: the native authority and the turn driver; the agent spools and process hosts of the
daemon; the retry schedule, SSE framing and candidate ordering as operators with reference
definitions. Of the safety properties of the passing runs only the refinement of
`EventStreamContract` is not proved (section 6).

## 3. Modules

| Module | What it is |
|---|---|
| `AgentStore`, `AgentStoreProofs`, `MCAgentStore` | the AgentRun store, its theorems, symmetry sets |
| `AgentRunContract` | what store and execution promise: one seat per worker, one end per run, the doomed never win |
| `AgentExecution`, `AgentExecutionProofs` | one daemon that drives, cancels, recovers and publishes in-process runs |
| `MessageStore` | the message store |
| `DeliveryContract` | what the message store promises: bounded hand-outs, effects that stand, ends that stay |
| `MCMessageStore`, `MCMessages` | instances of the message store; `MCMessages` puts two side by side |
| `EventProjector` | projectors that copy an outbox into an event stream |
| `Broker`, `MCBroker` | delivery loops and maintenance, composed with `MessageStore` |
| `MessageProofs` | theorems about message store and broker |
| `EventLog` | one stream of the event log |
| `MCEventLog` | the event log and the projectors side by side, the visible stream as a sequence |
| `EventLogProofs` | theorems about the stream and the projectors that write it |
| `EventStreamContract` | what a stream promises: it grows at its end, with increasing numbers |
| `TaskRow` | a row of the task table and what the store's operations make of it |
| `TaskSupervisor`, `WorkflowSupervisor` | REST tasks of the server, workflows of the daemon, both over `TaskRow` |
| `HarnessProcess` | one subprocess of a harness, its sentinel, its group, the operating system |
| `MCTasks`, `TaskProofs` | the two supervisors and the process, side by side, and theorems about each |
| `GoalPursuit`, `GoalPursuitProofs` | one goal, its daemon and its commands |
| `Continuity` | the continuity plan of one goal |
| `Workflow` | the workflow engine, its journal and its worktrees |
| `Sessions` | the dispatch kernel over one session |
| `ProcessDelivery` | one receipt of the process lane |
| `DetachedTask` | one detached dispatch of the command line, over `TaskRow` |
| `MCDurable` | continuity, workflow, sessions, delivery, detached task and event stream, side by side |
| `DurableProofs` | theorems about deliveries of the process lane and workflow runs, as parts of `MCDurable` |
| `DispatchProofs` | theorems about sessions, detached tasks and continuity plans, as parts of `MCDurable` |

`MCMessages`, `MCEventLog`, `MCTasks` and `MCDurable` check independent parts in one run: a behaviour
belongs to one part, chosen in the initial state, and leaves the others at rest. Parts of
`MCDurable` share the variables `x1` to `x11`.

Definitions whose comment begins with *Mutant* are not part of a specification: each is a
plausible bug, and `PROJECT.json` says which property must fail when it replaces the
definition that follows.

### AgentStore

The variables are the tables: `workers`, `runs`, `ops` (control operations), `plans`
(cancel plans), `completion`; `clock` is the wall clock and `latest` the time of the
owner's latest event, from which `operation_now` takes the time of an operation. One
action per public operation of `SqliteAgentStore`, with the operation's name. Guards are
the conditions under which the transaction commits; an error rolls back and is a
stuttering step.

Abstractions. Records are those of one owner. Tokens, digests and holder names only decide
whether the caller is the one the store gave a receipt, permit or ticket to: the caller of
an action is such a caller, and the fences of the code (state, lease, deadline, revision)
decide whether what it holds is still good. Time 0 is NULL. Failure codes are merged by
what the store makes of them (resumable or not). The id of a recovery operation, a fresh
UUID in the code, is the revision it fences. `claim_due` and `claim_recovery_due` take an
ordered prefix of what is due, up to a limit that is left open. What
`validate_stored_run` and `audit_*` refuse appears as the invariants, not as guards: the
invariants say that those branches are never reached.

### MessageStore

The variables are `pub` (messages and publications), `dlv` (deliveries), `attempts`
(first expiry of every lease), `transport` (transport receipts), `ops` (recorded results),
`lastEvent` (kind of a delivery's latest event, which `mark_transport_delivered` reads),
`allocator` and `clock`.

An operation of this store reads the clock *before* it waits for the write lock, so every
action takes a time from `Samples`, up to `MaxLag` ticks old. A caller presents a delivery
and a generation `g`, the receipt of that attempt, current or not; `authenticate_receipt`
accepts any attempt that was ever made, so `Receipts(d)` is all of them. The first call
under an operation key records its result, and a repetition stutters.

Abstractions. One owner and one conversation. `attempt_count` and `lease_generation` are
written by the same statement and are the one field `gen`. Every delivery has the same
`max_attempts`. A transport receipt has one external id. Request digests and tokens are
left out: a message is its request, so re-enqueueing it returns the old one and stutters.

### EventLog

`file` is the stream as a sequence of lines, `alloc` the content of the lock file if it
parses, `append` the writer that holds the exclusive lock. `append_blocking` is split
where it can be interrupted with a different effect: `BeginAppend`, `EnsureLineBoundary`,
`ReserveSequence`, `WriteLine`, `FinishAppend`; `Interrupt` ends it between two of them,
and `TearBoundary`, `TearAllocator` and `TearLine` in the middle of one. A reader holds
the shared lock for a page, so a page is one action, `ReadPage`; a `ByteReader` keeps the
`next_cursor` of `read_from`, the others only a sequence (`read_after`). Its page may end
wherever the code's limits can make it end.

For power loss, `synced` is the number of lines that must survive, `onDisk` the states the
lock file may be found in, and `name` says whether the directory entries are committed.
After the loss the file is any prefix beyond `synced`, its last line possibly cut.
`NameWithData` distinguishes file systems that commit the name of a new file with its data
from those where only `sync_directory` does.

Abstractions. A line is its number, its event and its form; every record has `Body` bytes,
and offsets are kept because cursors and the allocator are. The checksum of the allocator
makes a torn lock file unreadable, never wrong. Two writers never interleave, because of
the lock; that the lock works is taken from the operating system. Readers start over
after a power loss. The sequence of 64 bits does not overflow.

### EventProjector

`source` is the outbox, `hidden` and `marked` what is deferred and acknowledged, `stream`
the event log as its consumers see it after dropping repeated event ids; every instance has
a page, a floor and a place in its loop (`at`). One action per page read, append, mark,
deferral and restart. `ordered` distinguishes the agent stream, which keeps a floor below
which nothing may be missing, from the message stream. What an event says is left out.

### AgentExecution

Rows of the AgentRun store as their clients see them (`state`, `due`, `ticket`, `attached`,
`completion`), the execution future (`exec`), its blocking task (`task`), the controller
registry with its tombstones (`retired`), the two watchers that may hold a ticket (recovery
driver and canceller), the message sink and the publisher. A step is one transaction, one
section under the registry's lock or the end of a future. Time is abstract: a lease, a
deadline or a ticket may run out at any moment the code does not exclude. An observation
ends before its ticket (the local window opens before the claim and is shorter than the
lease) unless `ClockMayJump`. Several attempts of one run, backends outside the process and
the payload of a completion are left out.

### Broker

`loops` are the delivery loops of different processes (a daemon that drains and its
successor), each with the delivery in hand and the adapter's answer; rows and clock are
those of `MessageStore`, whose actions the loops take. An adapter works, refuses, hangs,
panics or answers too late; a process may be killed. Lane configuration and the protocols of
the adapters are left out.

### Task rows, supervisors and processes

`TaskRow` is a guard and a new row per store operation. A loop that reads the row, decides
and writes under the revision it read is one step: it commits what it decided on the latest
row or reads again. `claim_expired` has no caller and is left out. `TaskSupervisor` has the
initializer, the dispatch, clients, shutdown with every budget running out, crash and
recovery by the next server; `WorkflowSupervisor` adds the journal, the watcher that renews
the lease, and blocking calls that outlive an aborted future.

`HarnessProcess` is the life of one process group: authorisation, spawn, start gate,
announcement, waiting, time-out, termination, drains, reports. A timer may fire at any
moment; SIGTERM obliges nobody. Output capture and helpers that leave the group (setsid)
are not modelled. An ungated run may signal a number that was reused after reaping; a gated
one never does. A sentinel killed from outside leaves the target with `Stopped(false)`.

### GoalPursuit and Continuity

`GoalPursuit`: a driver acquires the goal, verifies criteria, dispatches a segment and
writes its counters to the checkpoint; it may crash, stall or lose its lease between any two
transactions, and two drivers may use one worker id. "The checkpoint revision I hold is the
stored one" is the flag `fresh`; a goal revision that changed in between is a possible
failure of the write. Several goals and their order are not modelled. A manual criterion
that was confirmed has no evidence, so "achieved" is refused for it and the daemon
quarantines the goal after `MaxErrors`; error counts restart with each claim generation; a
quarantine whose pause fails gives up until the next start.

`Continuity`: quota signals install a plan (takeover, review, checks, repair, resume) whose
steps run by approved dispatches; each operation is one transaction. Revisions only grow, so
"bound to the current revision" is a flag every mutation clears. The truncation of applied
events at `MAX_APPLIED_EVENTS` is not modelled.

### Workflow, Sessions, ProcessDelivery, DetachedTask

`Workflow`: the journal is a file each write replaces atomically; the engine works on a
copy. A failed write may or may not have replaced the file, and loses the engine. Steps are
named by their place in the topological order; an isolated step has one target. To run or
to resume a journal is two steps: the file is read (`ReadJournal`), whoever is at work on it,
and an engine starts from what was read (`RunPrepared`, `Resume`), which a resume first
resets and writes back. Nothing in between excludes or notices another engine. A start while
an engine is at work on the journal, or after the file was written since it was read, sets
`overlapped`, and the behaviour ends there: what two engines on one file then do is not
followed. `JournalsSound` and `WorkKept`, and the theorems about them, are about runs up to
such a start; that the start itself breaks them is finding 3.

`Sessions`: a dispatch takes the execution lease, loads, calls its chain of targets, records
the run and updates the session at the revision it loaded. Loads and mutations run in the
blocking pool and keep the lease when their caller is dropped. A turn records how many
earlier pairs were replayed. One session of one owner; `save`, `update` and the native
transitions are modelled although they have no production caller; provenance and sandbox
checks are the outcome `Refused`.

`ProcessDelivery`: sessions of the durable process path, operators who grant and deny,
crashes and recoveries. Only generation 1; preparing and committing a completion is one
step; requesting and settling a cancellation of the run, whose errors `cancel_path` ignores,
is one step that may stop anywhere; the in-memory ledger and the boundary's submission and
cancellation are left out. The
effect is recorded before the process is spawned, so it happens at most once.

`DetachedTask`: the submitting command, the worker it leaves behind, the harness groups it
starts one after another, the sidecar file that names the group at work, and commands that
cancel. Verifying an identity and signalling it is one step (the gap is that of the system
call itself); SIGKILL is immediate; the older `status.json` path is left out. A stale
sidecar whose number was reused makes a cancellation refuse.

## 4. Runs

Each run finishes within five minutes with two workers; deadlock checking is off where
bounded time, appends or faults let every behaviour come to rest.

| Run | Question | Instance |
|---|---|---|
| `agent_safety` | Do rows, fences, cancel plans and the contract hold against hosts, cancellers, the reconciler and a clock that is set back? | two workers, two runs, two cancel operations, time 2 |
| `agent_liveness` | Is the queue served in order across backends, and do claimed runs and cancelled trees end? | one worker, two runs, two backends, fairness below |
| `messages` | Do rows, receipts, publication, replies and recorded results stay right, and do hand-outs end? | one delivery with two attempts, lease 2, lag 1, time 5; beside it two messages that answer each other |
| `message_stale_ack` | Is a recorded result always of its own attempt? **No**, see 7 | two attempts |
| `event_log` | Do readers of both kinds miss nothing while writers die anywhere, and do projectors that fail, restart and overlap keep order and lose nothing? | three appends of two events, buffered and durable, two readers, two-byte records; beside it two projector instances, three events, pages of two, two faults |
| `agent_execution` | Do results follow runs through cancellation, recovery and a crash, and do runs end? | one run, one crash |
| `broker` | Is a delivery in one adapter call at a time, and does a row say what was done? | two loops, one delivery, two attempts, one kill, lag 1, time 12 |
| `task_supervisors` | Do rows, locks, cancellations, drains and process groups end as promised? | three servers, two daemons, two faults, one spawn retry |
| `goal_pursuit` | Do completion, budgets and termination survive two drivers under one name? | daemon and one command, two worker ids, one criterion, two segments, one fault, two operator commands |
| `session_migration` | Is a model always called with the session's transcript? **No**, see 7 | two dispatches, one control client |
| `durable_files` | Do six durable records survive their processes? | two quota events (alike, a symmetry set) and four approvals, two of them open at a time; three-step workflows, two executions; two dispatches and an outage; three durable appends and two power losses; two delivery sessions; two harness legs and two cancellers |
| `workflow_overlap` | Does a recorded success stay, whoever resumes a journal and when? **No**, see 7 | the workflows of `durable_files` |

**Bounds.** `MaxTime` bounds clocks; `WithinHorizon` keeps an action from starting a period
that ends after it. `MaxRevision` bounds renewals that only raise a revision, `MaxLag` the
age of a time read before a lock, `MaxCrashes`, `MaxKills`, `MaxFaults`, `MaxOutages` and
`MaxLosses` the failures. The instances are large enough for the interesting cases: a lease
expires while its deadline is ahead and both expire together; a ticket expires and is
superseded; a second attempt is claimed while the first receipt is still in somebody's
hands; a crash falls between any two steps and a recovery follows it. Two cancel operations,
loops, drivers or sessions are the smallest number that compete. Each property has a mutant,
a small change of a modelled definition that makes the same run fail, which shows that the
instance reaches the case the property is about.

**Fairness.** Only of what the code schedules by itself. `AgentStore`: the clock, the
reconciler's poll and its confirmation. Hosts, cancellers and clients may die after any
step. `MessageStore`: the clock and `Maintenance`. `EventLog`: a writer in its critical
section goes on, fails or dies (no wait inside it), readers poll. `AgentExecution`: time,
the blocking pool and the loops are weakly fair; observation, settlement in time and the
sink are strongly fair, that is, they may fail any number of times but not for ever.
`EventProjector`: the loop and the reappearance of deferred events weakly, append and mark
strongly. `Broker`: the clock, maintenance and the steps of a loop. Supervisors: their loops
weakly, delivery of a signal strongly, shutdown, start and recovery weakly, and a worker
that was signalled returns. `HarnessProcess`: the future, the sentinel, and the end of a
process that was sent SIGKILL. `GoalPursuit`: acquisition, quarantine, expiry of leases and
the steps of a driver.

## 5. Properties

| Property | Says |
|---|---|
| `AuditPasses` | rows are what `validate_stored_run` accepts; a run is cancelling exactly while one operation controls it at its revision; a completion is committed exactly when its run succeeded |
| `TreeAuditPasses` | drained workers are idle, the forest has no cycle, frozen cancel plans stay in force |
| `WorkerHistory` | one run in flight per worker, numbers and generations without gap, runs in queue order, resumes in chains |
| `CancelledNeverSucceeds`, `ReplayedCancelIsInert` | once a cancel operation controlled a run it does not succeed, even when recovery inherits it; a repeated request changes nothing |
| `RunsEnd` | claimed runs and cancelled trees end |
| `ImplementsContract` | refinement of `AgentRunContract` (agent store, agent execution), `DeliveryContract` (messages), `EventStreamContract` (event log) |
| `DeliveriesSound` | rows are what `validate_stored_delivery` accepts; nothing waits that every claim passes over |
| `RepliesSound` | hidden messages have no life, a confirmed effect stands, public numbers are dense, recorded results agree with the rows |
| `HistoriesStand`, `DeliveriesEnd` | lifecycle, final ends and inert old receipts; hand-outs and expiring deliveries end |
| `ReadersMissNothing`, `StreamSound`, `StreamSurvives`, `AcknowledgedIsDelivered` | pages lose nothing; numbers increase and acknowledged records stay, also across power losses; acknowledged events reach readers |
| `ResultsFollowRuns`, `RunsEndPublished` | nothing acts for a settled run, sink and outbox follow the run, a lost lease keeps a staged result, tombstones are released; runs end and results are published |
| `ProjectionSound`, `EventsAreProjected` | the stream is in order without a gap and nothing is marked before it is in it; every event arrives |
| `SettlementsSound`, `BrokerEnds` | a delivery is in one adapter call at a time and its row says what was done; deliveries and drains end |
| `TasksSupervised`, `WorkflowsSupervised`, `ProcessesContained`, `SupervisionEnds` | rows move legally, a released lock leaves no writer behind, what runs is wanted; groups are announced, contained and reported truly; all of it ends |
| `CompletedIsVerified`, `BudgetsHold`, `PursuitEnds` | completion rests on evidence; no segment is uncounted and the limits hold; pursuit ends |
| `ResumeIsReviewed`, `RunsAreChained`, `DispatchAsApproved` | a plan is followed step by step, each run on the run before it and on a valid approval |
| `JournalsSound`, `WorkKept` | while no start overtakes an engine or a write: journals tell the truth and no recorded success is run again; no worktree with work in it is lost |
| `SuccessesStand` | a recorded success stays, without that condition (violated) |
| `SessionsSound` | calls under the lease form one transcript, a saved turn survives, a plan executes once |
| `DeliverySound`, `DecisionsStand` | an effect at most once and only as permitted, a completed receipt is; decisions stay |
| `DetachedSound` | work in progress is on record, a reported cancellation stopped it, no signal goes astray |

## 6. Proofs

Every theorem is of the form `Spec => []Inv`, `Spec => [][A]_vars` or `Spec => Contract`,
for every value of the constants that the named assumptions of its module allow. In each
proof module an inductive invariant comes first, then a lemma per action, then the theorems.

**AgentStoreProofs** (from `TimingAssumption`, `IdentityAssumption`): `AuditAlwaysPasses`
(`AuditPasses`), `OneRunInFlight`, `ControlIsFenced`, `CompletionIsFenced`,
`CancellationWins` (`CancelledNeverSucceeds`), `TerminalRunsAreFinal`. They follow from
`Invariance`, whose `Inv` adds to the properties: the types, with bounded counters so that
`MAX + 1` exists for infinite sets of runs; `QueueUnique`, because a claim takes the head of
each queue and one run in flight rests on that head being unique; `ClaimedHaveRevision` and
`RecoveryIds`, because the id of a recovery operation is the revision it fences and must not
repeat; `OnlyControlledHaveOps`. Every action is one of eight kinds of step (insertion,
advance, claim, prepare, end by the holder, end by a ticket, taking control, quiet) and each
kind keeps each conjunct.

On top of `Inv` stand three further results. `TreeAuditAlwaysPasses` (`TreeAuditPasses`) and
`ReplayedCancelsAreInert` (`ReplayedCancelIsInert`) follow from `TreeInv`, which adds that an
absent worker hangs nowhere: a spawn then attaches a leaf, so no cycle can close and the
subtree of a frozen plan cannot grow. `Subtree` is the least set closed under children, so
that it keeps under a spawn outside it is shown without induction on the depth of the tree.
`HistoriesAreKept` (`WorkerHistory`) follows from `HistoryInv`, which adds that absent rows
have no place in a queue and that the rows in use are finitely many, so that
`MAX(sequence) + 1` and the cardinality of a worker's history agree.
`StoreImplementsContract` (`ImplementsContract`) is the refinement of `AgentRunContract`; its
"doomed" runs are those a cancel operation ever controlled, and it rests on `Inv` and
`TreeInv`.

**EventLogProofs** (from `LogAssumption`, `NullAssumption`; all appends durable, as those of
vyane's own callers are): `NumbersIncrease`, `AcknowledgedStays` and both together as
`StreamStaysSound` (`StreamSound`), `PagesLoseNothing` (`ReadersMissNothing`), with power
losses among the steps. `LogInvariant` holds the shape of lines (`LinesInv`), the order of
the records a repair would make visible (`OrderInv`), that every state the lock file may have
covers the records up to the length it names (`AllocatorInv`, which needs durable appends: a
buffered one could leave an old reservation of the same length beside a newer record), what
the writer has established at each step (`AppendInv`), that acknowledged records are synced
(`AckedInv`) and that a byte cursor separates numbers (`CursorInv`). `AcknowledgedStays`
needs `NameWithData`.

Of the projectors (from `ProjectorAssumption`): `ProjectionStaysSound`
(`ProjectionSound`). The invariant, `ProjectorInv`, adds that no floor is above the stream, that an instance
about to append has passed every event before its own, and that, where no floor is kept, a
page leaves out only events already in the stream.

**DurableProofs** is about two parts of `MCDurable`.

Of a delivery of the process lane (from `DeliveryAssumption`): `DeliveriesAreSound`
(`DeliverySound`) and `DecisionsAreFinal` (`DecisionsStand`), for any processes that open,
claim, cancel or recover it. An operation is a fixed sequence of transactions; `DeliveryInv`
says which transaction may follow which (`Ordered`, `Follows`), what must be in the tables
before each (`Established`), that only the process that made the effect new goes on to start
its child, and only once (`OneSpawns`), and that no row takes back what an earlier
transaction rested on (`RowsSound`). A process that died leaves its rows; the next begins at
its first transaction, so that what is established must be in the rows and never in a memory
alone.

Of workflow runs (from `WorkflowAssumption`, which is `PlansOK`: every step needs only steps
before it in the topological order, and there is at least one permit): `JournalsStaySound`
(`JournalsSound`) and `WorkIsKept` (`WorkKept`), for any plans and any number of runs, steps,
permits, executions and replays, with one hypothesis: no start has overtaken an engine at
work on its journal or a write to it (`overlapped`). A caller may read a journal at any time
and use what it read much later; such a start finds what it read still in the file and no
engine on it, so it begins from a sound file. `JournalsInv` says four things of a run. The file by itself:
successes rest on successes, no attempt number is used twice by a step, and every tree in use
is in it (`FileSound`). The engine's copy is ahead of the file by the entry of one new tree and
by what a cancellation marked, so that losing the engine loses neither a success nor a tree
in use (`CopySound`). The engine's sets agree with the statuses (`ScheduleSound`). And why a
step was skipped: until the run aborts, no unscheduled step needs one that failed or was
skipped (`FailuresSound`). The last is what `skip_dependents` is for. It is modelled as the
least set closed under dependents, so that no induction on its queue is needed; that the
first unscheduled step can then be started is why an engine with nothing running and nothing
to start has nothing left (`NothingLeft`). `Vec::retain` is a recursive function; what it
keeps is shown of the least prefix that would be an exception (`RetainedIs`), with the
library's `WFMin` in place of an induction.

**DispatchProofs**, of sessions (from `SessionAssumption`): `SessionsStaySound` (`SessionsSound`), for any
dispatches, callers, chains and power losses. `SessionInv` says who holds the lease at each
step (`LeaseSound`), that a dispatch under the lease holds what the session is or the empty
session beside a migrated one of revision 0 (`LoadSound`), and of every transcript that is on
disk, may come back after a power loss, or is in a caller's snapshot, that it is linear and
without a turn of a client that has yet to write (`TurnsSound`): a caller may save an old
snapshot, so that these transcripts matter as much as the current one. A migration finds
nobody between load and update, because a load without an envelope leaves no flat file
behind it; a mutation is the lease holder's, also when its caller was dropped. `PlanSound`
counts the calls and records of a plan, also of one lent to a stream. The exception in
`LeaseHolds` and `TranscriptLinear`, a load that was overtaken, is finding 2.

Of a detached task (from `DetachedAssumption`: chains no longer than the numbers of groups):
`DetachedStaysSound` (`DetachedSound`), for any commands that cancel it and any length of
its chain. `DetachedInv` adds to the property: there is a row before there is a worker, and a
submitter that settles a failed spawn has none (`SpawnSound`); a worker works for the row
exactly while it is attached (`AttachSound`); of the harness groups only the one the worker
attends to can be alive under it, those before it are reaped, and a gate is opened under a
sidecar that names its group (`HarnessSound`); and what every command knows where it is, so
that "ok" can be reached only with the worker dead or never attached and nothing named by
the sidecar at work (`CommandSound`). A command's knowledge is stable under what the others
do because states only move on: a dead worker stays dead and an ended row stays ended
(`Forward`).

Of continuity plans (from `ContinuityAssumption`): `ResumeStaysReviewed`, `RunsStayChained`,
`DispatchesAreApproved`. The invariant says of every step what the steps
before it and the recorded signals must be (`Sound`; it is kept by each pass of
`release_ready_dependents`, so by its fixpoint), that an approval still current was queued
for this plan, and that every approval rests on an earlier successful run.

**TaskProofs** (from `SupervisorAssumption` and `DaemonAssumption`: servers are numbered and
no number stands for nobody) is about the three parts of `MCTasks`. The lemmas on `TaskRow`
say what each operation of the store makes of a well-formed row; the actions add who may be
at work.

* `TasksStaySupervised` (`TasksSupervised`). `SupervisorInv` says that an initializer works
  alone and hands its row to one dispatch (`HandOver`), and that while a server serves, the
  row in the hands of its initializer or dispatch is running under this server; a settlement
  nobody awaits finds a row that ended once the next server is up (`InHand`).
* `WorkflowsStaySupervised` (`WorkflowsSupervised`). `WorkflowInv` says what an initializer has
  published for the watcher that follows it (`Published`), in which order a shutdown empties
  the supervisor (`Drained`), and of each call an aborted future left behind that it names a
  revision no newer than the row's and, if the row has not moved, still fits it (`LateSound`):
  that is why a late commit is a legal step or none.
* `ProcessesStayContained` (`ProcessesContained`). `ProcessInv` says at which places of the
  future the drop guard is armed, namely exactly where the leader can still be reaped
  (`GuardSound`), that the sentinel dies only of a signal and whoever signals it signals the
  group (`SentinelSound`), who can be left where the future is past its signals (`LeftSound`)
  and what the reporter was told at each place (`ReportsSound`).

**MessageProofs**, of the store (from `ShapeAssumption`, `BoundAssumption`): `DeliveriesStaySound`
(`DeliveriesSound`), `StoreAuditPasses` (the parts of `RepliesSound`),
`HistoriesAlwaysStand` (`HistoriesStand`) and the refinement `StoreImplementsContract`. A row
takes part in a transaction in one of a few ways, its *fate*; every action gives every row a
fate, and every fate keeps the row. The invariant also needs that a recorded result which
refused an attempt shows in the row, that an ordinary message is public, and that an external
id names one delivery.

Of the broker (from the assumptions of the store, `WindowAssumption`, `ReplyAssumption`):
`SettlementsStaySound` (`SettlementsSound`) and `BrokerUsesStore`, that the broker takes only
steps of `MessageStore`, so that the theorems above hold behind it. The invariant adds what a
loop knows of the row behind its item. While an adapter works, the row is leased for this very
attempt: the window of `process_one` left the lease beyond the adapter's limit and margin, and
time does not pass the margin of a timer that is due. A claim makes a new attempt, so an
attempt is in one loop's hands; whoever else holds the delivery holds an older receipt. What
follows a work, a refusal or a lost lease is then decided by whether the receipt is current.

**GoalPursuitProofs** (from `PursuitAssumption`): `CompletionsAreVerified`
(`CompletedIsVerified`), `BudgetsAlwaysHold` (`BudgetsHold`). A driver decides on a copy what
it then writes; the invariant says what the copy promises at each point of the loop (a fresh
copy holds the stored counters) and counts the segments reserved but not yet dispatched,
because `dispatched + Pending <= started` is what a crash between the two preserves.

**AgentExecutionProofs** (from `ExecutionAssumption`): `ResultsAlwaysFollow`, for any clock,
everything `ResultsFollowRuns` says but the release of tombstones; `ResultsStayConsistent`
(`ResultsFollowRuns`) where the store's clock does not overtake a watcher's local window;
`ExecutionImplementsContract`, the refinement of `AgentRunContract`. Runs share no state, so
the invariant is one of a single run. Its core is *quiet*: once a watcher has seen the
controller gone, or the row names none, nothing of the run can act again, because only a
running row lets an execution act. Tombstones need more: a watcher that observes holds a
live ticket, which is exactly what a jumping clock breaks; then a tombstone may outlive its
run. The refinement needs that a watcher acts for the reason its ticket names, so that a
cancelled run is settled as cancelled.

What the proofs taught about the model: several `CASE` expressions had overlapping guards
and relied on TLC trying them in order (they are `IF` chains now); a pursuit needs the value
for "no worker" to be no worker's id; the contract of the execution needs the value for "no
worker" to be no run; the length of a detached task's chain had to become part of the state,
where two instances of the module stood for two lengths, to be proved about at all.

**Model-checked only.** The liveness properties (`RunsEnd`, `DeliveriesEnd`,
`AcknowledgedIsDelivered`, `RunsEndPublished`, `EventsAreProjected`, `BrokerEnds`,
`SupervisionEnds`, `PursuitEnds`), because fairness and `ENABLED` are beyond the prover. The
refinement of `EventStreamContract` rests on `StreamNow`, which sorts a set into a sequence,
and to compare two of its values takes induction over data. `StreamSurvives` is `StreamSound`
for one more instance of `EventLog`, and `RepliesSound` repeats what `StoreAuditPasses` proves
for another of `MessageStore`: both are theorems for every value of the constants, and the
runs check the instances.

## 7. Findings

1. **A late acknowledgement records a result the store calls corrupt.**
   `receipt_transition` (`vyane-message/src/sqlite.rs:1213`) answers an acknowledgement of
   a delivery that is acknowledged and has a transport receipt before it compares the
   receipt's generation with the row's. With the receipt of an earlier attempt it stores a
   result of the later attempt under the earlier generation. `stored_delivery_operation`
   and `audit_receipt_operation` treat this as corrupt data, so the repeated call fails,
   and so does the next opening of the database. Run `message_stale_ack`.
2. **A load that races a migration finds no session.** `load_envelope_blocking`
   (`vyane-ledger/src/session.rs:1223`) reads the envelope, then the flat file, and does not
   look at the envelope again when another load migrated the session in between. A dispatch
   then calls the model without the transcript, although `vyane-kernel/src/dispatch.rs:730`
   says that a migration error "fails before model execution rather than silently discarding
   continuity". Run `session_migration`.
3. **Two resumes of one journal lose recorded work.** `resume` and `resume_plan` read the
   journal (`vyane-workflow/src/engine.rs:328`, `343`), and `resume_plan_from_journal` resets
   what did not succeed in what was read and replaces the file (`456`), without a lock and
   without comparing it; nor does `resume_workflow` of the command line
   (`vyane-cli/src/command.rs:3283`) look for an engine at work. In the counterexample a
   caller reads a journal whose step is pending, the engine at work records the step as
   successful, and the resume writes it back as pending, to be run a second time.
   `docs/plan/WP-07.md:30` says that "steps with status=success are skipped reusing recorded
   outputs", and `docs/adr/0002-workflow-frontends-and-resume.md:32` that resume "reruns only
   admissible non-successful work". Run `workflow_overlap`.

Observations made while modelling, not stated as runs:

* A claim that read the clock before a late publication can select a delivery whose expiry
  has passed and fails as a whole with `CorruptData` (`vyane-message/src/sqlite.rs:1288`); it
  succeeds when repeated.
* `append_blocking` syncs the directory only in the call that created a file
  (`vyane-ledger/src/event.rs:555`); if that call is interrupted no later durable append does.
* A completion abandoned by a canceller that gave up may still be staged afterwards, and
  stays staged.
* `finish_success` returns an existing completed receipt without advancing the phase, and
  cancelling and failing never move it, although the comment near
  `vyane-service/src/dogfood.rs:1303` says both end together.
* An approval in flight for one quota event may mark the takeover step of the next event's
  plan done (`vyane-goal/src/store.rs`, near 275).
* After the second drain budget the workflow watcher is aborted and its worker may outlive
  the released lock (comment at `vyane-cli/src/daemon_workflow.rs:1522`).
* The bound of 256 topology nodes is checked when a tree is cancelled or listed, not when it
  grows (`vyane-agent/src/sqlite.rs:4130`).

## 8. Not modelled

The definitions map about one line in seven of the repository's Rust code. The rest is
largely printing, HTTP rendering and argument parsing of the command line, the MCP adapter,
wire protocols, configuration, the native turn driver and its tools, tests beside the code
and generated schemas, where there is little state to model. Also left out of the modelled
components: schema migration, file permissions and the audits at opening (their conditions
are the invariants); token generation and digests; pages and listings, which change nothing;
numeric limits of text and payload sizes. `PROJECT.json` lists every component with its
status and the reason.
