# EASY_CODE in TLA+

EASY_CODE is a coding agent for the terminal and the browser, written in TypeScript:
a main agent talks to a model provider, runs tools in a workspace, keeps a task
graph, starts child agents, and records everything in an append-only journal per
conversation ("thread") with a SQLite projection beside it. Several processes may
use one data directory.

These modules model the parts of it whose correctness depends on the order in which
things happen: what two agents, two processes, a user and a crash can do to each
other. `src/...` below is a path of the repository; most of the program is under
`src/src/`, and a path without it is relative to that directory.

Contents: 1 the system, 2 the modules, 3 the runs, 4 fairness, 5 the proofs, 6
disagreements found, 7 what is not modelled, 8 the plan.

To check a run, `tlc -config MCTasksAndTurns.cfg MCTasksAndTurns.tla`; to check a
proof, `tlapm TaskGraph_proofs.tla`. `PROJECT.json` lists the runs, the source lines
behind every definition, one mutated definition per property that makes it fail, the
hazards and the theorems.

## 1. The system

### How the parts interact

```
 browser pages ◄──► Web server ─┐
                                ▼
 user ── CLI ──────────► turn execution ──► agent loop ──► model provider
                          │   ▲              │   ▲   │         ▲
              adjustments │   │ seal         │   │   │   compaction, index,
                          ▼   │              │   │   │   memory, local decision
   other threads ──► steering queue          ▼   │   ▼
   (peer messages)                        tool calls ──► task DAG
                                            │  │           ▲
                                            │  └──► coordinator ──► child agents
                                            ▼           ▲  reports     │
                                   workspace mutation   └──────────────┤
                                          lock ◄───────────────────────┤
                                            ▼                          ▼
                                      command runtime           worktrees (git)

 every arrow that changes state also appends to the thread's journal (JSONL),
 projected to SQLite behind a lock shared by all processes
```

Everything inside a process runs on one event loop: the code between two `await`s is
atomic, and interleavings happen at `await`s only. Processes share files: journals,
the SQLite database, the lock directory, markers, sockets. That decides the
granularity of the models. An action is a synchronous stretch of code, or a single
durable step (a rename, a write, a commit) when other processes or a crash can see
the states in between.

### Components that are modelled

**Workspace mutation lock** (`src/src/subagents/workspace-mutation-lock.ts`). State:
`locked`, `currentOwner`, `serviceOwner`, `serviceLeases`, `waiters`. Operations:
`acquire`, cancellation by an AbortSignal, `release`, `releaseForBackground`,
`retainService` and its settlement, `dispatch`. Hard: the signal that fires after the
grant and before the granted caller resumes; services that keep the workspace
reserved for their agent while others queue. Correct when operations exclude one
another, no agent works beside another's service and no wake-up is lost.

**Task DAG** (`src/src/tasks/task-graph.ts`). State: the nodes (dependencies,
status, owner, blocker, artifacts) and the graph's status. Operations: create,
start, complete, block, resume, revise by a batch of edits, claim, completion and
release by children, a new turn. Hard: batches pass through inconsistent drafts; a
removal rewires its dependents; the final assertion repeats part of the guards.
Correct when history and delegated work are immutable, no graph is wedged, and no
legal operation is refused by the assertion.

**Task budget and request retries** (`src/src/runtime/task-budget.ts`,
`model-retry.ts`, `src/src/app/turn-execution.ts`). State: requests, tokens,
reservations of the turn, in memory and in the journal. Operations: reserve (debit,
write, roll back), settle, restore, a new prompt. Hard: a crash with requests in
flight; a debit whose write fails; a process that comes back with an old budget.
Correct when nothing sent is free and the limits hold.

**Database lock** (`src/src/storage/sqlite-database.ts`). State: the lock directory
and its owner file, tombstones of orphaned locks, SQLite's own lock left by a dead
process. Operations: install, observe, steal, recover, run a statement, release.
Hard: two contenders that see the same dead owner; a death inside the recovery from
a death; process ids in use again. Correct when one process works at a time and
whatever a dead owner leaves behind is removed before the next one works.

**Thread journal** (`src/src/threads/event-journal.ts`, `thread-store.ts`,
`thread-projection.ts`, `delete-thread.ts`). State: the lines of the file (synced or
not, torn or not), the rows projected from them, the row of the thread and its
lease. Operations: open and reconcile, append (write, sync, commit, repair), close,
delete. Hard: two stores written one after the other of which only one can be rolled
back; short writes; deletion in two halves. Correct when no acknowledged event is
lost or reordered and what remains after any failure can be read.

**Agent loop** (`src/src/runtime/agent.ts`, `turn-completion.ts`,
`completion-gate.ts`, `src/src/plans/plan.ts`, `src/src/app/turn-execution.ts`,
`src/src/threads/event-replay.ts`). State: the session in memory and the events it
is replayed from; the plan under review, the graph, the obligations. Operations: a
turn from the user's message to `turn.completed`, routing, batches of calls, the
gate and its corrections, the delivery challenge, plans from proposal to execution
and back to review, recovery of the open turn. Hard: memory and journal change at
different moments. Correct when what a process believes is what its successor
replays, and no approved plan is lost.

**Turn steering and peer messages** (`src/src/runtime/turn-steering-notifier.ts`,
`agent.ts`, `turn-routing.ts`, `turn-completion.ts`, `tool-calls.ts`,
`src/src/threads/thread-store.ts`, `src/src/coordination/store.ts`). State: the
queue in the journal, the notifier, the seal, the conversation in memory, the inbox
from other threads. Operations: submit, send, drain, apply, abort a request, seal,
finish, interrupt, recover. Hard: an adjustment may arrive at any point of a turn,
and the turn may be sealing its last answer. Correct when every accepted message
reaches the model exactly once, in order, between complete exchanges, or is refused
or discarded visibly.

**Child agents** (`src/src/subagents/coordinator.ts`,
`src/src/app/subagent-host.ts`, `thread-recovery.ts`, `thread-sessions.ts`). State:
the coordinator's jobs, the executions, the assignments, results and stops in the
journal, the task DAG. Operations: spawn, observe, stop, the lifecycle commit and
its rollback, finish, record, settle, pause, switch of threads, recovery. Hard:
every operation reserves in memory, writes the journal and then commits in memory; a
stop races the end of the child; jobs survive in memory while a thread is away.
Correct when graph, journal, jobs and executions agree, finished work is neither
redone nor lost, and every claim ends.

**Mailbox of child agents** (`src/src/subagents/messages.ts`, `coordinator.ts`,
`src/src/app/subagent-host.ts`). State: reports posted, read, in the conversation;
which children are collected. Operations: post, deliver before a request, observe
with and without a wait, collect at the end of an answer. Hard: two routes to one
report, and failures between the journal and the memory. Correct when the model
reads each report once, and before an answer stands.

**Execution environments** (`src/src/workspace/execution-environment.ts`,
`src/src/app/subagent-host.ts`). State: descriptor files, worktrees, Git refs,
artifact files, journals, the user's workspace and branches. Operations: provision,
restore, checkpoint, finalize, hand off, clean up, report. Hard: six places that no
transaction joins, and a crash between any two writes. Correct when the work and the
result of a child can always be had again, and "delivered" is true.

**Command runtime** (`src/src/command/runtime.ts`, `process-run.ts`,
`execution-journal.ts`, `src/src/sandbox/recovery.ts`). State: leases, the
quarantine marker and reason, lifecycle journals, handles, workers. Operations: the
environment check, approval, preparation, launch, the worker's protocol, deadlines,
cancellation, forced stops, cleanup, recovery, the turn's completion. Hard: the
program never sees the target, only reports of it, late, twice or not at all.
Correct when whatever may still run stops further commands, results tell the truth,
and no turn ends over an unseen result.

**Context compaction** (`src/src/context/compaction-transaction.ts`,
`src/src/runtime/context-maintenance.ts`). State: the transaction folded from the
journal, the facts a summary must agree with, the copy in memory. Operations: start,
ask, answer, validate, salvage, accept, commit, evict, reset, pause. Hard: facts
change while a request is under way; a crash after every event. Correct when the
journal takes what memory derives, no question is asked twice, and steps go on.

**Context index** (`src/src/context/artifact-index.ts`). State: rows, embeddings, a
generation counter, a cached index and the builds of it. Hard: searches in parallel
over embeddings still being made; a restart that takes unsaved messages away.
Correct when a search knows the conversation and nothing else.

**Image attachments** (`src/src/images/image-store.ts`,
`src/src/app/image-inputs.ts`). State: image files, markers, the collection's lock,
drafts in memory, journals. Hard: every process collects garbage, under a lock that
is taken from the dead by age. Correct when an attached image is there when its
message is sent.

**Long-term memory** (`src/src/memory/memory-manager.ts`, `maintenance.ts`). State:
the records, the queue of maintenance jobs. Operations: remember, revise, edit,
forget, expire; claim, search, ask, commit. Hard: everybody changes the records
while a model is asked about them; claims age. Correct when a deletion holds and no
consolidation loses a statement.

**Local decision** (`src/src/local-decision/client.ts`, `service.ts`). State: the
endpoint, a recovery lock, connections, requests, timers. Hard: a socket file that
survives its service; clients that come back before their end is noticed; stops while
the service starts. Correct when a service that nobody uses ends; one that is stopped
before it has its worker does not (section 6).

**Web conversations** (`src/src/web-server/server.ts`, `interaction.ts`,
`src/src/web/use-conversation.ts`). State: hosted conversations, what each presents,
the copies of pages. Hard: snapshots and patches come over different connections, in
any order. Correct when a page that has read everything shows what there is.

### Components that are not modelled

| component | why |
|---|---|
| checkpoints and replay (`threads/checkpoint-delta.ts`) | the fork of two histories is in `TurnSteering`, the replay in `AgentTurn`; the delta of the other fields is data |
| context projection (`context/manager.ts`) | text and estimates |
| command approval (`command/approval.ts`) | text in, one decision out |
| sandbox (`sandbox/*`) | native processes and their installation |
| observation (`coordination/observer.ts`) | directory snapshots, pure I/O |
| progress guard (`progress/guard.ts`) | a fold over results, with no actor to race with |
| independent review (`review/session.ts`) | a second agent on a copy: the agent loop again |
| providers (`providers/*`) | wire formats; the retries are in `TaskBudget` |
| MCP (`mcp/source.ts`) | external servers; what was seen in it is in section 6 |
| downloads, skills | files and HTTP |
| terminal interface (`cli/*`, `ui/*`) | presentation; what a user can do is in the modelled components |
| configuration, prompts, installation | static data |

## 2. The modules

Three kinds: a component's module, the abstract specification of what it promises
(shown implemented by a refinement mapping), and the proofs, which lie beside the
component or beside the suite that runs it (below).

| component | module | promises | proofs |
|---|---|---|---|
| workspace mutation lock | `WorkspaceMutationLock` | `WorkspaceExclusion` | `MCLockAndSteering_proofs` |
| steering and peer messages | `TurnSteering` | `SteeringInbox` | `MCLockAndSteering_proofs` |
| task DAG | `TaskGraphOperations` (pure operations), `TaskGraph` (one thread) | — | `TaskGraph_proofs` |
| agent loop | `AgentTurn` | — | `MCTasksAndTurns_proofs` |
| mailbox of children | `SubagentMailbox` | — | `MCTasksAndTurns_proofs` |
| context index | `ContextArtifactIndex` | — | `MCTasksAndTurns_proofs` |
| child agents | `SubagentCoordinator`, which works on `TaskGraphOperations` | `ChildAssignments` | `SubagentCoordinator_proofs` |
| database lock | `DatabaseLock` | — | `MCComponents_proofs` |
| thread journal | `ThreadJournal` | `EventLog` | `MCComponents_proofs` |
| compaction | `CompactionTransaction` | — | `MCComponents_proofs` |
| task budget and retries | `TaskBudget` | — | `MCServices_proofs` |
| image attachments | `ImageStore` | — | `MCServices_proofs` |
| long-term memory | `LongTermMemory` | — | `MCServices_proofs` |
| execution environments | `ExecutionEnvironment` | — | `ExecutionEnvironment_proofs` |
| command runtime | `CommandRuntime` | — | `MCSurroundings_proofs` |
| local decision | `LocalDecision` | — | `MCSurroundings_proofs` |
| Web conversations | `WebConversation` | — | `MCSurroundings_proofs` |

Components that share no state are checked side by side in one run: `MCComponents`,
`MCLockAndSteering`, `MCServices`, `MCSurroundings` and `MCTasksAndTurns` hold the
variables of several components, and `part`, chosen in the initial state, says which
one moves. Such a run explores the sum of the components' states and not their
product. `MCSubagentCoordinator`, `MCTurnSteering`, `MCThreadJournal`,
`MCCompaction` and `MCExecutionEnvironment` instantiate a component of their own.

Names are the source's wherever TLA+ allows. What each state and action stands for:

**WorkspaceMutationLock.** `locked`, `currentOwner`, `serviceOwner`,
`serviceLeases`, `waiters` are the fields of the class; `phase` and `kind` say where
each call of the lock is. The methods are synchronous, so `Acquire`, `AbortWaiting`,
`AbortGranted`, `Release`, `Background`, `StartService` and `SettleService` are one
action each, the trailing `dispatch` included. `Begin` is the continuation of a
granted promise: other events run between it and the grant.

**TaskGraphOperations, TaskGraph.** `nodes` maps the existing tasks to status,
owner, blocker, dependencies and artifacts; `status` is the graph's, `touched`
whether the current turn changed it. An operation of `task-graph.ts` is a guard
(`CanStart`...) and a result (`Started`...); a batch of edits is folded over a
draft, and `GraphValid` is the final assertion. `TaskGraph` offers every operation
to the main agent (`MainStep`), the Runtime (`ChildStep`) and new turns. Titles,
descriptions, summaries, sizes and timestamps are left out.

**TaskBudget.** `budget[p]` is `taskBudgets` of each process, `saved` the last
`runtime.task_budget` event. `Send` is `reserve` and the dispatch, its write
succeeding or not; `Answer` and `Fail` are the settlement and what
`completeWithApiRetries` does next; `Open` is `sharedTaskBudget`, `Prompt` a new
user turn. `dispatched`, `billed` and `overrun` are bookkeeping of the model: what
was really sent.

**DatabaseLock.** Every rename and write is an action, since other processes see it
and a crash may follow: `Install`, `Observe`, `Steal`, `Scan`, `Check`, `Mark`,
`Clear`, `Refuse`, `Use`, `EndUse`, `CheckOwner`, `Release`. Attempts draw fresh
tokens; an owner file records a process id only. A rename over an empty directory
replaces it (POSIX).

**ThreadJournal.** `lines`, `ended`, `synced` are the file, `row`, `indexed`,
`lease` the rows. An append is `AppendWrite`, `Sync`, `Commit`, with a failed or
short write and `Repair` in between; opening is `Open`, `Read`, `Reconcile`;
deletion is `StartDelete`, `Purge`, `RemoveDirectory` and `UndoDelete`. Transactions
exclude one another: that is what `DatabaseLock` shows. A commit is atomic and
durable.

**AgentTurn.** `memory` is the session, `durable` what a replay of the events gives:
`Fold` is the replay and refuses what it refuses. `pc` is where the loop is, `turn`
what the process believes of the open turn. A turn is submitted, routed
(`Route`, `AnswerDirectly`), runs batches of calls (`Response`, `Batch`,
`ProposePlan`), and ends through the gate (`RejectCompletion`, `Correct`,
`CollectReady`, `PassGate`, `ChallengeDelivery`, `Seal`, `Complete`), a failure or
the request limit. `Approve`, `SaveApproval`, `Reject`, `SwitchMode`,
`ExecuteApproved` and `ReturnToReview` are the life of a plan,
`RepairInterruptedTurn` the recovery. An append succeeds; it may be the last thing a
process does.

**TurnSteering.** `activeTurn`, `sealed`, `pending`, `assigned`, `watermark`,
`told`, `openCalls`, `abandoned` are what the journal folds to (`abandoned`: the calls
without a result are those of a turn that has ended); `inbox` and `admitted` are
SQLite; the rest is the memory of the process. `Step` is the
agent loop between two awaits, by its program counter `pc`: request, attempt, tools,
boundary, seal, finish. `Drain` is the synchronous admission and drain of a
boundary, `Submit` an adjustment, `Send` a message of another process. A child
agent's own loop, the images of prompts and tools, the pause of adjustments during
manual compaction and the per-turn limit on peer messages are left out.

**SubagentCoordinator.** `nodes`, `bound`, `stops`, `observed`, `result` are folded
from the journal; `jobs` is the coordinator, `work` the children's executions, `op`
the parent's tool call between preparation and commit. `Spawn`, `Observe`, `Stop`
prepare; `Persist` writes; `CommitLifecycle` or `RollbackLifecycle` ends the call. A
child goes through `Finish` or `Fail`, `RecordOutcome` or `RecordFailure`, and
`Settle`. `Pause`, `SwitchAway`, `RestorePausedCurrentThread`, `Crash`, `Resume`,
`CrashInResume`, `LeaveManual` are the thread's life.

**SubagentMailbox.** `posted` and `durable` are the journal, `memory` the
conversation, `child` and `parent` where each is. `Post` and `Settle` are the
child's; `Deliver` is the delivery before a request (`DeliverPart` one that fails
midway), `Observe`, `Wake`, `CommitResult`, `FailResult` a call, `Text`, `Collect`,
`Gate` the end of an answer. `missed` is bookkeeping of the model.

**ExecutionEnvironment.** `record`, `tree`, `ref`, `artifact`, `told`, `session`
are the durable places, `target` and `branch` what the user has, `step` and `mem`
where an execution or handoff is and its copy of the descriptor. A commit is a pair:
whether the changes the child must start from are in it, and how much of the child's
work. `Provision`, `Execute` and `Hand` group the steps of provisioning, execution
and handoff, one action per durable write. `StrayWrite` is a command that outlives
its child; `LoseTree` a worktree that somebody deletes. `written` and `given` are
bookkeeping.

**CommandRuntime.** `cmd[c]` is a command: its stage in the runtime, its lifecycle
events, deadlines, stops and report, and, beside what the program knows, the truth
about its target (`running`, `ran`). `leases` and `marker` are files, `reason` the
quarantine of each process. A command has an identity of its own; a turn may end
while a background one runs. POSIX; the supervisor of Windows, containers, the
network gate and one-shot grants are left out.

**CompactionTransaction.** The journal's fields are `foldCompactionControl` and its
neighbours; `stage` and `run` the process. One action per event, since the fold may
refuse each and the process may die after it. Whether a text fits or a summary is
worth its size is open.

**ContextArtifactIndex.** Rows, embeddings, generation and checkpoint are tables;
`cached`, `build`, `backfill`, `flow`, `query` the process. `Begin` checks the
history in, `Search`, `Look`, `Built`, `Answer` are a query; `SayUnwritten` is a
message pushed before an append that fails, `Restart` what takes it away.

**ImageStore.** `file`, `marker`, `owner` and `lock` are on disk with their age,
`draft` and `proc` the memory of each process. `Import`, `CreatePendingMarker`,
`Submit`, `Commit`, `Unmark` is an image's way into a message, `Discard` and
`RemoveMarker` the way out, `Create`, `Steal`, `Snapshot`, `Examine`, `Sweep`,
`Release` a collection. Time passes the grace period (`Age`) only while no operation
is under way.

**LongTermMemory.** `memories` and `job` are tables, `worker` the maintenance of a
process with the candidates and matches it has read. A batch of changes is `Applying`,
the records after each of them: `EndTurn` passes over what is refused, `Commit` takes
all or nothing. What a memory says is a word; a turn is known by its place among the
completed ones.

**LocalDecision.** `file` is the socket, `client`, `service`, `conn` and `request`
the two programs and what is between them. A client's timers may fire whenever they
are armed; a service's are in the state, since the property is about them.

**WebConversation.** `host` is what the server presents of each conversation, `page`
a page with what is on its way to it. An entry is the number of pieces its text has
been streamed in. `gen`, `passed` and `late` are bookkeeping of the model; a
conversation opened by something that is no page is opened by `None`.

## 3. The runs

Six runs pass; between them they fire every action and every disjunct. Six more show
a disagreement of the code with what it says (section 6). Deadlock is not asked for,
since these worlds do end: turns, crashes, tokens or events are bounded, a user may
stop, a thread rests when its children are collected.

**lock_and_steering.** The workspace lock under four calls (two of one agent, one of
another, one without an identity), each issued again for ever: two calls of one
agent for a queue inside an agent and an operation beside its own service, the third
for exclusion, the last for the rule that services need an identity.
`WaitingIsServed`; `ImplementsExclusion`. Steering with two adjustments and a peer
message, or one and two (`mix`), over three turns, with responses of up to two calls
and a crash: two of each are the least with an order within a kind and across kinds,
two calls the least with one skipped between tools, three turns the least with a turn
behind one that a failed checkpoint ended; one image per turn is enough for the limit
to bite. `NoDeafAttempt` (no request runs on over a waiting adjustment);
`ConversationKeepsUp`; `ProtocolClosed` (with the exception of section 6);
`DeliversInOrder` (refinement of `SteeringInbox`); `PeerMessageIsDelivered`.

**subagents.** Two children over no graph, two independent tasks, and a chain of
two; two faults among crashes, failed writes, cancelled calls and departures, in any
place: the least for a crash after a failed write or inside a recovery.
`NoOrphanExecution`; `NoLostChild`; `NeverRerun`; `ClaimsEnd`;
`ImplementsAssignments`. The limit on children has no effect at two.

**tasks_and_turns.** The graph: three tasks (the least with a chain that a removal
rewires), two children, every operation, every batch of one edit and every removal
followed by one. `FinalCheckNeverFires` (the assertion refuses nothing the guards
accept); `NeverWedged`; `HistoryIsKept`; `FoundationsHold`. The turn: three turns
(propose, execute, and a later one), two requests each, one correction, one crash
anywhere. `MemoryIsReplayed`; `PlanIsKept`. The mailbox: two children, four reports,
two per delivery, two faults. `ReportsAreRead`. The index: two queries at once, three
messages, three mishaps. `SearchIsCurrent`.

**components.** The database lock: three processes and attempts, three crashes, two
reused ids: the death of an owner, of the one that recovers it, and of the next, and
two contenders that saw the same dead one. `MutualExclusion`;
`OrphansAreRecoverable`; `WaitingEnds` (until an id is reused). The journal: two
processes, three events, three faults among failed and short writes, failed syncs
and commits, crashes and power losses: a torn line, its repair, and a fault in the
repair. `ImplementsLog`. Compaction: two exchanges of which one is retained, two
attempts, one change of facts, one crash. `JournalAcceptsEvents`;
`NeverAskedAgain`; `StepGoesOn`.

**services.** The budget: one process, the main agent and two children, three
requests of two sizes, five tokens, one retry of each sort, two openings, two
faults: all requests may be in flight when a crash comes. `NothingIsFree`;
`TurnWithinLimits`. Images: one image, two processes, one passage of time, one
fault: a collection beside an import, and a lock taken from the dead. `StagedIsKept`.
Memory: two processes, two words, three records, two turns, one change by the user,
one fault. `DeletionHolds`; `StatementsSurvive`.

**surroundings.** Environments: one child (children meet only in the limit on
worktrees; two are in `environment_base` and any number in the proof), two writes,
two things the user does, three mishaps: an accident, one in the recovery from it,
and one more. `WorkIsKept`; `DeliveredIsThere`; `ResultIsDurable`. Commands: two
commands and two processes, one fault, one turn each. `UnknownIsBlocked`;
`ReportIsTrue`; `CompletedTurnHasSeenAll`. Local decision: two clients, two
services, two requests, two connections, one fault: enough for a service that is
stopped before it has its worker, and for one whose socket another removes.
`UnusedServiceEnds`. The Web: one page, two conversations, two changes, two moves, two
replies on their way. `PageAgrees`.

**steering_checkpoint, subagent_collect, journal_deletion, compaction_steering,
environment_base, turn_recovery** — one property each, violated: see section 6.

Every bound is a constant that guards and types alone mention. A theorem
assumes of it that it is a natural number (positive for `MaxEvents`), and no more.
The suites are parameterised like the components: a configuration gives their sets,
limits and bounds, all of them, and a named `ASSUME` of each suite states what its
proofs take of them.

## 4. Fairness

Liveness is checked only where the code itself makes progress.

- Workspace lock: `Begin` and `Release` of each call. A granted promise resumes as a
  microtask and every command has a timeout. Services may live for ever, so
  `WaitingIsServed` allows a wait behind another agent's service.
- Steering: `Drain` or `Step`, one condition: the loop of a live process goes on, as
  requests and tools have timeouts. Nobody must start a turn or restart a process.
- Database lock: `Acquire`, `Prepare`, `Finish` of each process: one that runs
  continues its attempt. Nothing is assumed of its deadline: it may wait for ever
  unless the lock comes free.
- Compaction: `Work`, the steps of the process itself; requests have timeouts.
- Child agents: an execution ends (each has a budget and timeouts), results are
  recorded and settled, the parent carries a prepared call through and collects
  ended children before its turn ends (`collectReadySubagentResults`), and the user
  comes back to the thread and leaves manual mode. The last is about people:
  `ClaimsEnd` says that if they come back, no claim is stuck.

## 5. The proofs

57 theorems in eight modules are listed in `PROJECT.json`, for every value of the
constants. Each is stated of the specification that a run checks: of a component's
own `Spec`, or of `SideBySide` where a suite runs several components. In a suite the
lemmas about a component speak of its instance (`Journal!`, `Compaction!`,
`Attachments!`, `Memory!`, `Decisions!`, `Terminal!`, `Web!`, `Mailbox!`, `Turn!`, `Index!`,
`Steering!`), which
can be done since only one part moves: a lemma `...Run` or `...Runs` shows that
whatever the suite does is, of that component, a step of its own or a stutter, and
the theorem follows.

What is assumed of the constants is a named assumption of the module, which the runs
evaluate: finite sets of calls, tasks, images and requests, markers that are no names
(`None`, `Nobody`, `Gone`, `Dead`), at least one process, a positive limit of messages
per boundary (the configuration's schema starts at 1), batches of memory changes of the
form `write_memory` accepts, bounds that are natural numbers. Each component has one inductive invariant, a conjunction of named parts,
proved action by action, and the rest is derived. Every invariant was checked by TLC
on an instance before it was proved.

**MCLockAndSteering_proofs: the lock.** `LockInv`: types; at most one
holder, and `locked` says so; services exclude other agents' holders; the lease
count is the number of services, all of `serviceOwner`; the queue holds each waiting
call once; no eligible waiter under a free lock. Exclusion is not inductive alone: a
settlement wakes a waiter, and why nobody runs beside a service then depends on the
lease count. `dispatch` receives half-updated fields, so the lemmas about it speak
of any queue and phases. From it `MutualExclusion`, `ServiceExclusion`,
`NoWakeupIsLost`, `RetainAlwaysSucceeds` (a started service can always register its
lease), and `LockImplementsExclusion`: each step is one of `WorkspaceExclusion` or
stutters. Only the last is in a run as well.

**MCLockAndSteering_proofs: steering.** `SteeringInv`, for any messages, turns and
crashes: the queue is in the order of its sequences, all above the watermark
(`Queue`); no message is accepted twice (`Once`); the conversation in memory and the
batch in hand are different messages of the history, so that their images, counted
once a message, never exceed the history's (`Heard`); in a turn the notifier has been
told of every adjustment that waits, has consumed no more than the watermark, and an
attempt is open only if all it was told of is consumed (`Attempts`); a sealed turn is
answering or over (`Flow`); calls without a result are those of the batch that runs,
or of a turn that a crash or a failed checkpoint cuts short, or left over
(`Calling`). From it `NoAttemptIsDeaf`: an open attempt has notified ≤ consumed ≤
watermark, and an adjustment that waits lies above the watermark and has been
notified. `ConversationIsKept`; `ProtocolStaysClosed`; and `MessagesArriveInOrder`:
an admission is `Accept`, a drain `Deliver`, the start and end of a turn `Open` and
`End`, a seal with nothing to deliver `Close`, and everything else stutters. The
least element of a set of numbers (`MinOfSome`) comes from the well-foundedness of
inclusion among finite sets and not from induction.

The first form of `ProtocolClosed` said that no message ever joins the history behind
an open call. It held over two turns and one crash, and the proof failed at the end of
a turn: with a third turn TLC shows the history that section 6 describes. The model
now keeps `abandoned`, the property states the exception and that only a fork opens
it, and the suite runs three turns.

**TaskGraph_proofs.** The invariant `GraphInvariant`: the graph is valid, as the
final assertion has it, which includes that dependencies are well founded. The
lemmas show that each operation keeps it: new edges keep a minimal element in every
set, a batch is followed edit by edit over an invariant of the draft. From it
`FinalCheckIsRedundant`, `GraphNeverWedged` (a minimal unfinished task may start or
is blocked in the main agent's hands), `TouchDecidesExactly` (a batch is recorded
exactly if it changes the graph) for batches of any length, `HistoryImmutable`,
`FoundationsNeverMove`.

**MCTasksAndTurns_proofs: the mailbox.** `MailInv`: a conversation, in the journal
and in memory, has each report once and the result of a collected child behind its
reports (`LogInv`); memory has what was read but for a delivery that failed midway
(`HeardInv`); a collected child has nothing unread, and an answer stands when all are
collected (`CollectedInv`); what a call has found is still so when it is committed
(`AnswerInv`), although reports arrive and children end in between, which is why the
commit need not look again. From it `ReportsRead`.

**MCTasksAndTurns_proofs: turns.** `SessionInv`: memory is what the journal replays
to, wherever the process is, but for the mode that an approval has set and not yet
saved (`RememberedInv`); while a turn runs the journal has it (`TurnInv`); the plan
being executed is in the journal with the turn that executes it, and what a turn
proposes is its own (`PlanInv`). `MemoryReplayed` is a part of it; `PlanKept`, an
action property, needs the last: whatever ends an execution without its graph puts
the approved plan back under review.

**MCTasksAndTurns_proofs: searches.** `EvidenceInv`: an index made at the generation the
tables are at holds the embeddings of the rows there are, whether it lies in the cache,
is being built or is in a search's hands (`IndexesInv`), because every change of rows or
embeddings is made with one of the generation; what the checkpoint counts as indexed
has its rows, and memory and journal differ only by messages not written (`RowsInv`); so
for the accepted summary (`SummaryInv`); and a search under way began from a history
that is checked in (`SearchInv`). `SearchesAreCurrent`, an action property, is what
these give at the moment a search begins to score.

**SubagentCoordinator_proofs.** The four places that must agree are the journal, the
coordinator's jobs, the executions and the tool call between its preparation and its
commit; the invariant `CoordinatorInv` says how, pair by pair. `JournalInv`: the
holder of a task is bound to it, a collected child holds none, only a bound child
has a history. `OpInv`: what was true when a call was prepared is still true when it
is written and when it is committed; this is what reserving in memory first is for.
`ModeInv`: nothing is prepared while the thread is away. `WorkInv`: an execution
belongs to an active job, and what it settles with is in the journal unless it could
not be written. `JobInv`: a job is bound, or reserved by the call under way; a stop
in the journal is known to the job unless its call is not committed yet; a completed
job has a completed result. `Found`: a child the journal assigned and nobody
collected has a job that has ended, is worked on, waits to be restored, or is being
activated. `NoOrphanExecution` and `NoLostChild` follow from the parts, `NeverRerun`
from `JobInv` before a step: work starts only for a child without a recorded end.
`CoordinatorImplementsAssignments` maps the states to `ChildAssignments`: the
journal's steps are its steps, everything else stutters. The lemmas about
`TaskGraphOperations` say what a claim, a completion and a release change.

**MCComponents_proofs: the database lock.** `LockInvariant`: attempts are by live
processes with tokens of their own; files hold recorded owners; the lock directory
names whoever believes to hold it; a thief has seen a dead owner that is there still
or in its tombstone; SQLite's lock is in use or some dead owner answers for it. From
it `DatabaseExclusion` and `NoOrphanIsRefused`, for any crashes and reused ids.

**MCComponents_proofs: the journal.** `JournalInv`: `Orderly`, every line but the
last is whole and carries its place as its sequence; `Distinct`, identities differ;
`AckedInv`, what was acknowledged can be read among the synced lines; `AppendInv`,
what an append is about to promise is there; `RemovedInv`, nothing is left after a
deletion. It implies `JournalIsReadable`: whatever tears, fails or loses power, a
reader never finds damage before the last line. `JournalImplementsLog` maps the
lines that can be read to `EventLog`: a write is `Record` or a stutter (a torn one),
`Commit` and a repair that reconciles are `Promise`, a power loss is `Lose`, removal
of the directory is `Delete`. Neither the
lease nor the exclusion of transactions is a part of the invariant: what the journal
promises of acknowledged events does not depend on them.

**MCComponents_proofs: compaction.** `CompactionInv` ties what the process has in
hand to the transaction in the journal: an answer belongs to a transaction, a body to
a candidate, and a transaction that is gone leaves neither (`TransactionInv`); where
the process asks and commits, the transaction is the pending one, starts where the
conversation is compacted, has the facts the process has, and was asked for as often
as the process counts (`StageInv`). `EventsAccepted` is inductive only with these;
`AskedAtMostOnce`, an action property, follows from the
stage before a step.

**MCServices_proofs: the budget.** `BudgetInvariant`: the budget in memory and the
one in the journal each cover what was sent and respect the limits, and whoever has
a request has a budget to charge. `NoRequestIsFree` and `LimitsHold` assume
`OneProcess`; without it the second is false (section 6). That `reserved` is never
negative is a sum over the requests in flight and stays with TLC.

**MCServices_proofs: images.** `StagedIsKept` depends on markers alone, and not on the
lock that collections take (which may be stolen from the living, section 6). `ImageInv`:
a staged image has a file, a marker, and its marker is its process's (`DraftInv`); an
image being imported is new and nobody else's (`ImportInv`); one being removed has left
the draft (`RemoveInv`); markers are released only of images that a journal names
(`WorkInv`); and a collection past the markers spares every staged image: it saw the
marker, or the file was made after it looked and is new while it runs (`SweepInv`).
Time passes the grace period only while no operation is under way; that assumption of
the model carries the last case.

**MCServices_proofs: memory.** What one change does to the records comes first
(`MutationKeeps`): nothing deleted says anything again unless the words were stated, two
records do not come to say the same in a scope (`Once`), and only a change that has a
record expire takes it out of force. `BatchKeeps` follows that along batches of any
length. `MemoryInv`: the records are so, and a maintenance that has an answer holds a
plan in which every candidate that expires repeats a record that is revised just before
or that nothing before has touched (`PlanOK`, `Reasoned`). From it `WordsAreSaidOnce`,
`DeletionsHold`, and `StatementsAreKept`: if every record of a candidate's chain of
matches were lost, look at the one that expires last; what it repeats is in the chain
too, so it expires as well, but neither before (the plan had touched nothing of it, or
had just revised it) nor after. The first form of `StatementsSurvive` followed matches
two steps far, which is enough for the three records of the run and for no more; it now
follows them to the end.

**ExecutionEnvironment_proofs.** The children meet in the limit on worktrees only,
so the invariant speaks of one child, and a lemma says that each action leaves the
others as they were. A worktree holds all the work there is, and no less than the
recorded result (`TreeInv`); the ref protects the recorded result or a later commit
(`RefInv`); without a worktree the recorded result holds all the work (`GoneInv`);
nothing is written before the worktree is ready (`ProvisionInv`); from a checkpoint
to its outcome an execution writes one and the same commit (`ExecuteInv`); of a
completed result descriptor, ref, worktree, artifact and journal agree
(`ResultInv`); nothing is or will be called delivered that the user has not
(`HandInv`). From it `WorkIsNeverLost`, `DeliveredResultsAreThere` and
`ResultsAreDurable`, for any number of children, crashes and lost worktrees.
`RunsOnItsBase` is false (section 6).

**MCSurroundings_proofs: commands.** `CommandsInv` speaks of one command's record,
whether it has a lease and whether its process is quarantined, so that each step is
shown on a record first and on all commands then. What the journal and the process
know of the target is so (`TruthInv`); a result is shown only when there is one
(`HandleInv`); what may still run has a lease that no evidence removes and, once its
process gives it up, a quarantine or an error on the way to one (`LeaseInv`). From it
`UnknownStaysBlocked`, `ReportsAreTrue`, and `CompletedTurnsHaveSeenAll`, for any
commands, processes and crashes.

**MCSurroundings_proofs: local decision.** `DecisionInv`: what the clients, the
service and the connections hold was made for them (`ClientTyped`, `ServiceTyped`,
`HeldIsMade`), a ready connection leads to a service that is up (`ReadyIsUp`), and the
property itself. `UnusedServicesEnd`: every way a connection, a request or a worker
goes away, alone or with what it leaves on a connection, leaves the timer armed that
it should; the last case needs the finite set of what a closing connection leaves. The
theorem is about services that are `"up"`, those with a worker that no stop preceded;
the model has the others too (`"stopping"`, `"stray"`, `"halted"`; section 6).

**MCSurroundings_proofs: the Web.** `WebInv` relates each page to each conversation
(`Linked`). No place in a stream, no reply and no page is ahead of the conversation
(`Bounds`). While it is open, every change is on its way to the page or behind it, in
order, and those that follow what the page shows are on their way (`Cover`). And there
is a history of what the conversation showed at each number of its changes with which
every patch (from one number to the next), every snapshot and the page itself agree
(`Traced`): the history stands under an existential quantifier, so that no variable was
added for it, and each change of the conversation extends it by one. A page that has
nothing on its way and was not turned back by a late snapshot is at the newest number,
where the history is what the conversation shows: `PagesAgree`, for any pages,
conversations, changes and replies.

Type correctness (`TypeOK`, where a module states it) is proved with the invariant,
and not asked of TLC again; the budget's is the exception above.

Left to TLC, and why:

- liveness (`WaitingIsServed`, `WaitingEnds`, `ClaimsEnd`, `StepGoesOn`,
  `PeerMessageIsDelivered`): no installed prover handles fairness and ENABLED;
- the violated properties of section 6.

Induction over batches and plans, for which the library's theorems take an operator
that no installed prover can instantiate, is done with sets of numbers instead: the
least place at which something fails (`LeastOfSome`, `Upwards`), from the
well-foundedness of inclusion. No module declares a RECURSIVE operator.

## 6. Disagreements found

Each has a run whose property TLC violates, and an entry in `PROJECT.json` that
quotes what the code says.

1. `steering_checkpoint` — the images of an adjustment are counted on admission
   against what is queued and on application against what is applied too
   (`runtime/agent.ts:322`). The application throws after the drain is durable, and
   the conversation forks from the journal. A consequence that the proof of
   `ProtocolClosed` brought out: the next turn's first tool result fails it in `save`,
   `finish` ends it with the rest of its calls open, and since the journal then has no
   active turn, no recovery closes them: after a restart the next turn puts messages
   behind calls that never get a result (`app/thread-recovery.ts:41`).
2. `subagent_collect` — a stopped child that was not collected before the user left
   the thread and came back in the same process can never be collected
   (`app/subagent-host.ts:1049`).
3. `journal_deletion` — deletion gives the lease up with the thread's row before it
   removes the journal (`threads/delete-thread.ts:184`). A process that opens the
   thread in between puts the row back.
4. `compaction_steering` — an adjustment submitted after the drain before a model
   request and before the first event of maintenance makes the digests of facts in
   journal and memory differ (`context/compaction-transaction.ts:157`); the append
   is refused and the turn fails.
5. `environment_base` — a process that dies while it provisions a worktree leaves a
   half-made one, which `restore` takes and calls ready
   (`workspace/execution-environment.ts:338`): the child runs without the changes it
   was to start from.
6. `turn_recovery` — a process that dies after the final answer and before
   `turn.completed` leaves a turn whose recovery the journal refuses
   (`threads/thread-store.ts:1211` looks at the last event, `event-replay.ts:141` at
   the last message).

Seen while modelling, without a run of their own:

- *Budget.* A process that comes back to a thread continues with the budget it left
  in memory, after another process spent on the same turn
  (`app/turn-execution.ts:628`); the turn exceeds its limit. Hence `OneProcess`.
- *Child agents.* The comment at `app/subagent-host.ts:640` says that once
  finalization has started a verified report wins over a concurrent shutdown;
  `statusForOutcome` (`subagents/coordinator.ts:1258`) lets a stop that arrives then
  win, as its own comment says. Only spawning looks at the limit on concurrent
  children; a restore does not. Guidance queued for a child is lost when it pauses,
  ends or the process dies (`coordinator.ts:616`).
- *Database lock.* A dead owner whose process id is in use again looks alive:
  recovery waits, or refuses (`sqlite-database.ts:347`, `:470`), although the
  repository holds elsewhere that an id alone is reusable, and compares start times
  (`core/process-owner.ts:6`).
- *Journal.* An event that was indexed, and whose line a power loss took before it
  was synced, leaves a row whose sequence the next event wants: the unique index
  (`schema.ts:123`) refuses it and the thread cannot be opened
  (`thread-projection.ts:224`).
- *Environments.* A worktree whose removal was given up counts against the limit for
  good, and provisions that run at once each find room for the same one.
- *Commands.* A cancellation that cannot be confirmed quarantines the workspace
  where the types say it does not (`types.ts:24`, `native-worker.ts:75`).
- *Compaction.* A salvaged summary may be refused as a "Stale compaction commit".
- *Images.* A lock that looked abandoned is taken without a second look. A commit
  that finds the lock busy keeps its marker, and a later discard then deletes an
  image that a message refers to.
- *Memory.* A candidate that the user edits may expire in a consolidation under way
  ("The user's own wording is never rewritten by consolidation."); of two memories
  that repeat each other, two processes may expire both ("Two candidates repeating
  each other must not both expire."). A sweep of old records undoes a deletion made
  since it read them (`memory-manager.ts:977`, the exception in `DeletionHolds`). A
  worker whose claim was taken over overwrites a finished job; a revision does not
  look for a deleted record in the other scope; recovery of a job does not count its
  attempts.
- *Local decision.* A stale socket lets two services run (`client.ts:44`,
  `service.ts:73`): a contender whose probe falls between another's `unlink` and its
  `listen` takes the lock that is free again, finds a socket and removes a live one.
  The `chmod` of the service that loses its socket may fail, and its process then goes
  on without a worker or a timer (`"halted"`). A `stop` during that `chmod` (the timer
  of a probe or a client that came and went, as after the machine slept) finds no worker
  to kill; the function goes on, arms a timer and starts the worker without a look at
  `stopping` (`service.ts:245-249`), and from then on `stop`, `scheduleIdle`, `dispatch`
  and `workerFailure` return at once (`:203`, `:214`, `:220`, `:232`): the process keeps
  its model, with no socket, no client and no end (`"stray"`, which `UnusedServiceEnds`
  leaves out).
- *Web.* The numbers of patches start again when a conversation is closed and
  reopened; a patch older than the snapshot it continues is filtered and not sent
  again; a reply that arrives by way of another conversation may lose entries (the
  exceptions in `PageAgrees`). `mutateProjectFolders` looks once whether
  conversations are idle and then closes them with waits in between, while messages
  are accepted (`server.ts:283`).
- *Turns.* A crash between `plan.approved` and the checkpoint that saves the mode
  executes the plan in Plan mode. A crash in an execution that had created its graph,
  or after its final answer, returns the plan to review where `finish` would not. A
  turn at its request limit pauses on obligations that are no longer there
  (`agent.ts:929`). A failed append inside `finish` loses the plan until a restart.
  Two identical messages in a row are two in memory and one on replay, so that a
  later checkpoint throws.
- *Mailbox.* A delivery that fails midway leaves reports that are read in the
  journal and absent from the conversation until a restart (`missed`).
- *Context index.* A message pushed before its append fails (`agent.ts:616`) leaves
  rows of a message that a restart takes away (`dropped`; `artifact-index.ts:690`).
- *MCP* (not modelled). An attempt in flight when a disconnection returns still
  connects; two attempts that overlap leave a live session without an owner; the
  timer of an older wish keeps a newer one from being scheduled
  (`mcp/source.ts:544`–`760`).
- *Terminal* (not modelled). `clearScreen` and `resetForNewThread` leave `settled`
  as it was, so that after them streamed rows are printed with the first part of
  their text (`ink-interaction.ts:263`–`289`, `ink-store.ts:72`–`76`); a modal is
  dropped without an answer; a Thinking block whose preview is already its final
  text keeps its marker (`model-stream-renderer.ts:298`).

## 7. What is not modelled

The table in section 1 and the notes in `PROJECT.json` say it per component. The
reasons are three: pure I/O or a foreign system (sandbox, git, MCP, providers,
HTTP); text whose result only a model or a user judges (context projection, approval
of command lines, prompts, presentation); or a pure fold over data. Inside modelled
components: contents, sizes and wording of messages, tasks, results and memories;
ranking and scores; follow-up messages to children; the merge of their artifacts;
the memories a deletion restores; failed appends of the agent loop; Windows' rename
semantics and its supervisor of commands. Smaller paths are left out too:

- *budget*: `hold`; requests of the reviewer and of compaction, for which the main
  agent's stand;
- *database lock*: a rename that fails until its deadline, an owner that cannot be read;
- *environments*: a ref that cannot be written right after the baseline was committed;
- *child agents*: the guard of standalone agents, a report that fails validation, the
  rollback of a failed restore; a restored child is one that runs;
- *commands*: the limit on output and the failures of the sandbox's boundary;
- *compaction*: the early end over an incomplete exchange, recovery without a summary,
  the format of old threads;
- *context index*: the limit on rows (4096); *images*: an import beside the same
  process's turn or commit;
- *local decision*: the limit on queued requests and messages that do not parse; a
  probe's connection comes and goes in one step;
- *Web*: entries that are replaced in place, and the entries of a request that a page
  keeps until a snapshot has them.

Two idealizations go with the granularity. A SQLite commit is atomic and durable.
Time is order only: a timer may fire whenever it is armed, and an age is "new" or
"old".

## 8. The plan

The modules of the plan are written, and of the properties that the passing runs check
all are proved but the liveness ones, which stay with TLC. What is left is to model more:
the command approval, checkpoints beside their fork, the Windows supervisor of
commands, and what section 7 lists inside the modelled components.
