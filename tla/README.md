# Formal models of the AgentVerse backend

TLA+ specifications, TLC configurations and TLAPS proofs for the parts of
`agent-verse-backend/app` that carry the system's own concurrency: who runs a
goal and who may stop it, how a goal works through sub-goals, how a human
decides what an agent may do, how events leave the database, how a workflow run
is carried through approvals, timers and operators, and the circuit breaker that
all replicas share; each with what happens when workers, brokers or stores fail. Paths below are relative to `agent-verse-backend/app` unless they
start with `src/`.

## 1. The system and its parts

AgentVerse accepts goals over HTTP, stores each as a row in Postgres, hands it
to a Celery worker through Redis, and lets an LLM-driven graph call tools until
the goal is complete, failed, cancelled or waiting for a human or for sub-goals.

| Part | State it keeps | Operations | What makes it correct |
|---|---|---|---|
| Goal status table (`services/goal_lifecycle.py`) | `goals.status` | conditional status writes | a terminal status is final whoever writes |
| Goal worker (`scaling/tasks.py: run_goal`) | Redis `goal_lock`, Celery request | stop check, lock, claim, run, record, retry, release | one run at a time; every goal ends; the slot is freed with the goal's end |
| Goal watchdog (`scaling/goal_watchdog.py`) | `heartbeat_at`, `runner_token`, `watchdog_requeues` | heartbeat thread, reaper, `detect_stuck_goals` | only lost runners are reaped, by one reaper; nothing is stuck |
| Goal control (`services/goal_service.py`, `reliability/goal_lifecycle.py`, `governance/emergency_stop.py`, `api/governance.py`) | Redis cancel, pause and stop flags; `execution_context` | cancel, pause, resume, relaunch, reject, stop, lift | requests take effect, and never undo one another |
| Tool execution (`agent/nodes/executor_mixin.py`) | `goal_events`, the action ledger | gate, call, event, record | no side effect is repeated; no step starts after a cancel |
| Broker (`scaling/celery_app.py`) | messages, acks | acks_late redelivery, visibility timeout, beat | at-least-once delivery is harmless |
| Fan-out (`services/fanout_continuation.py`, `agent/fanout_ledger.py`, `agent/supervisor.py`) | `goal_fanout_ledger`, parent and sub-goal rows | decompose, dispatch, park, wake, fold in, synthesize, sweep, cancel | a sub-goal is submitted once; a parked parent is woken; no answer before its time |
| Approvals (`governance/hitl.py`, `hitl_expiry.py`) | `approval_requests`, `approval_votes`, a Redis list, cached request objects | file, wait, vote, approve, reject, expire | a decision is final, known to its waiter, and nothing runs without it |
| Coordination outbox (`coordination/outbox.py`, `outbox_dispatcher.py`, `streams.py`) | `coordination_outbox`, dead letters, a Redis stream | append, claim, publish, mark, retry, dead-letter | no event is lost; claims exclude; outcomes are final |
| Workflow engine (`workflow/`) | run, step and approval rows, `run_metadata`, a Redis lease | dispatch, lease, step, approve, wait, wake, pause, resume, cancel, sweep | one executor; nothing passes an approval; no step is repeated; a run ends or waits for somebody who can act |
| Shared circuit breaker (`reliability/redis_circuit_breaker.py`) | four Redis keys with TTLs | check, probe claim, success, failure | the circuit opens, and never stays shut for ever |
| Tenant slots (`tenancy/limits.py`) | a Redis lease set | take, renew, release | the plan's limit holds; leases of lost goals end |
| Other coordination (`coordination/`) | leases, claims, handoffs | acquire, renew, fence, hand over | one holder; a stale holder cannot write |
| Triggers (`triggers/`) | dedup keys, dispatch rows | receive, dedup, dispatch | one goal per event |
| Everything else: graph and prompts, MCP connectors, ingestion and RAG, memory, providers, API, auth, frontend, SDKs | mostly data | mostly I/O | – |

The parts meet in shared state. Worker, API, reaper, sweeper and beat tasks all
write the goals row, each with SQL of its own; worker and API talk through Redis
flags; worker and reaper share the lock key and the runner token; an approval's
decision reaches its agent through a cached object, a Redis list or the row. There
is no coordinator: correctness rests on conditional UPDATEs, `SET NX`, row locks,
compare-and-delete scripts and the order of the writes. That is where tests reach
least, and what these models are about. The hazards, each at its line, are listed
in `PROJECT.json`.

## 2. Modules

| Module | What it is |
|---|---|
| `GoalStatus` | statuses, transition table, the conditional write (pure operators) |
| `GoalLifecycle` | abstract specification: what the goal table promises its readers |
| `GoalRunner` | one goal: its row, Redis keys, deliveries, runs, heartbeats, watchdogs, operators; refines `GoalLifecycle` |
| `FanoutContinuation` | one fan-out parent: its row, the ledger, its sub-goals, the runs on it, wakes, sweeper, cancels; refines `GoalLifecycle` |
| `ApprovalDecision` | abstract specification: the one decision that an approval request is to everybody around it |
| `ApprovalGate` | one approval request: row, votes, Redis list, the agent's object, approvers' calls, the beat; refines `ApprovalDecision` |
| `CoordinationOutbox` | the outbox table, dead letters and stream of one tenant and session, overlapping dispatchers |
| `WorkflowRun` | one workflow run: its rows, lease, tasks, approvals, timers, operators and sweeps |
| `RedisCircuitBreaker` | one shared breaker, one action per Redis command |
| `GoalRunnerProofs`, `FanoutProofs`, `ApprovalProofs`, `OutboxProofs`, `WorkflowProofs`, `RedisCircuitBreakerProofs` | TLAPS proofs about each |
| `MC...` | each for TLC (symmetry sets where a run uses them) |

`GoalStatus` is shared by everything that writes `goals.status`, and the two
modules of the goal row are tied together by the abstract `GoalLifecycle`, which
both refine. In every module an action is one statement that somebody else can
observe (a transaction, a Redis command, a publication) with the local steps
up to the next one; a crash may fall between any two.

### GoalRunner

Goals share none of the modelled state, so one goal is modelled. A *run* is one
delivery of the goal's `run_goal` message; run `r` has lock token `r`, because
every delivery draws a fresh UUID.

* `status`, `hb`, `runner`, `requeues`, `context` are columns of the row. `hb` is
  NULL, fresh or older than the stale limit; `context` keeps only the suspended
  flag of `execution_context`.
* `events` keeps the two facts that are read back: a side effect happened
  (reaper), the goal ended (`detect_stuck_goals`).
* `lock` is the owner of `goal_lock:{goal}`; `keys` are the goal's other Redis
  keys: the cancel, pause and stop flags, its slot lease, its ledger entry.
* `pc[r]` is where run `r` is in `run_goal`; `beat[r]` is its heartbeat thread;
  `wedged` are runs whose event loop hangs; `called` are the runs that made their call.
* `rpc`, `rtoken`, `reff`, `rdone` are the locals of each reaper; `op` is the
  request each operator is in the middle of; `confirmed` is a history of the
  cancels: one found the goal unfinished, ended it and was reported as done.

`AcquireLock` to `ReleaseRun` are the exits and branches of `run_goal` in the
order of the code, `BeatRow` the heartbeat's UPDATE, `ReapClaim` to `ReapSlot` the
reaper's transactions, `CancelGoal` to `PersistBatch` the two or three steps of
each operator request (read, flag, write). Inside the graph a run is between waves of
steps (`running`), held by a pause at the gate (`paused`), or in a step (`stepping` and
the four points of a tool call). `StepGate` is the gate, awaited once before each wave;
`PauseEnds` is its wait, which looks at the cancel and pause flags only; `LedgerCheck`,
`ToolCall`, `ToolEvent` and `ToolRecord` are the call, with no gate between them; and
`Cancelled` may fall anywhere in the graph, because the signal poll runs beside it.
The deliberate abstractions:

* a run makes at most one side-effecting tool call (several, of one step or of a
  parallel wave, would repeat the ledger check, call, event and record inside the step,
  none of them looking at a flag), and passes any number of gates;
* the gate's reads are one action: a flag that is set between two of them is one that is
  set just after the gate;
* the terminal status and the event that follows it are one action, except where
  the order is observable (suspending, the early cancel, the reaper's failure
  and both tasks that store no event);
* the lock does not expire under a live run: its TTL is the plan's goal timeout
  plus five minutes, renewed meanwhile, and that timeout ends the run;
* the cancel flag does not expire either: it stays for two hours (`_FLAG_TTL`,
  `reliability/goal_lifecycle.py:38`), and a run whose event loop hangs for that long
  without passing a gate is outside the model.

Not in the model: goals run inside the API process, rollback, metering,
rejection of pending approvals by an emergency stop. Parking for sub-goals is the
subject of the next module; here `waiting_children` is a status that the claim
refuses.

### FanoutContinuation

One parent on several workers, in the deployed mode (a ledger, continuation).
Lock, claim and watchdogs are `GoalRunner`'s subject; here a delivery takes lock and
row in one step, a lost run comes back as a message, and a sub-goal is a row with
a runner that ends it.

* `ledger` is `goal_fanout_ledger`; `entries[w]` and `todo[w]` are the rows as the
  run on worker `w` knows them and the planned ones it is about to dispatch. A run
  decides on its own copy, which is where the interesting orders come from.
* `Tasks` are `(worker, position)`: the run that decomposes draws fresh random
  task keys, so two decompositions never share one.
* `cstatus`, `cpc` are the sub-goals' rows and runners; `MaxCopies` lets the model
  submit a task twice, so that "once" is something it could violate.
* `enqueues` are wakes between their UPDATE and their publication, `overdue`
  sub-goals between the sweeper's two steps, `op` and `cascade` a cancel in
  progress.

`LoadLedger` to `Advance` are `SupervisorAgent.run` and `_advance` call by call
(`FindChild`, `SubmitChild`, `MarkDispatched`, and `DispatchFails` are
`_dispatch_entry`), `ParkParent` and `WakeSelf` the two transactions of
`_park_fanout_parent`, `WakeParent` the conditional UPDATE that everybody who
wakes uses, `SweepOverdue`, `SweepCancel` and `SweepWakes` the three parts of
`sweep_fanout`. `Stalls` says whether a run may be taken for lost although it goes on.

### ApprovalGate

One request in a gateway with a database. `row` arbitrates; `obj`, `event` and
`cached` are the request object in the agent's process ("home"); `list` is
`hitl_result:{id}`. A call served at home works on the agent's own object
(`shared`), a call elsewhere on a copy of the row. The agent either blocks
(`WaitForApproval`: event, BLPOP, or polling after a Redis error, then its own
expiry) or its supervised graph ends and the goal is parked (`Route`, `Suspend`,
`Resume`). `Call` to `Publish` are the awaits of `approve_async_outcome` and
`reject`; `ExpireRow` and `ReleaseWaiters` are the beat's transaction and push,
`ExpirePhantom` the sweep at a replica's start. Every database call may fail after
it took effect. `ApprovalDecision` keeps of all this the decision, the voters, what
each approver was told and what the agent made of it. Not in the model: the gateway without a database (and the
synchronous `approve` that only it uses), eviction of pinned or undecided
objects from the cache, notifications, triggers.

### CoordinationOutbox

`state`, `attempts`, `ripe` are a row's columns, `ripe` standing for both clocks the
claim compares (`available_at` has come, `claimed_at` is older than the TTL).
`claim_owner` is not a variable because no statement reads it. A dispatcher
claims any set of due rows, takes them one by one through `Publish` (XLEN),
`Add` (XADD) and one of the outcomes, each a transaction by row id alone.
`outlived` and `copies` are history variables: rows whose claim ended under a
dispatcher that was still at work, and how often each event was added to the stream. Appending an event stands for the four places that insert one
in the transaction of the state change (`coordination/store.py`,
`transcript/repository.py`, `cancellation.py`, `handoffs/repository.py`).

### WorkflowRun

One run, its definition a chain of steps, each a call, an approval (`GateSteps`) or
a durable wait (`WaitSteps`, on an event channel if in `EventSteps`).

* `status`, `slaPause`, `wake`, `timer`, `waiting`, `delivered` are columns of
  `workflow_runs` and entries of its `run_metadata`; `done` and `skipped` are what
  `get_step_result` will find for a step; `appr` are the open rows of
  `workflow_approvals` (an approval that was decided stays until the decision's task
  is dispatched).
* `lease` is `wfrun_lease:{run}`; `pc`, `at`, `out`, `dec` describe the
  `execute_workflow_run` tasks: where each is, at which step, what it will write,
  which decision its payload carries.
* `op` is the operator request between its read and its write, `woken` the timer beat
  between its claim and its dispatch.
* `effect`, `granted`, `defaulted`, `evicted`, `lost` and `faults` are histories, for the
  properties.

`Acquire` to `LeaseLost` are `execute_workflow_run` and `run_lease.py`; `Start` to
`Finalize` are `execute_fresh` and `execute_resume_fresh`; `Replay` to `RecordFails`
are `node_fn` of the compiler and the approval and wait nodes; `Decide` to
`ResumeNotSent` are reviewers and the SLA sweep (`claim_timeout`, all four timeout
actions); then come the requests of operators, timers and events, and the sweep for
stuck runs. The abstractions:

* a chain instead of a graph: branches, joins and loops are compiled to LangGraph,
  which is not under `src/`; reject branches and gated tool steps go with them;
* an approval that fails is skipped, pauses the run or fails it, by its `on_failure`;
  a skipped one holds everything behind it, which is what the approval barrier does with
  it, and so does a default without an approving `action`. `DefaultGates` are the
  approvals whose default approves: they may also be released by it (`DefaultApproves`);
* a node's two reads and its start row are one action: a request that lands between
  them is a request that lands just after;
* time is not counted: a deadline, a TTL or an SLA may pass at any moment;
* operator requests, faults and lost leases share one budget (`MaxTrouble` with a cost
  for each), which bounds their combinations and not each by itself.

Not in the model: waits of up to 30 s, which block inside the worker; test runs, which
have no rows; callbacks; `retry_run`, which makes a new run; definitions and their
publication; schedules and webhooks, which start runs.

### RedisCircuitBreaker

Callers on any replica run `can_call_async`, the guarded call and the report.
Every Redis command is an action. Keys are values, plus the set `ttl` of keys that
will expire; `opened_at` is `cooling` or `elapsed`. TTLs of `state` and `failures`
are twice the cooldown, so they outlive a cooldown unless a recording stalls or is
cut (`TTLsMayEnd`). When Redis fails, the process-local breaker answers; it may
answer either way (`CheckFails`). `CutAt` names the commands of
`record_failure_async` before which a caller may be lost.

## 3. What is checked

| Run | Bounds | Distinct states | Shows |
|---|---|---|---|
| `watchdog` | 2 deliveries, 2 reapers, 1 fault, 1 retry, 1 requeue, 1 operator request, stops may be lifted | 714,000 | `TypeOK`, `LockOrDisowned`, `SlotWhileUnfinished`, `OneReaperPerRunner`, `UnfinishedGoalSettles`, refinement of `GoalLifecycle` |
| `cancel` | 2 deliveries, 1 operator, 3 requests, 1 fault, no retry or requeue (a failure goes to the dead letters, a lost run is failed), lost status writes | 2,012,000 | `NoStepAfterCancel`, `LockOrDisowned`, refinement of `GoalLifecycle` |
| `breaker` | 3 callers, threshold 2, 1 fault | 178,000 | `KeysExpire`, `CircuitRecovers` |
| `fanout` | 2 workers, 2 sub-tasks, max_parallel 1, 2 faults, up to 2 submissions of a task | 1,274,000 | `TypeOK`, `OneChildPerTask`, `NoEarlySynthesis`, `ParallelBound`, refinement of `GoalLifecycle` |
| `fanout_live` | 1 worker, 2 sub-tasks, 1 fault, cancels and stalls | 488,000 | `ParkedParentResumes` |
| `approvals` | 2 approvers, 2 votes required, 3 calls, 1 fault | 1,534,000 | `TypeOK`, `GrantedIsApproved`, `AnswersAreTrue`, `AbandonedIsDenied`, `QuorumResolves`, `DecisionReachesAgent`, refinement of `ApprovalDecision` |
| `outbox` | 2 rows, 2 dispatchers, 2 attempts, stream of 2, 3 faults | 197,000 | `TypeOK`, `NothingLost`, `PublishedOnce`, `ClaimExcludes`, `StreamBound`, `SettledIsFinal`, `EventSettles` |
| `workflow` | a call, an approval, an event wait; 2 tasks, 2 approvals, all timeout actions; an approving default; 2 requests, or a fault, or a lost lease | 751,000 | `TypeOK`, `OneExecutor`, `GateHolds`, `EffectsOnce`, `WaitsForSomebody`, `EndIsFinal`, `RunProgresses`, `OrphanApprovalExpires` |

* `LockOrDisowned`: until its first heartbeat a run holds the lock, and a run
  that works without it (it hung, was reaped, and woke up) neither owns the row nor
  can take it back. With a second delivery's claim this is mutual exclusion over
  lock *and* row.
* `OneReaperPerRunner`: overlapping reapers never handle the same lost run.
* `SlotWhileUnfinished`: no retry, requeue, pause or refused relaunch frees the
  slot of a goal that has not ended.
* `UnfinishedGoalSettles`: a goal without a recorded end leaves
  `planning`/`executing`, whatever dies, hangs or arrives twice.
* `ImplementsLifecycle`: every one of the dozen UPDATEs of `status` is a step of
  `GoalLifecycle`; in `FanoutContinuation` the same for parks and wakes.
* `NoStepAfterCancel`: once a cancel, or an emergency stop, has been confirmed to the
  operator, no run passes a step gate, so that calls are made at most by a run inside
  the step it was in, until the poll ends it. It excepts a run that a pause holds at its
  gate when the stop could not set the cancel flag. It is a statement about one operator
  and stops that stay in force; with two operators, or with lifting, it does not hold
  (below).
* `KeysExpire`: also when several callers open the circuit at once and each plain
  SET drops the TTL another has set, some caller is still going to set it.
* `CircuitRecovers`: an open or half-open circuit closes or lets somebody call.
* `OneChildPerTask`: whatever crashes, is delivered twice or fails to be written,
  a task's sub-goal is submitted once (as long as no run is taken for lost while it goes
  on: with such stalls there may be two plans, below); `NoEarlySynthesis`: answers are put together
  only when every sub-goal is over or given up, and only completed ones count;
  `ParallelBound`: `max_parallel` holds although a re-entered run counts what the
  ledger says, not what runs.
* `ParkedParentResumes`: a parked parent is woken, whichever of the wakes (last
  sub-goal, the parking run itself, cancel, sweeper) is lost.
* `GrantedIsApproved`: the gated action runs only if the row is approved by as many
  distinct people as required, whichever channel told the agent; `AnswersAreTrue`:
  no two operators are told contradicting decisions; `AbandonedIsDenied`: nobody
  can approve what the agent has given up (while nothing fails);
  `QuorumResolves`: concurrent last votes do not leave the request pending;
  `DecisionReachesAgent`: a decision or expiry reaches a waiting agent before its own
  deadline (while nothing fails). `ImplementsDecision` says in one formula what the
  rest of the system may rely on: with all its copies the request is decided once, an
  approval after its votes, everybody who is told a decision is told that one, and
  the agent acts once, after an approval, or not at all.
* `NothingLost`: a row leaves the queue only with its event in the stream or among
  the dead letters; `PublishedOnce`: its event is in the stream once, and once more for
  each failure, death or outlived claim at the most; `ClaimExcludes`: only a row whose claim was outlived is in
  two hands; `SettledIsFinal`: no late write reopens a settled row, with the same
  exception; `StreamBound`: XLEN and XADD let the stream exceed its limit by less
  than one entry for each dispatcher; `EventSettles`: every event is published or
  dead-lettered, unless a claim was outlived.
* `OneExecutor`: redelivered, woken, resumed, swept and decided tasks of a run never
  execute it together, unless Redis lost a lease under its holder; `GateHolds`: also
  then, nothing behind an approval runs before somebody approved it, or it failed and
  its author's default, which approves, took its place; `EffectsOnce`: a
  step's call succeeds once, and once more for each fault at the most;
  `WaitsForSomebody`: a run in `waiting_hitl` has an open approval or a task that brings
  its decision; `EndIsFinal`: a run that ended keeps its end, and its approvals can no
  longer be decided; `RunProgresses`: a run that waits for no person ends or comes to
  wait for one; `OrphanApprovalExpires`: an approval that a worker opens in a run just
  cancelled does not stay in the inbox.

**Bounds.** Exclusion needs two runs and a reaper that releases one of them; two
reapers are the smallest overlap. Fan-out's two faults cover a crash
together with a failed call, and the outbox's three a dispatcher that outlives its claim
and is outlived in turn while a command of it fails; for the goal the same instance without an operator was
also checked with two faults (449,000 states), which covers a hang together with a lost
call, and `cancel` with one requeue (3,609,000 states). Operator requests have at most three steps; `LockOrDisowned`,
`SlotWhileUnfinished` and the refinement are proved for any number of operators, so no
run repeats them with two. The
breaker's third caller is one more than opening (2) needs: a late report or a
probe. Two sub-tasks with `max_parallel` 1 give a finished, a running and
a planned one in turn; two workers give the re-entry that meets a duplicate. Two
approvers and three calls give a quorum, a contradicting reject and a repeated
vote. Two dispatchers over two rows give overlapping claims, and a stream of two
entries is full after two events, or after one that was added twice. A workflow of three steps has one of each kind,
with the approval between the other two; two tasks are a holder and a rival, and two
approvals what a repeated approval step leaves behind. All safety properties are also proved without any bound. Deadlock is checked for
the breaker only: elsewhere a finished goal, request or row has nothing left to do.

**Fairness.** `GoalRunner`: a run that is not hung goes on, its heartbeat thread
beats, a dead worker's message is handed out again (`task_acks_late`,
`task_reject_on_worker_lost`), beat schedules both watchdogs
(`scaling/celery_app.py:286-297`), TTLs end, the dead-letter task runs; the plan's
goal timeout ends every run that is neither hung nor paused. Nothing says
that a hung worker recovers, that a pause ends or that an operator asks for anything.
`FanoutContinuation`: runs and sub-goals go on (each sub-goal is a goal, for which
the above is checked), messages are taken, beat runs the sweeper and the watchdogs;
nobody has to cancel and no deadline has to pass. `ApprovalGate`: calls in progress
and the beat's push go on, and the agent takes what reaches it; its own deadline may be
as far away as one likes. `CoordinationOutbox`: a dispatcher at work goes on, time
passes, and the beat's next tick (every 5 s, `scaling/celery_app.py:339-346`) takes a
row that stays due. `WorkflowRun`: tasks are taken up and go on, a request or a decision
that was begun is finished, time passes, and the beats that wake timers, expire
approvals and look for stuck runs keep running; nobody has to decide, to emit an event
or to request anything. Breaker: a caller inside its call goes on and keys expire; nobody
has to call.

### Disagreements between code and documents

Each is a run that TLC must find violated; `PROJECT.json` quotes the line.

| Run | What the code does |
|---|---|
| `requeue_repeats` | a worker that dies between a tool call and its event is requeued, and the call is made again |
| `resume_queued` | a goal paused before its message was picked up loses the message; resuming it reports `executing` with no runner |
| `breaker_wedged` | a caller lost between `SET state open` and `SET opened_at` leaves a circuit that refuses everybody for ever |
| `approval_parked` | a request that expires between the router's check and the suspension leaves its goal parked on it |

More behaviours of this kind are in the models and are recorded here, not as runs: most
contradict nothing that the repository says, the others are named with what they
contradict, and the properties above except them openly:

* the old heartbeat survives suspension, and a relaunched goal still in the queue is
  reaped as lost; a pause between claim and start is overwritten on the row;
* a pause that finds the goal cancelled clears the cancel flag its runner has not
  seen; a goal that a stop blocked is not signalled, so its hung runner goes on after
  the stop was lifted; a run that hung, was reaped and then cannot read its stop flag
  (which counts as a stop) writes `cancelled` on the row that its successor is running,
  which is not told;
* a step in progress goes on calling tools after its cancel was confirmed, until the
  signal poll ends it (up to 5 s, or longer in a hung event loop);
* a run that waits in its pause gate does not look at the emergency stop again when the
  pause ends, although `_make_worker_pause_gate` says that the stop is enforced "at every
  step boundary" and `api/governance.py:1622` that every running goal halts at its next
  one. The stop's cancel flag covers this, unless the goal was left to the batch task
  and that flag could not be set; then only the signal poll ends the run;
* a terminal event whose status write was lost hides the goal from
  `detect_stuck_goals`;
* a slow probe outlives its claim and is joined by a second;
* a runner whose goal the reaper or `detect_stuck_goals` failed is sent no cancel;
  `detect_stuck_goals` frees no slot (the slot is a lease that expires by itself);
  the requeue counter is read at the claim and written in a later transaction, so two
  reapers a whole run apart may lose one increment;
* a hung run that was taken for lost decomposes the goal again beside its successor.
  `agent/fanout_ledger.py:165` ("two concurrent deliveries of the same parent converge
  on one plan instead of each launching its own children") and the comment at
  `agent/supervisor.py:277` promise otherwise, but rest on a conflict of task keys, and
  each decomposition draws random ones: both plans are stored and both are dispatched.
  `OneChildPerTask` and the theorems about the plan are for runs without such stalls;
* a sub-goal submitted after a cancel has read the list is not cancelled; a
  supervisor error lets the parent go on alone beside its sub-goals;
* the winner of an approval may be told that it was not accepted, when the shared
  object was set first; a database error at the agent's timeout leaves the row
  approvable; a router with a stale cache parks a goal that another replica approved;
* an outlived claim lets two dispatchers work on one row; a late `mark_retry` revives
  a dead letter, whose second dead-letter INSERT breaks the primary key and aborts
  the batch at every tick; a full stream is never trimmed;
* the task that carries a workflow decision gives up after a minute of a busy lease or
  of no Redis, and the sweep for stuck runs does not look at `waiting_hitl` (the
  docstring of `_acquire_run_lease` counts on that sweep); the same when the process
  dies between the decision and its dispatch. Such a run waits for ever:
  `WaitsForSomebody` and `RunProgresses` except it (`lost`);
* an approval step whose request cannot be opened and whose `on_failure` is
  `use_default` is recorded complete with its author's default; one with an approving
  `action` lets the run pass though nobody approved. The compiler calls an approval a
  "HARD BARRIER", and `_barrier_blocks` says that nothing passes "until the approval is
  decided"; `GateHolds` counts such a default as a release (`defaulted`);
* `hitl_timeout_pause` is never cleared: once the SLA has paused a run, a later pause
  and resume of it return it to `waiting_hitl` though no approval is open;
* an operator's pause that read `running` before the run parked on its approval or
  timer overwrites `waiting_hitl` or `waiting_timer`, and the decision of the
  approval is then refused until somebody resumes;
* a lost lease is only logged: the old executor goes on beside the new one. It may open
  a second approval, repeat a call, and write `waiting_timer` when `wake_at` has
  already been used up.

## 4. What is proved

TLAPS checks the following for every value of the constants: any number of
deliveries, reapers, operators, workers, sub-tasks, approvers, rows, dispatchers,
callers, steps, tasks, faults and retries.

| Theorem | Statement | By |
|---|---|---|
| `GoalRunnerProofs!TypeCorrect` | `[]TypeOK` | `ConstantsAssumption` |
| `LockExcludes` | `[]LockOrDisowned` | `Exclusion` |
| `ReapersExclude` | `[]OneReaperPerRunner` | `Exclusion` |
| `RunnerImplementsLifecycle` | `ImplementsLifecycle` | `TypeOK` |
| `SlotOutlivesGoal` | `[]SlotWhileUnfinished` if `LostWrites = FALSE` | `SlotOrder` |
| `ConfirmedCancelHolds` | `NoStepAfterCancel` if there is one operator and `~StopLifted` | `CancelStands` |
| `FanoutProofs!FanoutImplementsLifecycle` | `ImplementsLifecycle` | the type of `status` |
| `FanoutTypeOK`, `OneChild`, `SynthesisWaits` | `[]TypeOK`, `[]OneChildPerTask`, `[]NoEarlySynthesis` if `~Stalls` | `FanoutInv` |
| `ParallelismBounded` | `[]ParallelBound` if `~Stalls` | `PlanInv` |
| `ApprovalProofs!ApprovalTypeOK`, `GrantsAreApproved`, `TrueAnswers`, `NothingAbandoned`, `QuorumsResolve` | `[]TypeOK`, `[]GrantedIsApproved`, `[]AnswersAreTrue`, `[]AbandonedIsDenied`, `[]QuorumResolves` | `ApprovalInv` |
| `GateIsOneDecision` | `ImplementsDecision` | `ApprovalInv`, `ToldNeverVotes` |
| `OutboxProofs!OutboxTypeOK`, `OutboxLosesNothing`, `OutboxClaimExcludes`, `OutboxStreamBound` | `[]TypeOK`, `[]NothingLost`, `[]ClaimExcludes`, `[]StreamBound` | `OutboxInv` |
| `OutboxSettles` | `SettledIsFinal` | `OutboxInv` |
| `OutboxPublishesOnce` | `[]PublishedOnce` | `Budget` |
| `WorkflowProofs!TypeCorrect` | `[]TypeOK` | `TypeInv` |
| `Exclusion` | `[]OneExecutor` | `HoldsLease` |
| `GatesHold` | `[]GateHolds` | `GateInv` |
| `ParkedRunIsAwaited` | `[]WaitsForSomebody` | `WaitInv` |
| `EndedStaysEnded` | `EndIsFinal` | `TypeInv` |
| `EffectsArePaidFor` | `[]EffectsOnce` | `EffectInv` |
| `RedisCircuitBreakerProofs!KeysAlwaysExpire` | `[]KeysExpire` if `CutAt` is within `{"release_claim"}` | `TypeOK` |

*Exclusion.* `LockOrDisowned` is not inductive: a reaper could clear the row of a
run whose first beat is still to come, and that beat would take the row back
without the lock. `Exclusion` adds that a claimed row names its runner, that
messages are numbered in publication order (so an unsent run has no past), that a
run takes the row over at most once and not before its heartbeat starts, and that a
token in a reaper's hands is in nobody else's and can never return. The lemmas
`ExclusionMoves`, `ExclusionLeaves`, `ExclusionPublishes`, `ExclusionQueues`
and `ExclusionReaps` are the only ways in which a step touches these facts; every
action is an instance of one of them.

*SlotOrder.* Whoever is about to free the slot (a closing run, a reaper that
failed the goal, a refused relaunch) has recorded the end before. Ends stay
(`EndStays`): events are only appended and terminal statuses are final, which is
`StatusStep`, shared with the refinement proof. With lost status writes the
claim is false by design (`_mark_goal_blocked` frees the slot even when it could not
write), hence the assumption.

*CancelStands.* `confirmed` says nothing of what a gate reads. The invariant ties them:
a cancel between its flag and its write has its flag up, a stop its stop flag, and once
one of them is confirmed the row is cancelled, a flag is up and no request is open that
could take it down (a pause, or a cancel whose write fails, withdraws the cancel flag).
With one operator no such request can be open at that moment, and later ones find the
goal finished and are refused; this is exactly what a second operator breaks. No watchdog,
run or queue lowers either flag (`OthersKeepFlags`), and only the gate and the end of a
pause let a run into a step (`OnlyGateSteps`). Faults, requeues and duplicates are not bounded by anything.

*FanoutInv.* A run may submit only because nobody else does: `LockHeld` (a run
holds the lock until it gives it back; this is what a stall breaks, hence
`~Stalls`). `DispatchInOrder` carries the check of `find_child_goal` to the
submission, `RowsNameChild` says that rows name only a task's first sub-goal, and
`RowsKnown` that a run which has loaded its rows knows all of them, so that an
empty set of pending entries (`NothingPending`) is about the ledger and not about
an old copy. `RowsAreTrue` gives every sub-goal a row, and "complete" its meaning.

*PlanInv.* A re-entered run counts the rows it finds dispatched and not the sub-goals
that run: a sub-goal whose `mark_dispatched` was lost still has a planned row. The bound
holds because `_advance` slices the plan in its order (`planned[:slots]`), so that
whatever was submitted lies within every later slice. `Frontier` is every planned row
that has a sub-goal or is about to get one, together with all rows before it in the plan;
`Room` says that the frontier and the dispatched rows together are at most
`max_parallel`. The lemmas on `FirstN` (an initial segment of at most n tasks) and on the
order of the plan carry it; they count, so the workers are assumed to be a finite set.

*ApprovalInv.* The row is written once (compare-and-swap), so what a call has read
stays true unless it read "pending" (`SeenIsTrue`), and object, list and calls
carry only the row's decision (`CarriedIsTrue`), also across the merge that sets an
object back to pending. `VotesBehind` ties an approved row to its votes,
`QuorumInHand` a complete quorum to the call that is about to resolve, and
`Calm` strengthens the rest while nothing has failed.

*The refinement of ApprovalDecision.* Each of the gateway's steps is one of the abstract
ones or none: `Deciding` (the compare-and-swap decides, and an approval only with the
votes counted before it), `Voting`, `Telling` (an answer is the row's) and the agent's
ends. A step that records a vote may answer its call at once ("vote recorded", or an
error): `ToldNeverVotes` says that such a caller has not been told a decision before, so
that the answer takes nothing back and the step is a vote and nothing else.

*OutboxInv.* A row in a dispatcher's hands is claimed and its claim fresh unless it
was outlived (`ClaimHolds`), so that nobody else's claim or write can be about it.
`RoomForAll` counts the dispatchers that have passed the length check as if they had
added: each of them passed it below the limit, so the last to pass saw room for
itself and there are at most all dispatchers beyond it.

*Budget.* `PublishedOnce` counts entries; what makes it inductive is to count those to
come as well. `Holders` are the dispatchers that carry the row and have not heard that it
was accepted, `Spare` is one if somebody may yet claim it with nobody at work on it;
entries, holders and spare together are at most one more than the faults. A claim turns
the spare into a holder, XADD a holder into an entry, and only a fault adds one: a reply
lost, an outcome not written, a dispatcher dead after XADD, or a claim that ends under
its dispatcher.

*HoldsLease.* A task that executes holds the lease unless it was evicted; two that are
not evicted would both be its owner. Only `Acquire` makes an executor, from a free
lease, and the compare-and-delete of `release` leaves a successor's lease alone.

*GateInv.* `GateHolds` speaks of where tasks are; what lets a task pass is a result row,
a decision in its payload or a verdict it is about to write. `TrueRecords`,
`TrueApprovals`, `TrueDecisions` and `TrueResults` say that each of these stands for a
grant or, for a result, for the default of an approval that failed (`Released`). Nothing in it mentions the lease, so approvals hold also with two executors.

*WaitInv.* While no lease and no decision was lost and the SLA has not paused the run
(`Quiet`), only the holder of the lease can park it. Hence a task that is going to write
`waiting_hitl` has an approval open or decided that nobody else can consume before it
(`WillBeAwaited`), a task before that has not yet parked the run (`NotYetWaiting`), and
a parked run is awaited (`IsAwaited`). `RegatesAfterSla` says that an operator sends a
run back to its approval only after an SLA pause.

*EffectInv.* The same way of counting for a step's call: calls made, evicted executors that
may still make it (`Late`) and one for the holder of the lease or its successors, while
there is no result (`Open`), are at most one more than the faults (`Quota`). `HoldsLease`
makes that last one a single one; an eviction is a fault and moves it to `Late`, and a
result that was not recorded, or not read back, is a fault that opens it again.

*KeysExpire* is inductive as stated: the duty to set a TTL passes from command
to command of one caller, and no step of another caller can take it away.

Only model-checked: the liveness properties (`UnfinishedGoalSettles`,
`CircuitRecovers`, `ParkedParentResumes`, `DecisionReachesAgent`, `EventSettles`,
`RunProgresses`, `OrphanApprovalExpires`), which are out of the prover's reach.

## 5. Plan, and what is not modelled

Done: the goal's life (status table, worker, watchdog, control, tool call), fan-out,
approvals, the coordination outbox, workflow runs and the shared breaker. Next, in this order:

1. `TenantSlots`: the lease set of `tenancy/limits.py`; `GoalRunner`'s slot flag as
   its abstraction; the plan's limit under concurrent submits, and the end of leaked
   leases.
2. `DeadWorkerRestore` (`scaling/dead_worker_restore.py`): restoring a dead
   worker's messages while a slow one is still alive.
3. Trigger dispatch and dedup; coordination leases and swarm claims; the bulkhead.

Theorems still worth having: the safety halves of the liveness properties, which say
why nothing can be stuck for good (a parked parent whose sub-goals are over has a wake
under way or is visible to the sweeper; a non-closed circuit has a TTL or a caller that
will set one and an `opened_at`), and an abstract specification of a workflow run (steps
done once, in order, behind their approvals) that `WorkflowRun` refines while no lease
is lost.

Not planned: prompts and LLM output, connectors, parsing, embeddings, UI. These are
most of the repository's lines: data processing and I/O without a protocol of their
own, where a state machine would only restate the code.

## 6. Running it

    tlc -config MCWatchdog.cfg MCGoalRunner
    tlc -config MCFanout.cfg MCFanoutContinuation
    tlc -config MCApproval.cfg MCApprovalGate
    tlc -config MCOutbox.cfg MCCoordinationOutbox
    tlc -config MCWorkflow.cfg MCWorkflowRun
    tlc -config MCBreaker.cfg MCRedisCircuitBreaker
    tlc -config MCCancel.cfg MCGoalRunner
    tlapm GoalRunnerProofs.tla
