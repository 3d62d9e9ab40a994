----------------------------- MODULE GoalRunner -----------------------------
(***************************************************************************)
(* Who runs a goal.  One goal row in Postgres, its execution lock and      *)
(* control flags in Redis, the Celery deliveries of its run_goal message,  *)
(* the heartbeat thread of each run, the watchdogs of the beat process     *)
(* (reap_stale_goal_runners, detect_stuck_goals) and an operator who       *)
(* pauses, resumes, cancels or stops it.                                   *)
(*                                                                         *)
(* Goals share none of this state, so one goal is modelled.  A run is one  *)
(* delivery of the message: run r has lock token r.  An action is a        *)
(* statement that another process can observe (an UPDATE, a Redis command, *)
(* a publish) with the steps up to the next one that matters; a crash may  *)
(* fall between any two.  Writes that only say that the goal is over (its  *)
(* terminal status, then its event) are one action: nobody acts on the     *)
(* row in between.  Time is abstracted: a heartbeat goes stale whenever    *)
(* nothing renews it.                                                      *)
(***************************************************************************)
EXTENDS GoalStatus, Naturals, FiniteSets

CONSTANTS
    MaxRetries,     \* run_goal's max_retries
    MaxRequeues,    \* goal_watchdog_max_requeues
    Reapers,        \* beat-scheduled reap_stale_goal_runners tasks that may overlap
    Operators,      \* API requests on the goal that may overlap
    StopLifted,     \* may an emergency stop be lifted again?
    LostWrites,     \* may a worker's status UPDATE fail? (it is logged and ignored)
    MaxDeliveries,  \* bound: run_goal messages published in a behaviour
    MaxFaults,      \* bound: crashes, hangs, duplicates and failed calls
    MaxOps          \* bound: operator requests

ASSUME ConstantsAssumption ==
    /\ MaxRetries \in Nat /\ MaxRequeues \in Nat
    /\ MaxDeliveries \in Nat \ {0} /\ MaxFaults \in Nat /\ MaxOps \in Nat
    /\ LostWrites \in BOOLEAN /\ StopLifted \in BOOLEAN

Runs == 1 .. MaxDeliveries
NoRun == 0          \* SQL NULL / a missing Redis key

VARIABLES
    \* the goals row
    status,         \* goals.status
    hb,             \* goals.heartbeat_at: NULL, fresh, or older than the stale limit
    runner,         \* goals.runner_token
    requeues,       \* execution_context.watchdog_requeues
    context,        \* execution_context: "suspended" when the graph ended waiting
    events,         \* goal_events that matter here: a side effect, an end of the goal
    \* Redis
    lock,           \* goal_lock:{goal}
    keys,           \* the goal's other keys: control flags, slot lease, ledger entry
    \* broker and workers
    deliveries,     \* messages published so far
    dlq,            \* run_goal_dlq messages waiting
    attempt,        \* request.retries of each delivery
    pc, beat,       \* where each run, and its heartbeat thread, is
    wedged,         \* runs whose event loop hangs
    called,         \* runs that made the side-effecting call the ledger knows by one key
    \* beat tasks and operator
    rpc, rtoken, reff, rdone, op,
    confirmed,      \* history: a cancel or stop request was answered with "cancelled"
    \* budgets
    faults, ops

row      == <<status, hb, runner, requeues, context>>
redis    == <<lock, keys>>
broker   == <<deliveries, attempt, dlq>>
threads  == <<beat, wedged, called>>
reapers  == <<rpc, rtoken, reff, rdone>>
operator == <<op, ops, confirmed>>
vars == <<row, events, redis, broker, threads, pc, reapers, operator, faults>>

(***************************************************************************)
(* Where a run is.  It holds the lock it took from "locked" on; it has     *)
(* started its heartbeat thread from "begun" on.  A wave of steps lies     *)
(* between two gates: the run is "running" when it has a gate or its end   *)
(* before it, "paused" while a gate holds it, InStep behind the gate.      *)
(***************************************************************************)
Setup   == {"locked", "claimed", "starting"}
InStep  == {"stepping", "calling", "applied", "evented"}
InGraph == InStep \cup {"running", "paused"}
Working == InGraph \cup {"begun", "erred", "suspending", "closing", "releasing"}
Over    == {"done", "dead", "gone"}
Live    == Setup \cup Working
PC      == {"unsent", "queued"} \cup Live \cup Over

\* The heartbeat thread.  "first" has not written yet and takes the row over;
\* "renew" only renews its own claim.  The last_ states outlive their run: stop()
\* joins for 5 s and gives up on a write that may take 10 s.
FirstBeat == {"first", "last_first"}
Beating   == {"first", "renew", "last_first", "last_renew"}
Beat      == {"off"} \cup Beating

RowOK ==
    /\ status \in Status /\ hb \in {"null", "fresh", "stale"}
    /\ runner \in Runs \cup {NoRun} /\ requeues \in Nat
    /\ context \subseteq {"suspended"}
    /\ events \subseteq {"effect", "end"}

RedisOK ==
    /\ lock \in Runs \cup {NoRun}
    /\ keys \subseteq {"cancel", "pause", "stop", "slot", "ledger"}

RunsOK ==
    /\ deliveries \in Runs /\ dlq \in Nat /\ attempt \in [Runs -> Nat]
    /\ pc \in [Runs -> PC] /\ beat \in [Runs -> Beat]
    /\ wedged \subseteq Runs /\ called \subseteq Runs

Requests == {"idle", "cancel", "reject", "pause", "resume", "relaunch",
             "stop", "batch", "batched"}

RequestsOK ==
    /\ rpc \in [Reapers -> {"idle", "claimed", "unlocked", "moved", "failing", "failed"}]
    /\ rtoken \in [Reapers -> Runs \cup {NoRun}]
    /\ reff \subseteq Reapers /\ rdone \in [Reapers -> Nat]
    /\ op \in [Operators -> Requests] /\ confirmed \in BOOLEAN
    /\ faults \in Nat /\ ops \in Nat

TypeOK == RowOK /\ RedisOK /\ RunsOK /\ RequestsOK

\* A goal just submitted: row inserted, slot taken, its message published.
Init ==
    /\ status = "planning" /\ hb = "null" /\ runner = NoRun
    /\ requeues = 0 /\ context = {} /\ events = {}
    /\ lock = NoRun /\ keys = {"slot"}
    /\ deliveries = 1 /\ dlq = 0
    /\ attempt = [r \in Runs |-> 0]
    /\ pc = [r \in Runs |-> IF r = 1 THEN "queued" ELSE "unsent"]
    /\ beat = [r \in Runs |-> "off"]
    /\ wedged = {} /\ called = {}
    /\ rpc = [w \in Reapers |-> "idle"] /\ rtoken = [w \in Reapers |-> NoRun]
    /\ reff = {} /\ rdone = [w \in Reapers |-> 0]
    /\ op = [o \in Operators |-> "idle"] /\ confirmed = FALSE /\ faults = 0 /\ ops = 0

(***************************************************************************)
(* Building blocks.                                                        *)
(***************************************************************************)
Fault == faults < MaxFaults /\ faults' = faults + 1
NoFault == UNCHANGED faults

\* Run r, which is not hung, leaves one of the places in from.
At(r, from) == pc[r] \in from /\ r \notin wedged
Goto(r, to) == pc' = [pc EXCEPT ![r] = to]

\* A run_goal message whose request.retries is n.
NewMessage(n) ==
    /\ deliveries < MaxDeliveries
    /\ deliveries' = deliveries + 1
    /\ attempt' = [attempt EXCEPT ![deliveries + 1] = n]
    /\ UNCHANGED dlq
Publish(n) == NewMessage(n) /\ pc' = [pc EXCEPT ![deliveries + 1] = "queued"]
PublishFrom(r, to, n) ==
    NewMessage(n) /\ pc' = [pc EXCEPT ![r] = to, ![deliveries + 1] = "queued"]

\* Compare-and-delete of the lock key (the same script in worker and reaper).
LockWithout(r) == IF lock = r THEN NoRun ELSE lock

SetStatus(s) == status' = Written(status, s)

\* The worker's status write: a DB error is logged and the run carries on.
WorkerWrites(s) == SetStatus(s) \/ (LostWrites /\ UNCHANGED status)

RowButStatus == UNCHANGED <<hb, runner, requeues, context>>

(***************************************************************************)
(* run_goal up to the claim.                                               *)
(***************************************************************************)

\* An emergency stop is set, or on the last attempt its state is unreadable:
\* _mark_goal_blocked; the slot is kept only if the goal was found to be over.
StartBlocked(r) ==
    /\ pc[r] = "queued"
    /\ \/ "stop" \in keys /\ NoFault
       \/ attempt[r] >= MaxRetries /\ Fault
    /\ \/ /\ SetStatus("cancelled")
          /\ keys' = IF status \in TERMINAL_STATUSES THEN keys ELSE keys \ {"slot"}
       \/ LostWrites /\ UNCHANGED status /\ keys' = keys \ {"slot"}
    /\ RowButStatus /\ Goto(r, "done")
    /\ UNCHANGED <<events, lock, broker, threads, reapers, operator>>

\* A Redis error before the claim: retry the task with backoff.  The SET may have
\* been applied although its reply was lost.
StartRetry(r) ==
    /\ pc[r] = "queued" /\ attempt[r] < MaxRetries /\ Fault
    /\ PublishFrom(r, "done", attempt[r] + 1)
    /\ \/ UNCHANGED lock
       \/ lock = NoRun /\ "stop" \notin keys /\ lock' = r
    /\ UNCHANGED <<row, events, keys, threads, reapers, operator>>

\* SET goal_lock NX: the delivery becomes a run, or is skipped and acked.
AcquireLock(r) ==
    /\ pc[r] = "queued" /\ "stop" \notin keys
    /\ \/ lock = NoRun /\ lock' = r /\ Goto(r, "locked")
       \/ lock # NoRun /\ UNCHANGED lock /\ Goto(r, "done")
    /\ UNCHANGED <<row, events, keys, broker, threads, reapers, operator, faults>>

\* The lock store is still down on the last attempt: fail the goal instead.
LockUnavailable(r) ==
    /\ pc[r] = "queued" /\ "stop" \notin keys /\ attempt[r] >= MaxRetries
    /\ Fault /\ WorkerWrites("failed") /\ RowButStatus
    /\ events' = events \cup {"end"} /\ keys' = keys \ {"slot"}
    /\ Goto(r, "done")
    /\ UNCHANGED <<lock, broker, threads, reapers, operator>>

\* The rows _claim_goal_for_execution refuses.
MutantClaimsFinished == PARKED_STATUSES
NotClaimable == TERMINAL_STATUSES \cup PARKED_STATUSES

\* _claim_goal_for_execution: a refused delivery gives the lock back and is acked.
Claim(r) ==
    /\ At(r, {"locked"})
    /\ \/ /\ status \notin NotClaimable
          /\ status' = "executing" /\ Goto(r, "claimed") /\ UNCHANGED lock
       \/ /\ status \in NotClaimable
          /\ UNCHANGED status /\ Goto(r, "done") /\ lock' = LockWithout(r)
    /\ RowButStatus
    /\ UNCHANGED <<events, keys, broker, threads, reapers, operator, faults>>

\* The claim cannot be verified: give the lock back, then retry or fail the goal.
ClaimError(r) ==
    /\ At(r, {"locked"}) /\ Fault
    /\ lock' = LockWithout(r)
    /\ \/ /\ attempt[r] < MaxRetries
          /\ PublishFrom(r, "done", attempt[r] + 1)
          /\ UNCHANGED <<status, keys, events>>
       \/ /\ attempt[r] >= MaxRetries
          /\ WorkerWrites("failed")
          /\ events' = events \cup {"end"} /\ keys' = keys \ {"slot"}
          /\ Goto(r, "done") /\ UNCHANGED broker
    /\ RowButStatus
    /\ UNCHANGED <<threads, reapers, operator>>

(***************************************************************************)
(* The run.                                                                *)
(***************************************************************************)

\* mark_worker_started writes "executing" once more, over any active status.
MarkStarted(r) ==
    /\ At(r, {"claimed"}) /\ Goto(r, "starting")
    /\ WorkerWrites("executing") /\ RowButStatus
    /\ UNCHANGED <<events, redis, broker, threads, reapers, operator, faults>>

\* No usable provider, or the graph cannot be assembled: failed before the
\* heartbeat thread exists.
SetupFailed(r) ==
    /\ At(r, {"starting"}) /\ Goto(r, "done")
    /\ WorkerWrites("failed") /\ RowButStatus
    /\ events' = events \cup {"end"} /\ keys' = keys \ {"slot"} /\ lock' = LockWithout(r)
    /\ UNCHANGED <<broker, threads, reapers, operator, faults>>

StartHeartbeat(r) ==
    /\ At(r, {"starting"}) /\ Goto(r, "begun")
    /\ beat' = [beat EXCEPT ![r] = "first"]
    /\ UNCHANGED <<row, events, redis, broker, wedged, called, reapers,
                   operator, faults>>

\* The check before the first step sees the cancel flag, or cannot read it (and
\* stores no event).
CancelledEarly(r) ==
    /\ At(r, {"begun"}) /\ Goto(r, "closing")
    /\ \/ "cancel" \in keys /\ NoFault
       \/ Fault
    /\ WorkerWrites("cancelled") /\ RowButStatus
    /\ UNCHANGED <<events, redis, broker, threads, reapers, operator>>

\* _run_with_signals installs the gate and starts the graph and the signal poll.
EnterGraph(r) ==
    /\ At(r, {"begun"}) /\ "cancel" \notin keys /\ Goto(r, "running")
    /\ UNCHANGED <<row, events, redis, broker, threads, reapers, operator, faults>>

\* The step gate raises nothing: neither cancelled nor under an emergency stop.
MutantGateIgnoresCancel == "stop" \notin keys
GateOpen == keys \cap {"cancel", "stop"} = {}

\* The gate, awaited once before each wave of steps.  It waits while the goal is
\* paused (an unreadable pause flag counts as set).
StepGate(r) ==
    /\ At(r, {"running"}) /\ GateOpen
    /\ \/ "pause" \notin keys /\ NoFault /\ Goto(r, "stepping")
       \/ "pause" \in keys /\ NoFault /\ Goto(r, "paused")
       \/ Fault /\ Goto(r, "paused")
    /\ UNCHANGED <<row, events, redis, broker, threads, reapers, operator>>

\* The wait looks at the cancel and the pause flag, and no more at the stop.
PauseEnds(r) ==
    /\ At(r, {"paused"}) /\ keys \cap {"cancel", "pause"} = {} /\ Goto(r, "stepping")
    /\ UNCHANGED <<row, events, redis, broker, threads, reapers, operator, faults>>

\* Inside the step nothing looks at the flags again.  The ledger does not know the
\* call, or cannot be read; the run's own mirror does not know it either.
LedgerCheck(r) ==
    /\ At(r, {"stepping"}) /\ r \notin called /\ Goto(r, "calling")
    /\ \/ "ledger" \notin keys /\ NoFault
       \/ Fault
    /\ UNCHANGED <<row, events, redis, broker, threads, reapers, operator>>

\* call_tool: the effect happens outside the system.
ToolCall(r) ==
    /\ At(r, {"calling"}) /\ Goto(r, "applied")
    /\ called' = called \cup {r}
    /\ UNCHANGED <<row, events, redis, broker, beat, wedged, reapers, operator,
                   faults>>

\* Only now the tool_call_complete event is stored ...
ToolEvent(r) ==
    /\ At(r, {"applied"}) /\ Goto(r, "evented")
    /\ events' = events \cup {"effect"}
    /\ UNCHANGED <<row, redis, broker, threads, reapers, operator, faults>>

\* ... and the call recorded in the ledger (a failed write is only logged).
ToolRecord(r) ==
    /\ At(r, {"evented"}) /\ Goto(r, "stepping")
    /\ \/ keys' = keys \cup {"ledger"} /\ NoFault
       \/ Fault /\ UNCHANGED keys
    /\ UNCHANGED <<row, events, lock, broker, threads, reapers, operator>>

\* The wave is done: the next gate, or the end of the plan, is before the run.
StepEnds(r) ==
    /\ At(r, {"stepping"}) /\ Goto(r, "running")
    /\ UNCHANGED <<row, events, redis, broker, threads, reapers, operator, faults>>

\* The graph ends: mark_worker_complete with the outcome the run reached (a
\* timeout or a governance denial cuts it short anywhere, as failed; time in the
\* pause does not count).  Of a goal that is to wait for a human only the status is
\* written here.
RecordEnd(r, s) ==
    /\ At(r, IF s = "failed" THEN InStep \cup {"running"} ELSE {"running"})
    /\ Goto(r, IF s = "waiting_human" THEN "suspending" ELSE "closing")
    /\ WorkerWrites(s) /\ RowButStatus
    /\ events' = IF s = "waiting_human" THEN events ELSE events \cup {"end"}
    /\ UNCHANGED <<redis, broker, threads, reapers, operator, faults>>

\* The worker_complete event of a supervised run that ended waiting, then
\* _db_set_suspended (an error is logged).
MarkSuspended(r) ==
    /\ At(r, {"suspending"}) /\ Goto(r, "closing")
    /\ events' = events \cup {"end"}
    /\ \/ context' = context \cup {"suspended"} /\ NoFault
       \/ Fault /\ UNCHANGED context
    /\ UNCHANGED <<status, hb, runner, requeues, redis, broker, threads,
                   reapers, operator>>

\* A cancel or stop flag seen by the signal poll, which runs beside the steps every
\* 5 s, or at a gate, or a flag that cannot be read (it counts as cancelled):
\* GoalCancelledError.
Cancelled(r) ==
    /\ At(r, InGraph) /\ Goto(r, "closing")
    /\ \/ keys \cap {"cancel", "stop"} # {} /\ NoFault
       \/ Fault
    /\ WorkerWrites("cancelled") /\ RowButStatus
    /\ events' = events \cup {"end"}
    /\ UNCHANGED <<redis, broker, threads, reapers, operator>>

\* Any other exception.  The row is read first: a goal that is already over or
\* parked is left alone; an unreadable row counts as unknown.
RunError(r) ==
    /\ At(r, InStep \cup {"running"}) /\ Fault
    /\ \/ status \in TERMINAL_STATUSES \cup PARKED_STATUSES /\ Goto(r, "releasing")
       \/ Goto(r, "erred")
    /\ UNCHANGED <<row, events, redis, broker, threads, reapers, operator>>

\* A permanent error fails the goal; so does the last attempt, through the DLQ.
FailRun(r) ==
    /\ At(r, {"erred"}) /\ Goto(r, "closing")
    /\ \/ UNCHANGED dlq
       \/ attempt[r] >= MaxRetries /\ dlq' = dlq + 1
    /\ WorkerWrites("failed") /\ RowButStatus
    /\ events' = events \cup {"end"}
    /\ UNCHANGED <<redis, deliveries, attempt, threads, reapers, operator, faults>>

MutantRetryFreesSlot(r) ==
    /\ At(r, {"erred"}) /\ attempt[r] < MaxRetries
    /\ PublishFrom(r, "closing", attempt[r] + 1)
    /\ UNCHANGED <<row, events, redis, threads, reapers, operator, faults>>

\* A transient error: the retry is published before the finally block runs.
RetryRun(r) ==
    /\ At(r, {"erred"}) /\ attempt[r] < MaxRetries
    /\ PublishFrom(r, "releasing", attempt[r] + 1)
    /\ UNCHANGED <<row, events, redis, threads, reapers, operator, faults>>

\* _decrement_after_completion (ZREM of the goal's lease).
CloseRun(r) ==
    /\ At(r, {"closing"}) /\ Goto(r, "releasing")
    /\ keys' = keys \ {"slot"}
    /\ UNCHANGED <<row, events, lock, broker, threads, reapers, operator, faults>>

\* The finally block: stop the heartbeat thread (its write in flight is waited for,
\* so a first beat has happened), release the lock.  The join may time out on that
\* write, the write may fail, and so may the release (the TTL then frees the lock).
ReleaseRun(r) ==
    /\ At(r, {"releasing"}) /\ Goto(r, "done")
    /\ \/ /\ NoFault /\ beat[r] # "first"
          /\ beat' = [beat EXCEPT ![r] = "off"] /\ lock' = LockWithout(r)
       \/ /\ Fault /\ beat[r] \in {"first", "renew"} /\ lock' = LockWithout(r)
          /\ beat' = [beat EXCEPT ![r] =
                        IF beat[r] = "first" THEN "last_first" ELSE "last_renew"]
       \/ /\ Fault /\ lock' \in {lock, LockWithout(r)}
          /\ beat' = [beat EXCEPT ![r] = "off"]
    /\ UNCHANGED <<row, events, keys, broker, wedged, called, reapers, operator>>

\* run_goal_dlq: everything but complete and cancelled becomes failed.
DeadLetter ==
    /\ dlq > 0 /\ dlq' = dlq - 1
    /\ \/ status' = IF status \in {"complete", "cancelled"} THEN status ELSE "failed"
       \/ LostWrites /\ UNCHANGED status
    /\ RowButStatus
    /\ UNCHANGED <<events, redis, deliveries, attempt, threads, pc, reapers,
                   operator, faults>>

(***************************************************************************)
(* The heartbeat thread and the passing of time.                           *)
(***************************************************************************)

\* The row a beat may write: active, and from the second beat on still the run's own.
MutantBeatsAnyRow(r) == status \in RUNNING_STATUSES \cup {"waiting_human"}
StillOurs(r) ==
    /\ status \in RUNNING_STATUSES \cup {"waiting_human"}
    /\ beat[r] \in FirstBeat \/ runner = r

\* GoalHeartbeat._beat, withheld while the run's event loop is stalled.
BeatRow(r) ==
    /\ beat[r] \in Beating /\ r \notin wedged
    /\ IF StillOurs(r)
       THEN /\ hb' = "fresh" /\ runner' = r
            /\ beat' = [beat EXCEPT ![r] =
                          IF beat[r] \in {"first", "renew"} THEN "renew" ELSE "off"]
       ELSE beat' = [beat EXCEPT ![r] = "off"] /\ UNCHANGED <<hb, runner>>
    /\ UNCHANGED <<status, requeues, context, events, redis, broker, wedged,
                   called, pc, reapers, operator, faults>>

\* Nobody renewed heartbeat_at for goal_heartbeat_stale_seconds.
BeatGoesStale ==
    /\ hb = "fresh"
    /\ runner # NoRun => beat[runner] # "renew" \/ runner \in wedged
    /\ hb' = "stale"
    /\ UNCHANGED <<status, runner, requeues, context, events, redis, broker,
                   threads, pc, reapers, operator, faults>>

\* The lock's TTL runs out once no renewal thread is left.
LockExpires ==
    /\ lock # NoRun /\ pc[lock] \in Over
    /\ lock' = NoRun
    /\ UNCHANGED <<row, events, keys, broker, threads, pc, reapers,
                   operator, faults>>

(***************************************************************************)
(* Worker faults: death, a hung event loop, a message delivered again.     *)
(***************************************************************************)
Crash(r) ==
    /\ pc[r] \in Live /\ Fault
    /\ Goto(r, "dead")
    /\ beat' = [beat EXCEPT ![r] = "off"]
    /\ wedged' = wedged \ {r}
    /\ UNCHANGED <<row, events, redis, broker, called, reapers, operator>>

Wedge(r) ==
    /\ pc[r] \in Working /\ r \notin wedged /\ Fault
    /\ wedged' = wedged \cup {r}
    /\ UNCHANGED <<row, events, redis, broker, beat, called, pc, reapers,
                   operator>>

Unwedge(r) ==
    /\ r \in wedged
    /\ wedged' = wedged \ {r}
    /\ UNCHANGED <<row, events, redis, broker, beat, called, pc, reapers,
                   operator, faults>>

\* acks_late: a dead worker's message comes back (task_reject_on_worker_lost or
\* the visibility timeout); one whose run outlives that timeout is duplicated.
Redeliver(r) ==
    \/ /\ pc[r] = "dead" /\ PublishFrom(r, "gone", attempt[r])
       /\ UNCHANGED <<row, events, redis, threads, reapers, operator, faults>>
    \/ /\ pc[r] \in Live /\ Fault /\ PublishFrom(r, pc[r], attempt[r])
       /\ UNCHANGED <<row, events, redis, threads, reapers, operator>>

(***************************************************************************)
(* The watchdogs.  reap_stale_goal_runners handles the goal in steps, each *)
(* its own transaction or call; the task may die between any two.          *)
(***************************************************************************)

\* The row forgets its lost runner.
MutantKeepsRunner == UNCHANGED <<hb, runner>>
ForgetRunner == hb' = "null" /\ runner' = NoRun

\* One UPDATE claims a stale row (exactly one replica wins) and, in the same
\* transaction, reads whether a side-effect event exists.
ReapClaim(w) ==
    /\ rpc[w] = "idle"
    /\ status \in RUNNING_STATUSES /\ hb = "stale"
    /\ ForgetRunner
    /\ rpc' = [rpc EXCEPT ![w] = "claimed"]
    /\ rtoken' = [rtoken EXCEPT ![w] = runner]
    /\ reff' = IF "effect" \in events THEN reff \cup {w} ELSE reff \ {w}
    /\ rdone' = [rdone EXCEPT ![w] = requeues]
    /\ UNCHANGED <<status, requeues, context, events, redis, broker, threads,
                   pc, operator, faults>>

\* release_dead_runner_lock: only a lock that still holds the reaped token.
ReapUnlock(w) ==
    /\ rpc[w] = "claimed"
    /\ rpc' = [rpc EXCEPT ![w] = "unlocked"]
    /\ \/ lock' = LockWithout(rtoken[w]) /\ NoFault
       \/ Fault /\ UNCHANGED lock
    /\ UNCHANGED <<row, events, keys, broker, threads, pc, rtoken, reff,
                   rdone, operator>>

\* The status a requeued goal waits in.
MutantRequeuedStatus == "queued"
RequeuedStatus == "planning"

\* _requeue, the UPDATE: a goal that finished meanwhile needs nothing more.
ReapRequeue(w) ==
    /\ rpc[w] = "unlocked" /\ w \notin reff /\ rdone[w] < MaxRequeues
    /\ \/ /\ status \in RUNNING_STATUSES
          /\ status' = RequeuedStatus /\ requeues' = rdone[w] + 1
          /\ rpc' = [rpc EXCEPT ![w] = "moved"]
       \/ /\ status \notin RUNNING_STATUSES
          /\ UNCHANGED <<status, requeues>>
          /\ rpc' = [rpc EXCEPT ![w] = "idle"]
    /\ UNCHANGED <<hb, runner, context, events, redis, broker, threads, pc,
                   rtoken, reff, rdone, operator, faults>>

\* _requeue, the enqueue: a broker error turns the requeue into a failure.
ReapEnqueue(w) ==
    /\ rpc[w] = "moved"
    /\ \/ /\ Publish(0) /\ NoFault
          /\ rpc' = [rpc EXCEPT ![w] = "idle"]
       \/ /\ Fault /\ UNCHANGED <<broker, pc>>
          /\ rpc' = [rpc EXCEPT ![w] = "failing"]
    /\ UNCHANGED <<row, events, redis, threads, rtoken, reff, rdone, operator>>

\* _fail: the UPDATE, then the events (an append that fails is ignored).
ReapFail(w) ==
    /\ \/ rpc[w] = "unlocked" /\ (w \in reff \/ rdone[w] >= MaxRequeues)
       \/ rpc[w] = "failing"
    /\ \/ /\ status \in RUNNING_STATUSES
          /\ status' = "failed" /\ events' \in {events, events \cup {"end"}}
          /\ rpc' = [rpc EXCEPT ![w] = "failed"]
       \/ /\ status \notin RUNNING_STATUSES
          /\ UNCHANGED <<status, events>>
          /\ rpc' = [rpc EXCEPT ![w] = "idle"]
    /\ RowButStatus
    /\ UNCHANGED <<redis, broker, threads, pc, rtoken, reff, rdone,
                   operator, faults>>

ReapSlot(w) ==
    /\ rpc[w] = "failed"
    /\ rpc' = [rpc EXCEPT ![w] = "idle"]
    /\ keys' = keys \ {"slot"}
    /\ UNCHANGED <<row, events, lock, broker, threads, pc, rtoken, reff,
                   rdone, operator, faults>>

ReaperCrash(w) ==
    /\ rpc[w] # "idle" /\ Fault
    /\ rpc' = [rpc EXCEPT ![w] = "idle"]
    /\ UNCHANGED <<row, events, redis, broker, threads, pc, rtoken, reff, rdone,
                   operator>>

\* The plan's goal timeout bounds every run that does not hang; the time in a pause
\* does not count.
Outlasts(r) == r \in wedged \/ (pc[r] = "paused" /\ "pause" \in keys)

\* A row idle past the plan's goal timeout for which no terminal event was stored.
MutantStuckExecuting ==
    /\ status = "executing" /\ "end" \notin events
    /\ \A r \in Runs : pc[r] \in Live => Outlasts(r)
IsStuck ==
    /\ status \in RUNNING_STATUSES /\ "end" \notin events
    /\ \A r \in Runs : pc[r] \in Live => Outlasts(r)

\* detect_stuck_goals.  It leaves the slot to its lease and stores no event.
DetectStuck ==
    /\ IsStuck
    /\ status' = "failed"
    /\ RowButStatus
    /\ UNCHANGED <<events, redis, broker, threads, pc, reapers, operator, faults>>

(***************************************************************************)
(* The operator (GoalService): read the row, set a flag in Redis, then     *)
(* write the row; a row that cannot be written withdraws the flag and      *)
(* answers 503.  Requests may overlap.                                     *)
(***************************************************************************)
Request(o, from, to) ==
    /\ ops < MaxOps /\ ops' = ops + 1
    /\ op[o] = "idle" /\ op' = [op EXCEPT ![o] = to]
    /\ status \in from /\ UNCHANGED confirmed

Answer(o, from) == op[o] \in from /\ op' = [op EXCEPT ![o] = "idle"] /\ UNCHANGED ops

\* A request that asked for the end of the goal found it unfinished and ended it.
Confirm(asked) == confirmed' = (confirmed \/ (asked /\ status \in ACTIVE_STATUSES))

\* cancel_goal; resume_goal(approved=False) of a goal with a paused runner.
CancelGoal(o) ==
    /\ \/ Request(o, ACTIVE_STATUSES, "cancel")
       \/ Request(o, {"waiting_human"}, "reject") /\ "suspended" \notin context
    /\ keys' = keys \cup {"cancel"}
    /\ UNCHANGED <<row, events, lock, broker, threads, pc, reapers, faults>>

\* _persist_cancelling_status; the terminal event it dispatches frees the slot.  A
\* goal that finished meanwhile keeps its status.
PersistCancel(o) ==
    /\ Answer(o, {"cancel", "reject"})
    /\ \/ /\ NoFault /\ SetStatus(IF op[o] = "cancel" THEN "cancelled" ELSE "failed")
          /\ events' = IF status \in TERMINAL_STATUSES THEN events ELSE events \cup {"end"}
          /\ keys' = IF status \in TERMINAL_STATUSES THEN keys ELSE keys \ {"slot"}
          /\ Confirm(op[o] = "cancel")
       \/ Fault /\ keys' = keys \ {"cancel"} /\ UNCHANGED <<status, events, confirmed>>
    /\ RowButStatus
    /\ UNCHANGED <<lock, broker, threads, pc, reapers>>

PauseGoal(o) ==
    /\ Request(o, RUNNING_STATUSES, "pause")
    /\ keys' = keys \cup {"pause"}
    /\ UNCHANGED <<row, events, lock, broker, threads, pc, reapers, faults>>

\* A goal that finished meanwhile has all its signals cleared (clear_signals).
PersistPause(o) ==
    /\ Answer(o, {"pause"})
    /\ \/ /\ NoFault /\ status \in ACTIVE_STATUSES
          /\ SetStatus("waiting_human") /\ UNCHANGED keys
       \/ /\ NoFault /\ status \in TERMINAL_STATUSES
          /\ keys' = keys \ {"pause", "cancel"} /\ UNCHANGED status
       \/ Fault /\ keys' = keys \ {"pause"} /\ UNCHANGED status
    /\ RowButStatus
    /\ UNCHANGED <<events, lock, broker, threads, pc, reapers, confirmed>>

\* resume_goal of a goal whose runner is taken to be blocked in its pause gate.
ResumeGoal(o) ==
    /\ Request(o, {"waiting_human"}, "resume") /\ "suspended" \notin context
    /\ keys' = keys \ {"pause"}
    /\ UNCHANGED <<row, events, lock, broker, threads, pc, reapers, faults>>

PersistResume(o) ==
    /\ Answer(o, {"resume"})
    /\ \/ NoFault /\ SetStatus("executing") /\ UNCHANGED keys
       \/ Fault /\ keys' = keys \cup {"pause"} /\ UNCHANGED status
    /\ RowButStatus
    /\ UNCHANGED <<events, lock, broker, threads, pc, reapers, confirmed>>

\* resume_goal of a suspended goal: take the slot again, leave waiting_human
\* BEFORE the message is published, so that a claim can refuse parked rows.
RelaunchGoal(o) ==
    /\ Request(o, {"waiting_human"}, "relaunch") /\ "suspended" \in context
    /\ keys' = keys \cup {"slot"}
    /\ SetStatus("executing") /\ context' = context \ {"suspended"}
    /\ UNCHANGED <<hb, runner, requeues, events, lock, broker, threads, pc,
                   reapers, faults>>

EnqueueRelaunch(o) ==
    /\ Answer(o, {"relaunch"})
    /\ \/ /\ Publish(0) /\ NoFault /\ UNCHANGED <<status, context, keys>>
       \/ /\ Fault /\ UNCHANGED <<broker, pc>>             \* _restore_suspended
          /\ SetStatus("waiting_human")
          /\ context' = context \cup {"suspended"} /\ keys' = keys \ {"slot"}
    /\ UNCHANGED <<hb, runner, requeues, events, lock, threads, reapers, confirmed>>

\* resume_goal(approved=False) of a suspended goal: no runner to signal.
RejectSuspended ==
    /\ ops < MaxOps /\ ops' = ops + 1
    /\ status = "waiting_human" /\ "suspended" \in context
    /\ SetStatus("failed") /\ RowButStatus
    /\ events' = events \cup {"end"} /\ keys' = keys \ {"slot"}
    /\ UNCHANGED <<lock, broker, threads, pc, reapers, op, confirmed, faults>>

\* The kill switch: first the stop flag, which every gate reads; then the endpoint
\* cancels each goal that is still active, as cancel_goal does.
EmergencyStop(o) ==
    /\ Request(o, Status, "stop")
    /\ keys' = keys \cup {"stop"}
    /\ UNCHANGED <<row, events, lock, broker, threads, pc, reapers, faults>>

\* A goal beyond the request's page, or that it cannot cancel, is left to a task.
StopCancels(o) ==
    /\ op[o] = "stop" /\ UNCHANGED <<ops, confirmed>>
    /\ \/ /\ status \in ACTIVE_STATUSES /\ NoFault
          /\ op' = [op EXCEPT ![o] = "cancel"] /\ keys' = keys \cup {"cancel"}
       \/ /\ status \in TERMINAL_STATUSES /\ NoFault
          /\ op' = [op EXCEPT ![o] = "idle"] /\ UNCHANGED keys
       \/ NoFault /\ op' = [op EXCEPT ![o] = "batch"] /\ UNCHANGED keys
    /\ UNCHANGED <<row, events, lock, broker, threads, pc, reapers>>

\* cancel_goals_under_stop: the cancel flag (a failure is only counted) ...
BatchCancel(o) ==
    /\ op[o] = "batch" /\ UNCHANGED <<ops, confirmed>>
    /\ \/ /\ status \in ACTIVE_STATUSES /\ op' = [op EXCEPT ![o] = "batched"]
          /\ \/ keys' = keys \cup {"cancel"} /\ NoFault
             \/ Fault /\ UNCHANGED keys
       \/ /\ status \in TERMINAL_STATUSES /\ NoFault
          /\ op' = [op EXCEPT ![o] = "idle"] /\ UNCHANGED keys
    /\ UNCHANGED <<row, events, lock, broker, threads, pc, reapers>>

\* ... then one conditional UPDATE; it stores no event and frees no slot.
PersistBatch(o) ==
    /\ Answer(o, {"batched"})
    /\ SetStatus("cancelled") /\ RowButStatus /\ Confirm(TRUE)
    /\ UNCHANGED <<events, redis, broker, threads, pc, reapers, faults>>

LiftStop ==
    /\ StopLifted /\ "stop" \in keys /\ keys' = keys \ {"stop"}
    /\ UNCHANGED <<row, events, lock, broker, threads, pc, reapers, operator, faults>>

(***************************************************************************)
(* The specification.                                                      *)
(***************************************************************************)
RunStep(r) ==
    \/ StartBlocked(r) \/ StartRetry(r) \/ AcquireLock(r) \/ LockUnavailable(r)
    \/ Claim(r) \/ ClaimError(r) \/ MarkStarted(r) \/ SetupFailed(r) \/ StartHeartbeat(r)
    \/ CancelledEarly(r) \/ EnterGraph(r) \/ StepGate(r) \/ PauseEnds(r)
    \/ LedgerCheck(r) \/ ToolCall(r) \/ ToolEvent(r) \/ ToolRecord(r) \/ StepEnds(r)
    \/ \E s \in {"complete", "failed", "waiting_human"} : RecordEnd(r, s)
    \/ MarkSuspended(r) \/ Cancelled(r)
    \/ RunError(r) \/ FailRun(r) \/ RetryRun(r) \/ CloseRun(r) \/ ReleaseRun(r)

WorkerFault(r) == Crash(r) \/ Wedge(r) \/ Unwedge(r) \/ Redeliver(r)

ReapStep(w) ==
    \/ ReapClaim(w) \/ ReapUnlock(w) \/ ReapRequeue(w) \/ ReapEnqueue(w)
    \/ ReapFail(w) \/ ReapSlot(w)

OperatorStep(o) ==
    \/ CancelGoal(o) \/ PersistCancel(o) \/ PauseGoal(o) \/ PersistPause(o)
    \/ ResumeGoal(o) \/ PersistResume(o) \/ RelaunchGoal(o) \/ EnqueueRelaunch(o)
    \/ EmergencyStop(o) \/ StopCancels(o) \/ BatchCancel(o) \/ PersistBatch(o)

Next ==
    \/ \E r \in Runs : RunStep(r) \/ BeatRow(r) \/ WorkerFault(r)
    \/ \E w \in Reapers : ReapStep(w) \/ ReaperCrash(w)
    \/ \E o \in Operators : OperatorStep(o)
    \/ DeadLetter \/ BeatGoesStale \/ LockExpires \/ DetectStuck
    \/ RejectSuspended \/ LiftStop

Spec == Init /\ [][Next]_vars

\* What the deployment keeps going: a worker that is not hung runs on, at most until
\* the goal's timeout, Celery hands a dead worker's message out again, and beat
\* schedules both watchdogs.  Nothing says that a hung worker recovers or that an
\* operator asks for anything, or that a request once begun is finished.
Fairness ==
    /\ \A r \in Runs : /\ WF_vars(RunStep(r)) /\ WF_vars(RecordEnd(r, "failed"))
                       /\ WF_vars(BeatRow(r))
                       /\ WF_vars(pc[r] = "dead" /\ Redeliver(r))
    /\ \A w \in Reapers : WF_vars(ReapStep(w))
    /\ WF_vars(BeatGoesStale) /\ WF_vars(LockExpires)
    /\ WF_vars(DetectStuck) /\ WF_vars(DeadLetter)

FairSpec == Spec /\ Fairness

(***************************************************************************)
(* Properties.                                                             *)
(***************************************************************************)

\* The goal table keeps its promise whoever writes the row: the workers through
\* _db_update_goal_status, the claim, the dead-letter handler, both watchdogs and the
\* operators with SQL of their own.  No interleaving moves a goal off a terminal status.
Lifecycle == INSTANCE GoalLifecycle WITH status <- status
ImplementsLifecycle == Lifecycle!Spec

\* The execution lock and the row's runner_token together exclude a second run: until
\* its first heartbeat a run holds the lock; if a run that is still working no longer
\* holds it (a watchdog took it for hung and it woke up), then the row is not its own
\* and its heartbeat thread can never take the row back, whatever retries, duplicates,
\* requeues and reapers do meanwhile.
LockOrDisowned ==
    \A r \in Runs :
        /\ pc[r] \in Setup => lock = r
        /\ pc[r] \in Working /\ lock # r => runner # r /\ beat[r] \notin FirstBeat

\* The concurrency slot is given back only by a way out that also ends the goal: no
\* retry, requeue, duplicate or refused relaunch frees the slot of a goal that still
\* has no terminal status and for which no end was ever recorded.
SlotWhileUnfinished ==
    "slot" \notin keys => "end" \in events \/ status \in TERMINAL_STATUSES

\* Overlapping reapers (several replicas, or a slow one and the next beat) never work
\* on the same lost runner: one UPDATE claims it, and the token can never come back.
OneReaperPerRunner ==
    \A v, w \in Reapers :
        v # w /\ rpc[v] # "idle" /\ rpc[w] # "idle" => rtoken[v] # rtoken[w]

\* Whatever dies, hangs or is delivered twice, a goal for which no end was recorded
\* does not stay "planning" or "executing" for ever: a run ends it, or a watchdog does.
UnfinishedGoalSettles ==
    (status \in RUNNING_STATUSES /\ "end" \notin events)
        ~> (status \notin RUNNING_STATUSES \/ "end" \in events)

\* Once a cancel, or an emergency stop that stays in force, has been confirmed to the
\* operator who asked for it alone, no run passes a step gate any more: not one that
\* was working, not a retry, a duplicate, a requeued run or one that a watchdog gave
\* up.  Tools are then called at most by runs inside the step they were in, until the
\* signal poll ends it.  The one exception is a run that a pause holds at its gate: it
\* does not see a stop that could not set the cancel flag.
NoStepAfterCancel ==
    [][\A r \in Runs :
          pc[r] \in {"running", "paused"} /\ pc'[r] = "stepping" =>
             ~confirmed \/ (pc[r] = "paused" /\ "cancel" \notin keys)]_vars

\* The reaper re-runs a goal only when it never ran a tool, so that the re-run cannot
\* repeat a side effect.
RequeuedRanNoTool ==
    [][requeues' > requeues => \A r \in Runs : r \notin called]_vars

\* Resuming a paused goal releases a runner that waits in its pause gate, or one that
\* has yet to start: a goal reported as resumed has somebody to run it.
ResumedGoalHasRunner ==
    [][\A o \in Operators :
          op[o] = "resume" /\ op'[o] = "idle" /\ status' = "executing" =>
             \E r \in Runs : pc[r] \in Live \cup {"queued"}]_vars

(***************************************************************************)
(* The invariants behind the proofs (GoalRunnerProofs).                    *)
(***************************************************************************)
Early == {"unsent", "queued"} \cup Setup

\* A claimed row names its runner.
ClaimedRowHasRunner == hb # "null" => runner # NoRun

\* Messages are numbered in the order of their publication.
UnsentAreLater == \A r \in Runs : r > deliveries => pc[r] = "unsent"

\* A run takes the row over at most once, and not before it starts its heartbeat.
FirstBeatIsNew ==
    \A r \in Runs : /\ runner = r => beat[r] \notin FirstBeat
                    /\ pc[r] \in Early => runner # r /\ beat[r] = "off"

\* A token in a reaper's hands is in nobody else's, and can never come back.
ReapedTokenIsDead ==
    \A r \in Runs, w \in Reapers :
        rpc[w] # "idle" /\ rtoken[w] = r =>
            runner # r /\ beat[r] \notin FirstBeat /\ pc[r] \notin Early

\* LockOrDisowned and OneReaperPerRunner, made inductive.
Exclusion ==
    /\ LockOrDisowned /\ OneReaperPerRunner
    /\ ClaimedRowHasRunner /\ UnsentAreLater /\ FirstBeatIsNew /\ ReapedTokenIsDead

\* Whoever is about to free the slot has recorded the goal's end before.
SlotOrder ==
    /\ SlotWhileUnfinished
    /\ \A r \in Runs :
        pc[r] = "closing" => "end" \in events \/ status \in TERMINAL_STATUSES
    /\ \A w \in Reapers : rpc[w] = "failed" => status \in TERMINAL_STATUSES
    /\ "suspended" \in context => "end" \in events
    /\ \A o \in Operators : op[o] = "relaunch" => "end" \in events

\* Every gate reads a flag that nobody is left to withdraw once a cancel is confirmed.
CancelStands ==
    /\ \A o \in Operators : op[o] = "cancel" => "cancel" \in keys
    /\ \A o \in Operators : op[o] \in {"stop", "batch", "batched"} => "stop" \in keys
    /\ confirmed => /\ status = "cancelled" /\ keys \cap {"cancel", "stop"} # {}
                    /\ \A o \in Operators : op[o] \in {"idle", "stop", "batch"}
=============================================================================
