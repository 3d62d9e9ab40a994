---------------------------- MODULE WorkflowRun ----------------------------
(***************************************************************************)
(* One run of a workflow (app/workflow): the tasks that execute it, the    *)
(* Redis lease that keeps them apart, the rows of its run, steps and       *)
(* approvals, and everybody who writes those rows: reviewers, operators,   *)
(* the approval SLA sweep, the timer beat, event emitters and the sweep    *)
(* for stuck runs.  The workflow is a chain of steps, each depending on    *)
(* the one before.                                                         *)
(*                                                                         *)
(* An action is one transaction, one Redis command or one call of a step.  *)
(* A node's two reads and its start row are one action: a request that     *)
(* lands between them is a request that lands just after.  Time is not     *)
(* counted: a deadline, a TTL or an SLA may pass at any moment.            *)
(***************************************************************************)
EXTENDS Naturals

CONSTANTS
    NSteps,         \* the chain of steps 1 .. NSteps
    GateSteps,      \* approval steps (type hitl)
    DefaultGates,   \* those with on_failure use_default and a default that approves
    WaitSteps,      \* durable waits (type wait, longer than 30 s)
    EventSteps,     \* the waits that wait on an event channel
    TimeoutActions, \* timeout_action of the approval steps
    MaxTasks,       \* bound: execute_workflow_run tasks queued or running at once
    MaxApprovals,   \* bound: approvals open at once
    MaxTrouble,     \* bound: a budget for operator requests, faults and lost leases,
    OpCost, FaultCost, LossCost     \* and what one of each takes from it

ASSUME WorkflowAssumption ==
    /\ NSteps \in Nat \ {0} /\ GateSteps \subseteq 1 .. NSteps
    /\ DefaultGates \subseteq GateSteps
    /\ WaitSteps \subseteq (1 .. NSteps) \ GateSteps /\ EventSteps \subseteq WaitSteps
    /\ TimeoutActions \subseteq {"escalate", "auto_approve", "auto_reject", "pause"}
    /\ MaxTasks \in Nat \ {0} /\ MaxApprovals \in Nat \ {0}
    /\ MaxTrouble \in Nat /\ OpCost \in Nat /\ FaultCost \in Nat /\ LossCost \in Nat

VARIABLES
    status,         \* workflow_runs.status
    slaPause,       \* run_metadata.hitl_timeout_pause.step_id (0: absent)
    wake,           \* wake_at: "null", "later" or "due"
    timer,          \* run_metadata.timer_waits: "none", "future" or "past"
    waiting,        \* run_metadata.event_waits
    delivered,      \* run_metadata.event_deliveries
    done,           \* steps whose latest result row releases the next step
    skipped,        \* approval steps whose latest result row is a failure that holds it
    effect,         \* history: how often a step's call succeeded
    defaulted,      \* history: approval steps whose failure took their approving default
    appr,           \* open approvals: pending, pending past its SLA, or decided and not dispatched
    granted,        \* history: approval steps that somebody approved
    lease,          \* wfrun_lease: Free, the task that holds it, or Orphan (its worker died)
    evicted,        \* history: tasks at work whose lease Redis lost
    pc, at, out,    \* each task: where it is, its step, what it will write
    dec,            \* the decision in its payload (hitl_decision)
    op,             \* an operator's request
    woken,          \* the timer beat has claimed the run and not yet dispatched it
    lost,           \* history: a decision's task or a lease was lost, or a start unrecorded
    trouble,        \* how much of the budget is used
    faults          \* history: how many faults and lost leases there were

meta  == <<slaPause, wake, timer, waiting, delivered>>
rows  == <<done, skipped, effect, defaulted>>
gates == <<appr, granted>>
redis == <<lease, evicted>>
tasks == <<pc, at, out, dec>>
desk  == <<op, woken>>
vars == <<status, meta, rows, gates, redis, tasks, desk, lost, trouble, faults>>

Steps == 1 .. NSteps
Tasks == 1 .. MaxTasks
Approvals == 1 .. MaxApprovals
Free == 0
Orphan == MaxTasks + 1

Terminal == {"complete", "failed", "cancelled"}
Live == {"pending", "running", "waiting_hitl", "waiting_timer", "paused"}

Undecided == [gate |-> 0, action |-> "none"]
Decision == [gate : GateSteps, action : {"approve", "reject"}] \cup {Undecided}
NoApproval == [gate |-> 0, state |-> "none"]
Approval ==
    [gate : GateSteps, state : {"pending", "overdue", "approve", "reject"}] \cup {NoApproval}
IsPending(i) == appr[i].state \in {"pending", "overdue"}

TypeOK ==
    /\ status \in Live \cup Terminal /\ slaPause \in {0} \cup GateSteps
    /\ wake \in {"null", "later", "due"} /\ timer \in [WaitSteps -> {"none", "future", "past"}]
    /\ waiting \subseteq EventSteps /\ delivered \subseteq EventSteps
    /\ done \subseteq Steps /\ skipped \subseteq GateSteps /\ effect \in [Steps -> Nat]
    /\ defaulted \subseteq DefaultGates
    /\ appr \in [Approvals -> Approval] /\ granted \subseteq GateSteps
    /\ lease \in {Free, Orphan} \cup Tasks /\ evicted \subseteq Tasks
    /\ pc \in [Tasks -> {"free", "queued", "loading", "step", "called", "register", "record",
                         "finish", "release"}]
    /\ at \in [Tasks -> Steps]
    /\ out \in [Tasks -> {"done", "skipped", "complete", "failed", "paused", "waiting_hitl",
                          "waiting_timer"}]
    /\ dec \in [Tasks -> Decision]
    /\ op \in {"idle", "pause", "resume", "regate", "dispatch"} /\ woken \in BOOLEAN
    /\ lost \in BOOLEAN /\ trouble \in Nat /\ faults \in Nat

\* WorkflowRunner.run has inserted the row and dispatched its task.
Init ==
    /\ status = "pending" /\ slaPause = 0 /\ wake = "null"
    /\ timer = [s \in WaitSteps |-> "none"] /\ waiting = {} /\ delivered = {}
    /\ done = {} /\ skipped = {} /\ effect = [s \in Steps |-> 0] /\ defaulted = {}
    /\ appr = [i \in Approvals |-> NoApproval] /\ granted = {}
    /\ lease = Free /\ evicted = {}
    /\ pc = [t \in Tasks |-> IF t = 1 THEN "queued" ELSE "free"]
    /\ at = [t \in Tasks |-> 1] /\ out = [t \in Tasks |-> "done"]
    /\ dec = [t \in Tasks |-> Undecided]
    /\ op = "idle" /\ woken = FALSE /\ lost = FALSE /\ trouble = 0 /\ faults = 0

Spend(cost) == trouble + cost <= MaxTrouble /\ trouble' = trouble + cost
Fault == Spend(FaultCost) /\ faults' = faults + 1
NoFault == UNCHANGED <<trouble, faults>>

(***************************************************************************)
(* Statements that several actions share.                                  *)
(***************************************************************************)

\* update_status: from is only_from (every live status when it is None); a terminal
\* status is never replaced, and entering one withdraws the pending approvals.
MutantWithdrawsAlways(s) ==
    [i \in Approvals |-> IF IsPending(i) THEN NoApproval ELSE appr[i]]
Withdrawn(s) ==
    [i \in Approvals |-> IF s \in Terminal /\ IsPending(i) THEN NoApproval ELSE appr[i]]
MutantOverwritesTerminal(s, from) ==
    IF from = Live \/ status \in from
    THEN status' = s /\ appr' = Withdrawn(s)
    ELSE UNCHANGED <<status, appr>>
UpdateStatus(s, from) ==
    IF status \in from
    THEN status' = s /\ appr' = Withdrawn(s)
    ELSE UNCHANGED <<status, appr>>

\* execute_workflow_run.apply_async.
Dispatch(t, d) ==
    /\ pc[t] = "free" /\ \A u \in 1 .. t - 1 : pc[u] # "free"
    /\ pc' = [pc EXCEPT ![t] = "queued"] /\ dec' = [dec EXCEPT ![t] = d]
    /\ UNCHANGED <<at, out>>

Goto(t, from, to) == pc[t] = from /\ pc' = [pc EXCEPT ![t] = to]

\* A worker is inside the task, between the lease's SET NX and its release.
Executing(t) == pc[t] \notin {"free", "queued"}

(***************************************************************************)
(* execute_workflow_run: the lease around a run.                           *)
(***************************************************************************)

Acquire(t) ==
    /\ lease = Free /\ Goto(t, "queued", "loading")
    /\ lease' = t
    /\ UNCHANGED <<status, meta, rows, gates, evicted, at, out, dec, desk, lost, trouble, faults>>

\* The lease stayed busy, or Redis unreachable, through every retry: the task returns.
GiveUp(t) ==
    /\ IF lease = Free THEN Fault ELSE NoFault
    /\ Goto(t, "queued", "free") /\ dec' = [dec EXCEPT ![t] = Undecided]
    /\ lost' = (lost \/ dec[t] # Undecided)
    /\ UNCHANGED <<status, meta, rows, gates, redis, at, out, desk>>

\* release: only the owner deletes the key.
MutantReleasesAnyOwner(t) == lease' = Free
ReleaseLease(t) == lease' = IF lease = t THEN Free ELSE lease

Release(t) ==
    /\ Goto(t, "release", "free") /\ ReleaseLease(t)
    /\ dec' = [dec EXCEPT ![t] = Undecided] /\ evicted' = evicted \ {t}
    /\ UNCHANGED <<status, meta, rows, gates, at, out, desk, lost, trouble, faults>>

Leave(t) ==
    /\ pc' = [pc EXCEPT ![t] = "release"] /\ at' = [at EXCEPT ![t] = 1]
    /\ out' = [out EXCEPT ![t] = "done"]

\* An exception that leaves the task: the message is acked, the row is left as it is.
TaskFails(t) ==
    /\ pc[t] \in {"loading", "finish"} /\ Leave(t) /\ Fault
    /\ lost' = (lost \/ dec[t] # Undecided)
    /\ UNCHANGED <<status, meta, rows, gates, redis, dec, desk>>

\* The worker dies: its message returns to the queue (reject_on_worker_lost) or is gone
\* until the broker's visibility timeout, and its lease is renewed by nobody.
WorkerDies(t) ==
    /\ Executing(t) /\ Fault
    /\ lease' = IF lease = t THEN Orphan ELSE lease
    /\ evicted' = evicted \ {t} /\ at' = [at EXCEPT ![t] = 1] /\ out' = [out EXCEPT ![t] = "done"]
    /\ \/ pc' = [pc EXCEPT ![t] = "queued"] /\ UNCHANGED <<dec, lost>>
       \/ /\ pc' = [pc EXCEPT ![t] = "free"] /\ dec' = [dec EXCEPT ![t] = Undecided]
          /\ lost' = (lost \/ dec[t] # Undecided)
    /\ UNCHANGED <<status, meta, rows, gates, desk>>

\* The TTL of a lease that nobody renews.
LeaseExpires ==
    /\ lease = Orphan /\ lease' = Free
    /\ UNCHANGED <<status, meta, rows, gates, evicted, tasks, desk, lost, trouble, faults>>

\* Redis loses the key, or is away for longer than the TTL: the renewer logs it and ends.
LeaseLost(t) ==
    /\ lease = t /\ Executing(t) /\ Spend(LossCost) /\ faults' = faults + 1
    /\ lease' = Free /\ evicted' = evicted \cup {t} /\ lost' = TRUE
    /\ UNCHANGED <<status, meta, rows, gates, tasks, desk>>

(***************************************************************************)
(* execute_fresh and execute_resume_fresh: the run row around the graph.   *)
(***************************************************************************)

\* The statuses from which a task may set the run to running.
StartableFrom(t) ==
    IF dec[t] = Undecided THEN {"pending", "running"}
    ELSE {"pending", "running", "waiting_hitl"}
             \cup (IF slaPause = dec[t].gate THEN {"paused"} ELSE {})

Start(t) ==
    /\ pc[t] = "loading"
    /\ UpdateStatus("running", StartableFrom(t))
    /\ pc' = [pc EXCEPT ![t] = IF status \in StartableFrom(t) THEN "step" ELSE "release"]
    /\ UNCHANGED <<meta, rows, granted, redis, at, out, dec, desk, lost, trouble, faults>>

\* execute_fresh suppresses the errors of its read and of its write: it goes on.
StartUnrecorded(t) ==
    /\ Goto(t, "loading", "step") /\ dec[t] = Undecided /\ Fault /\ lost' = TRUE
    /\ UNCHANGED <<status, meta, rows, gates, redis, at, out, dec, desk>>

\* _finalize_status and _fail_run write how the graph ended.
Finalize(t) ==
    /\ pc[t] = "finish" /\ Leave(t) /\ UpdateStatus(out[t], Live)
    /\ UNCHANGED <<meta, rows, granted, redis, dec, desk, lost, trouble, faults>>

(***************************************************************************)
(* node_fn: a step of the graph.                                           *)
(***************************************************************************)

MutantNoLastStep(t, held) ==
    IF held
    THEN /\ pc' = [pc EXCEPT ![t] = "finish"] /\ out' = [out EXCEPT ![t] = "complete"]
         /\ UNCHANGED at
    ELSE /\ pc' = [pc EXCEPT ![t] = "step"] /\ at' = [at EXCEPT ![t] = @ + 1]
         /\ out' = [out EXCEPT ![t] = "done"]

\* The chain goes on with the next step; after a gate that was skipped (or took a default
\* that approves nothing) every later step is held by the approval barrier, and the graph
\* ends.
Proceed(t, held) ==
    IF at[t] = NSteps \/ held
    THEN /\ pc' = [pc EXCEPT ![t] = "finish"] /\ out' = [out EXCEPT ![t] = "complete"]
         /\ UNCHANGED at
    ELSE /\ pc' = [pc EXCEPT ![t] = "step"] /\ at' = [at EXCEPT ![t] = @ + 1]
         /\ out' = [out EXCEPT ![t] = "done"]

\* get_step_result finds the step finished: its recorded output is replayed.
Replay(t) ==
    /\ pc[t] = "step" /\ at[t] \in done \cup skipped
    /\ Proceed(t, at[t] \in skipped)
    /\ UNCHANGED <<status, meta, rows, gates, redis, dec, desk, lost, trouble, faults>>

\* WorkflowCancelled and WorkflowPaused leave the graph and the row alone.
Stopped(t) ==
    /\ pc[t] = "step" /\ Leave(t) /\ at[t] \notin done \cup skipped
    /\ status \in {"cancelled", "paused"}
    /\ UNCHANGED <<status, meta, rows, gates, redis, dec, desk, lost, trouble, faults>>

BeginStep(t) ==
    /\ Goto(t, "step", "called") /\ at[t] \notin done \cup skipped
    /\ status \notin {"cancelled", "paused"}
    /\ UNCHANGED <<status, meta, rows, gates, redis, at, out, dec, desk, lost, trouble, faults>>

\* Both reads are suppressed when they fail: the step starts, finished or not.  Its start
\* row becomes its latest row, unless it had been started a second time before.
BeginUnread(t) ==
    /\ Goto(t, "step", "called") /\ Fault
    /\ \/ done' = done \ {at[t]} /\ skipped' = skipped \ {at[t]}
       \/ UNCHANGED <<done, skipped>>
    /\ UNCHANGED <<status, meta, effect, defaulted, gates, redis, at, out, dec, desk, lost>>

Result(t, from, r) == Goto(t, from, "record") /\ out' = [out EXCEPT ![t] = r]

WorkSucceeds(t) ==
    /\ at[t] \notin GateSteps \cup WaitSteps /\ Result(t, "called", "done")
    /\ effect' = [effect EXCEPT ![at[t]] = @ + 1]
    /\ UNCHANGED <<status, meta, done, skipped, defaulted, gates, redis, at, dec, desk, lost,
                   trouble, faults>>

\* The step stopped trying: on_failure skip or use_default, pause, abort.  An approval or
\* a wait fails only when one of its own statements does.
StepFails(t) ==
    /\ \E r \in {"skipped", "paused", "failed"} : Result(t, "called", r)
    /\ IF at[t] \in GateSteps \cup WaitSteps THEN Fault ELSE NoFault
    /\ UNCHANGED <<status, meta, rows, gates, redis, at, dec, desk, lost>>

\* on_failure_default becomes the output of a failed approval.  One whose action approves
\* is taken for a decision by the barrier and the router; any other one holds what comes
\* after, like a skip.
DefaultApproves(t) ==
    /\ at[t] \in DefaultGates /\ Result(t, "called", "done") /\ Fault
    /\ defaulted' = defaulted \cup {at[t]}
    /\ UNCHANGED <<status, meta, done, skipped, effect, gates, redis, at, dec, desk, lost>>

\* HITLStepNode.execute: the reviewer's decision, if this task carries one for the step ...
MutantRejectionProceeds(t) == "done"
Verdict(t) == IF dec[t].action = "approve" THEN "done" ELSE "failed"

ProcessDecision(t) ==
    /\ at[t] \in GateSteps /\ dec[t].gate = at[t] /\ Result(t, "called", Verdict(t))
    /\ UNCHANGED <<status, meta, rows, gates, redis, at, dec, desk, lost, trouble, faults>>

\* ... otherwise a new approval, and the run will wait for it.
CreateApproval(t, i) ==
    /\ at[t] \in GateSteps /\ dec[t].gate # at[t] /\ Result(t, "called", "waiting_hitl")
    /\ appr[i] = NoApproval /\ \A j \in 1 .. i - 1 : appr[j] # NoApproval
    /\ appr' = [appr EXCEPT ![i] = [gate |-> at[t], state |-> "pending"]]
    /\ UNCHANGED <<status, meta, rows, granted, redis, at, dec, desk, lost, trouble, faults>>

\* WaitStepNode: the event was delivered or the deadline has passed ...
WaitOver(t) ==
    /\ at[t] \in WaitSteps /\ (at[t] \in delivered \/ timer[at[t]] = "past")
    /\ Result(t, "called", "done")
    /\ waiting' = IF at[t] \in delivered THEN waiting ELSE waiting \ {at[t]}
    /\ UNCHANGED <<status, slaPause, wake, timer, delivered, rows, gates, redis, at, dec, desk,
                   lost, trouble, faults>>

\* ... or not: after those reads it registers the wait (set_timer_wait or
\* register_event_wait), which keeps the first deadline and the earliest wake_at.
WaitGoesOn(t) ==
    /\ at[t] \in WaitSteps /\ at[t] \notin delivered /\ timer[at[t]] # "past"
    /\ Goto(t, "called", "register")
    /\ UNCHANGED <<status, meta, rows, gates, redis, at, out, dec, desk, lost, trouble, faults>>

KeepEarliestWake(t) == wake' = IF wake = "due" \/ timer[at[t]] = "past" THEN "due" ELSE "later"

RegisterWait(t) ==
    /\ Result(t, "register", "waiting_timer") /\ KeepEarliestWake(t)
    /\ timer' = [timer EXCEPT ![at[t]] = IF @ = "none" THEN "future" ELSE @]
    /\ waiting' = waiting \cup ({at[t]} \cap EventSteps)
    /\ UNCHANGED <<status, slaPause, delivered, rows, gates, redis, at, dec, desk, lost, trouble, faults>>

\* record_step_finish on the latest row of the step, whoever wrote it last; then the next
\* step, or the status that the step asked for.
MutantRecordsNothing(t) == UNCHANGED <<done, skipped>>
Recorded(t) ==
    /\ done' = IF out[t] = "done" \/ (out[t] = "skipped" /\ at[t] \notin GateSteps)
               THEN done \cup {at[t]} ELSE done \ {at[t]}
    /\ skipped' = IF out[t] = "skipped" /\ at[t] \in GateSteps
                  THEN skipped \cup {at[t]} ELSE skipped \ {at[t]}

AfterStep(t) ==
    IF out[t] \in {"done", "skipped"}
    THEN Proceed(t, out[t] = "skipped" /\ at[t] \in GateSteps)
    ELSE pc' = [pc EXCEPT ![t] = "finish"] /\ UNCHANGED <<at, out>>

RecordStep(t) ==
    /\ pc[t] = "record" /\ Recorded(t) /\ AfterStep(t)
    /\ UNCHANGED <<status, meta, effect, defaulted, gates, redis, dec, desk, lost, trouble,
                   faults>>

\* A result that cannot be stored is logged, and the graph goes on.
RecordFails(t) ==
    /\ pc[t] = "record" /\ AfterStep(t) /\ Fault
    /\ UNCHANGED <<status, meta, rows, gates, redis, dec, desk, lost>>

(***************************************************************************)
(* Reviewers and the approval SLA sweep.                                   *)
(***************************************************************************)

\* decide_if_pending: the approval is pending and its run has not ended.
Decidable(i) == IsPending(i) /\ status \notin Terminal

Decided(i, action) ==
    /\ appr' = [appr EXCEPT ![i].state = action]
    /\ granted' = IF action = "approve" THEN granted \cup {appr[i].gate} ELSE granted

Decide(i) ==
    /\ Decidable(i) /\ \E a \in {"approve", "reject"} : Decided(i, a)
    /\ UNCHANGED <<status, meta, rows, redis, tasks, desk, lost, trouble, faults>>

\* claim_timeout: once for each approval that is pending past its deadline.
SlaExpires(i) ==
    /\ appr[i].state = "pending" /\ status \in Terminal
    /\ appr' = [appr EXCEPT ![i] = NoApproval]
    /\ UNCHANGED <<status, meta, rows, granted, redis, tasks, desk, lost, trouble, faults>>

MutantEscalatesEnded(i) ==
    /\ "escalate" \in TimeoutActions /\ appr[i].state = "pending"
    /\ appr' = [appr EXCEPT ![i].state = "overdue"]
    /\ UNCHANGED <<status, meta, rows, granted, redis, tasks, desk, lost, trouble, faults>>
SlaEscalates(i) ==
    /\ "escalate" \in TimeoutActions /\ appr[i].state = "pending" /\ status \in Live
    /\ appr' = [appr EXCEPT ![i].state = "overdue"]
    /\ UNCHANGED <<status, meta, rows, granted, redis, tasks, desk, lost, trouble, faults>>

SlaDecides(i) ==
    /\ appr[i].state = "pending" /\ status \in Live
    /\ \/ "auto_approve" \in TimeoutActions /\ Decided(i, "approve")
       \/ "auto_reject" \in TimeoutActions /\ Decided(i, "reject")
    /\ UNCHANGED <<status, meta, rows, redis, tasks, desk, lost, trouble, faults>>

\* A run that has not finished suspending is left to the next sweep.
SlaPauses(i) ==
    /\ "pause" \in TimeoutActions /\ appr[i].state = "pending"
    /\ status \in Live \ {"pending", "running"}
    /\ appr' = [appr EXCEPT ![i].state = "overdue"]
    /\ IF status = "waiting_hitl"
       THEN status' = "paused" /\ slaPause' = appr[i].gate
       ELSE UNCHANGED <<status, slaPause>>
    /\ UNCHANGED <<wake, timer, waiting, delivered, rows, granted, redis, tasks, desk, lost, trouble, faults>>

\* resume_from_hitl: after the decision is recorded, its task is dispatched ...
ResumeFromHitl(i, t) ==
    /\ appr[i].state \in {"approve", "reject"}
    /\ Dispatch(t, [gate |-> appr[i].gate, action |-> appr[i].state])
    /\ appr' = [appr EXCEPT ![i] = NoApproval]
    /\ UNCHANGED <<status, meta, rows, granted, redis, desk, lost, trouble, faults>>

\* ... unless the process dies or the broker refuses: nobody dispatches it again.
ResumeNotSent(i) ==
    /\ appr[i].state \in {"approve", "reject"} /\ Fault
    /\ appr' = [appr EXCEPT ![i] = NoApproval] /\ lost' = TRUE
    /\ UNCHANGED <<status, meta, rows, granted, redis, tasks, desk>>

(***************************************************************************)
(* Operators.  pause_run and resume_run read the row and write it in a     *)
(* later transaction, without a condition on what they read.               *)
(***************************************************************************)

Request(guard, next) ==
    /\ op = "idle" /\ guard /\ op' = next /\ Spend(OpCost)
    /\ UNCHANGED <<status, meta, rows, gates, redis, tasks, woken, lost, faults>>

PauseRead == Request(status \in {"pending", "running"}, "pause")
ResumeRead == Request(status = "paused", IF slaPause = 0 THEN "resume" ELSE "regate")

PauseWrite ==
    /\ op = "pause" /\ op' = "idle" /\ UpdateStatus("paused", Live)
    /\ UNCHANGED <<meta, rows, granted, redis, tasks, woken, lost, trouble, faults>>

ResumeWrite ==
    /\ op = "resume" /\ UpdateStatus("running", Live)
    /\ op' = IF status \in Live THEN "dispatch" ELSE "idle"
    /\ UNCHANGED <<meta, rows, granted, redis, tasks, woken, lost, trouble, faults>>

\* A run that the SLA sweep paused returns to its approval.
RegateWrite ==
    /\ op = "regate" /\ UpdateStatus("waiting_hitl", {"paused"})
    /\ op' = IF status = "paused" THEN "dispatch" ELSE "idle"
    /\ UNCHANGED <<meta, rows, granted, redis, tasks, woken, lost, trouble, faults>>

\* The route reads the row again and dispatches the run unless it waits for an approval.
ResumeDispatch(t) ==
    /\ op = "dispatch" /\ op' = "idle"
    /\ IF status = "waiting_hitl" THEN UNCHANGED tasks ELSE Dispatch(t, Undecided)
    /\ UNCHANGED <<status, meta, rows, gates, redis, woken, lost, trouble, faults>>

\* The broker refuses, or the process ends first: the answer is a warning at the most.
ResumeDispatchFails ==
    /\ op = "dispatch" /\ op' = "idle"
    /\ UNCHANGED <<status, meta, rows, gates, redis, tasks, woken, lost, trouble, faults>>

CancelRun ==
    /\ status \in Live /\ Spend(OpCost) /\ UpdateStatus("cancelled", Live)
    /\ UNCHANGED <<meta, rows, granted, redis, tasks, op, woken, lost, faults>>

(***************************************************************************)
(* Timers, events and the sweep for stuck runs.                            *)
(***************************************************************************)

\* A wait's deadline passes, and with it the wake_at that was computed from it.
DeadlinePasses(s) ==
    /\ timer[s] = "future" /\ timer' = [timer EXCEPT ![s] = "past"]
    /\ wake' = IF wake = "later" THEN "due" ELSE wake
    /\ UNCHANGED <<status, slaPause, waiting, delivered, rows, gates, redis, tasks, desk, lost,
                   trouble, faults>>

\* deliver_event: an emit_event step of any run of the tenant.
DeliverEvent(s) ==
    /\ s \in waiting /\ status \in {"waiting_timer", "running", "pending"}
    /\ delivered' = delivered \cup {s} /\ waiting' = waiting \ {s} /\ wake' = "due"
    /\ UNCHANGED <<status, slaPause, timer, rows, gates, redis, tasks, desk, lost, trouble, faults>>

ClaimDueTimerWaits ==
    /\ ~woken /\ status = "waiting_timer" /\ wake = "due"
    /\ status' = "pending" /\ wake' = "null" /\ woken' = TRUE
    /\ UNCHANGED <<slaPause, timer, waiting, delivered, rows, gates, redis, tasks, op, lost,
                   trouble, faults>>

WakeDispatch(t) ==
    /\ woken /\ woken' = FALSE /\ Dispatch(t, Undecided)
    /\ UNCHANGED <<status, meta, rows, gates, redis, op, lost, trouble, faults>>

\* The broker refuses: release_timer_claim makes the run due again, if it is still pending.
WakeDispatchFails ==
    /\ woken /\ woken' = FALSE /\ Fault
    /\ IF status = "pending" THEN status' = "waiting_timer" /\ wake' = "due"
       ELSE UNCHANGED <<status, wake>>
    /\ UNCHANGED <<slaPause, timer, waiting, delivered, rows, gates, redis, tasks, op, lost>>

\* redispatch_stuck_runs: list_stalled_runs, then the lease, then a fresh task.
MutantSweepsRunningOnly == status = "running"
Stalled == status \in {"running", "pending"}

RedispatchStuckRun(t) ==
    /\ Stalled /\ lease = Free /\ Dispatch(t, Undecided)
    /\ UNCHANGED <<status, meta, rows, gates, redis, desk, lost, trouble, faults>>

-----------------------------------------------------------------------------

TaskStep(t) ==
    \/ Acquire(t) \/ Release(t) \/ Start(t) \/ Finalize(t)
    \/ Replay(t) \/ Stopped(t) \/ BeginStep(t) \/ WorkSucceeds(t) \/ StepFails(t)
    \/ DefaultApproves(t)
    \/ ProcessDecision(t) \/ (\E i \in Approvals : CreateApproval(t, i))
    \/ WaitOver(t) \/ WaitGoesOn(t) \/ RegisterWait(t) \/ RecordStep(t)

TaskFault(t) ==
    \/ GiveUp(t) \/ TaskFails(t) \/ WorkerDies(t) \/ LeaseLost(t)
    \/ StartUnrecorded(t) \/ BeginUnread(t) \/ RecordFails(t)

ApprovalStep(i) ==
    \/ Decide(i) \/ SlaExpires(i) \/ SlaEscalates(i) \/ SlaDecides(i) \/ SlaPauses(i)
    \/ ResumeNotSent(i) \/ \E t \in Tasks : ResumeFromHitl(i, t)

OperatorStep ==
    \/ PauseRead \/ PauseWrite \/ ResumeRead \/ ResumeWrite \/ RegateWrite \/ CancelRun
    \/ ResumeDispatchFails \/ \E t \in Tasks : ResumeDispatch(t)

BeatStep ==
    \/ LeaseExpires \/ ClaimDueTimerWaits \/ WakeDispatchFails
    \/ \E t \in Tasks : WakeDispatch(t) \/ RedispatchStuckRun(t)
    \/ \E s \in WaitSteps : DeadlinePasses(s)
    \/ \E s \in EventSteps : DeliverEvent(s)

Next ==
    \/ \E t \in Tasks : TaskStep(t) \/ TaskFault(t)
    \/ \E i \in Approvals : ApprovalStep(i)
    \/ OperatorStep \/ BeatStep

Spec == Init /\ [][Next]_vars

\* Workers go on, requests that were begun are finished, time passes and the beats run;
\* nobody has to decide, to emit, to request or to fail.
Fairness ==
    /\ \A t \in Tasks : WF_vars(TaskStep(t))
    /\ \A i \in Approvals : WF_vars(\E t \in Tasks : ResumeFromHitl(i, t)) /\ WF_vars(SlaExpires(i))
    /\ WF_vars(PauseWrite \/ ResumeWrite \/ RegateWrite \/ \E t \in Tasks : ResumeDispatch(t))
    /\ WF_vars(LeaseExpires) /\ WF_vars(ClaimDueTimerWaits)
    /\ \A s \in WaitSteps : WF_vars(DeadlinePasses(s))
    /\ WF_vars(\E t \in Tasks : WakeDispatch(t))
    /\ WF_vars(\E t \in Tasks : RedispatchStuckRun(t))

FairSpec == Spec /\ Fairness

(***************************************************************************)
(* Properties.                                                             *)
(***************************************************************************)

\* Two workers execute the run at once only when Redis lost the lease of one of them:
\* redelivered, swept, woken and resumed tasks all go through the same lease.
OneExecutor ==
    \A t, u \in Tasks :
        Executing(t) /\ Executing(u) /\ t # u => t \in evicted \/ u \in evicted

\* The approval steps that let the run pass: somebody approved them, or their own failure
\* took the default that their author gave them.
Released == granted \cup defaulted

\* Nothing after an approval step runs before somebody approved that step, whatever is
\* redelivered, re-dispatched, skipped, decided twice or executed twice.  Only an approval
\* whose definition gives it an approving default lets the run pass with nobody asked: when
\* it could not be opened.
GateHolds ==
    \A t \in Tasks, g \in GateSteps : at[t] > g => g \in Released

\* A step's call succeeds once, and once more for a fault at the most: pausing, resuming,
\* waking, sweeping and deciding never repeat it.
EffectsOnce == \A s \in Steps : effect[s] <= 1 + faults

\* A run that waits for an approval has something to wait for: an open approval, or a task
\* with its decision.  (Not once a decision's task was lost, or after an SLA pause.)
WaitsForSomebody ==
    status = "waiting_hitl" /\ slaPause = 0 /\ ~lost =>
        \/ \E i \in Approvals : appr[i] # NoApproval
        \/ \E t \in Tasks : pc[t] # "free" /\ dec[t] # Undecided

DecidedNow(i) == appr'[i].state \in {"approve", "reject"}

\* A run that ended stays as it ended, and nobody decides its approvals any more.
EndIsFinal ==
    [][ /\ status \in Terminal => status' = status
        /\ status \in Terminal => \A i \in Approvals : IsPending(i) => ~DecidedNow(i) ]_vars

\* A run that waits for nobody ends or comes to wait for a person: a crashed, lost or
\* given up task is dispatched again, a timer or an event wakes it.  (Not after a lost lease
\* or an unrecorded start: a late executor may then write waiting_timer when the beat has
\* already used up wake_at.)
RunProgresses ==
    status \in {"pending", "running", "waiting_timer"}
        ~> status \in Terminal \cup {"waiting_hitl", "paused"} \/ lost

\* An approval that a worker opens for a run that was just cancelled does not stay open.
OrphanApprovalExpires ==
    status \in Terminal ~> \A i \in Approvals : ~IsPending(i)
=============================================================================
