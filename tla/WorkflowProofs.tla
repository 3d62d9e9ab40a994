--------------------------- MODULE WorkflowProofs ---------------------------
(***************************************************************************)
(* Proofs about WorkflowRun, for a chain of any length with any of its     *)
(* steps approvals or waits, and any number of tasks, approvals, requests  *)
(* and faults.                                                             *)
(***************************************************************************)
EXTENDS WorkflowRun, FiniteSetTheorems, TLAPS

USE DEF meta, rows, gates, redis, tasks, desk

(***************************************************************************)
(* Type correctness.                                                       *)
(***************************************************************************)
\* When the graph has ended, what the task will write is a status.
EndsAreStatuses == \A t \in Tasks : pc[t] = "finish" => out[t] \in Live \cup Terminal

TypeInv == TypeOK /\ EndsAreStatuses

\* A chain has a first step.
LEMMA FirstStep == 1 \in Steps
  BY WorkflowAssumption DEF Steps

\* A new run is well-formed.
LEMMA InitType == Init => TypeInv
<1> SUFFICES ASSUME Init PROVE TypeInv
  OBVIOUS
<1>1. timer \in [WaitSteps -> {"none", "future", "past"}] /\ effect \in [Steps -> Nat]
  BY DEF Init
<1>2. appr \in [Approvals -> Approval] /\ dec \in [Tasks -> Decision]
  BY DEF Init, Approval, Decision
<1>3. at \in [Tasks -> Steps]
  BY FirstStep DEF Init
<1> QED
  BY <1>1, <1>2, <1>3 DEF Init, TypeInv, TypeOK, EndsAreStatuses, Live, Terminal, Free

\* A fault or a request takes a natural number from the budget.
LEMMA SpendType ==
    ASSUME TypeOK
    PROVE  /\ Fault => trouble' \in Nat /\ faults' \in Nat
           /\ Spend(OpCost) => trouble' \in Nat
           /\ Spend(LossCost) /\ faults' = faults + 1 => trouble' \in Nat /\ faults' \in Nat
           /\ NoFault => trouble' \in Nat /\ faults' \in Nat
  BY WorkflowAssumption DEF TypeOK, Fault, NoFault, Spend

\* What update_status leaves behind is a status and a table of approvals.
LEMMA UpdateType ==
    ASSUME TypeOK, NEW s \in Live \cup Terminal, NEW from, UpdateStatus(s, from)
    PROVE  status' \in Live \cup Terminal /\ appr' \in [Approvals -> Approval]
  BY DEF TypeOK, UpdateStatus, Withdrawn, Approval, NoApproval

\* Leaving the graph and passing on to the next step keep a task's variables in range.
LEMMA LeaveType ==
    ASSUME TypeOK, NEW t \in Tasks, Leave(t)
    PROVE  /\ pc' \in [Tasks -> {"free", "queued", "loading", "step", "called", "register",
                                 "record", "finish", "release"}]
           /\ at' \in [Tasks -> Steps]
           /\ out' \in [Tasks -> {"done", "skipped", "complete", "failed", "paused",
                                  "waiting_hitl", "waiting_timer"}]
  BY FirstStep DEF TypeOK, Leave

\* Going on to the next step, or to the end of the chain.
LEMMA ProceedType ==
    ASSUME TypeOK, NEW t \in Tasks, NEW held, Proceed(t, held)
    PROVE  /\ pc' \in [Tasks -> {"free", "queued", "loading", "step", "called", "register",
                                 "record", "finish", "release"}]
           /\ at' \in [Tasks -> Steps]
           /\ out' \in [Tasks -> {"done", "skipped", "complete", "failed", "paused",
                                  "waiting_hitl", "waiting_timer"}]
<1>1. at[t] # NSteps => at[t] + 1 \in Steps
  BY WorkflowAssumption DEF TypeOK, Steps
<1> QED
  BY <1>1 DEF TypeOK, Proceed

\* Putting a task into the queue.
LEMMA DispatchType ==
    ASSUME TypeOK, NEW t \in Tasks, NEW d \in Decision, Dispatch(t, d)
    PROVE  /\ pc' \in [Tasks -> {"free", "queued", "loading", "step", "called", "register",
                                 "record", "finish", "release"}]
           /\ dec' \in [Tasks -> Decision] /\ UNCHANGED <<at, out>>
  BY DEF TypeOK, Dispatch

\* The steps of a task that goes well ...
LEMMA TaskStepType ==
    ASSUME TypeInv, NEW t \in Tasks, TaskStep(t)
    PROVE  TypeOK'
<1> USE DEF TypeInv
<1>1. CASE Acquire(t)
  BY <1>1 DEF TypeOK, Acquire, Goto
<1>2. CASE Release(t)
  BY <1>2 DEF TypeOK, Release, ReleaseLease, Goto, Decision, Undecided
<1>3. CASE Start(t)
  BY <1>3, UpdateType DEF TypeOK, Start, Live
<1>4. CASE Finalize(t)
  <2>1. out[t] \in Live \cup Terminal
    BY <1>4 DEF Finalize, EndsAreStatuses
  <2> QED
    BY <1>4, <2>1, UpdateType, LeaveType DEF TypeOK, Finalize
<1>5. CASE Replay(t)
  BY <1>5, ProceedType DEF TypeOK, Replay
<1>6. CASE Stopped(t)
  BY <1>6, LeaveType DEF TypeOK, Stopped
<1>7. CASE BeginStep(t)
  BY <1>7 DEF TypeOK, BeginStep, Goto
<1>8. CASE WorkSucceeds(t)
  BY <1>8 DEF TypeOK, WorkSucceeds, Result, Goto
<1>9. CASE StepFails(t)
  BY <1>9, SpendType DEF TypeOK, StepFails, Result, Goto
<1>9d. CASE DefaultApproves(t)
  BY <1>9d, SpendType DEF TypeOK, DefaultApproves, Result, Goto
<1>10. CASE ProcessDecision(t)
  BY <1>10 DEF TypeOK, ProcessDecision, Result, Goto, Verdict
<1>11. CASE \E i \in Approvals : CreateApproval(t, i)
  BY <1>11 DEF TypeOK, CreateApproval, Result, Goto, Approval
<1>12. CASE WaitOver(t)
  BY <1>12 DEF TypeOK, WaitOver, Result, Goto
<1>13. CASE WaitGoesOn(t)
  BY <1>13 DEF TypeOK, WaitGoesOn, Goto
<1>14. CASE RegisterWait(t)
  BY <1>14 DEF TypeOK, RegisterWait, KeepEarliestWake, Result, Goto
<1>15. CASE RecordStep(t)
  BY <1>15, ProceedType DEF TypeOK, RecordStep, Recorded, AfterStep
<1> QED
  BY <1>1, <1>2, <1>3, <1>4, <1>5, <1>6, <1>7, <1>8, <1>9, <1>9d, <1>10, <1>11, <1>12, <1>13,
     <1>14, <1>15 DEF TaskStep

\* ... and of one that does not.
LEMMA TaskFaultType ==
    ASSUME TypeOK, NEW t \in Tasks, TaskFault(t)
    PROVE  TypeOK'
<1>0. lost' \in BOOLEAN
  <2>1. ASSUME NEW P PROVE (lost' = (lost \/ P)) => lost' \in BOOLEAN
    BY Zenon
  <2> QED
    BY <2>1, Zenon DEF TypeOK, TaskFault, GiveUp, TaskFails, WorkerDies, LeaseLost,
                       StartUnrecorded, BeginUnread, RecordFails
<1>1. CASE GiveUp(t)
  BY <1>0, <1>1, SpendType DEF TypeOK, GiveUp, Goto, Decision
<1>2. CASE TaskFails(t)
  BY <1>0, <1>2, SpendType, LeaveType DEF TypeOK, TaskFails
<1>3. CASE WorkerDies(t)
  BY <1>0, <1>3, SpendType, FirstStep DEF TypeOK, WorkerDies, Decision
<1>4. CASE LeaseLost(t)
  BY <1>0, <1>4, SpendType DEF TypeOK, LeaseLost
<1>5. CASE StartUnrecorded(t)
  BY <1>0, <1>5, SpendType DEF TypeOK, StartUnrecorded, Goto
<1>6. CASE BeginUnread(t)
  BY <1>6, SpendType DEF TypeOK, BeginUnread, Goto
<1>7. CASE RecordFails(t)
  BY <1>7, SpendType, ProceedType DEF TypeOK, RecordFails, AfterStep
<1> QED
  BY <1>1, <1>2, <1>3, <1>4, <1>5, <1>6, <1>7 DEF TaskFault

\* Reviewers and the SLA.
LEMMA ApprovalStepType ==
    ASSUME TypeOK, NEW i \in Approvals, ApprovalStep(i)
    PROVE  TypeOK'
<1> USE DEF Approval, NoApproval
<1>0. ASSUME NEW a \in {"overdue", "approve", "reject"}, appr[i].state # "none"
      PROVE  [appr EXCEPT ![i].state = a] \in [Approvals -> Approval] /\ appr[i].gate \in GateSteps
  BY <1>0 DEF TypeOK
<1>1. CASE Decide(i)
  BY <1>0, <1>1 DEF TypeOK, Decide, Decided, Decidable, IsPending
<1>2. CASE SlaExpires(i)
  BY <1>2 DEF TypeOK, SlaExpires
<1>3. CASE SlaEscalates(i)
  BY <1>0, <1>3 DEF TypeOK, SlaEscalates
<1>4. CASE SlaDecides(i)
  BY <1>0, <1>4 DEF TypeOK, SlaDecides, Decided
<1>5. CASE SlaPauses(i)
  BY <1>0, <1>5 DEF TypeOK, SlaPauses, Live
<1>6. CASE ResumeNotSent(i)
  BY <1>6, SpendType DEF TypeOK, ResumeNotSent
<1>7. ASSUME NEW t \in Tasks, ResumeFromHitl(i, t) PROVE TypeOK'
  <2>1. [gate |-> appr[i].gate, action |-> appr[i].state] \in Decision
    BY <1>0, <1>7 DEF TypeOK, ResumeFromHitl, Decision
  <2> QED
    BY <1>7, <2>1, DispatchType DEF TypeOK, ResumeFromHitl
<1> QED
  BY <1>1, <1>2, <1>3, <1>4, <1>5, <1>6, <1>7 DEF ApprovalStep

\* Pause, resume and cancel.
LEMMA OperatorStepType ==
    ASSUME TypeOK, OperatorStep
    PROVE  TypeOK'
<1>1. CASE PauseRead \/ ResumeRead
  BY <1>1, SpendType DEF TypeOK, PauseRead, ResumeRead, Request
<1>2. CASE PauseWrite
  BY <1>2, UpdateType DEF TypeOK, PauseWrite, Live
<1>3. CASE ResumeWrite
  BY <1>3, UpdateType DEF TypeOK, ResumeWrite, Live
<1>4. CASE RegateWrite
  BY <1>4, UpdateType DEF TypeOK, RegateWrite, Live
<1>5. CASE CancelRun
  BY <1>5, UpdateType, SpendType DEF TypeOK, CancelRun, Terminal
<1>6. CASE ResumeDispatchFails
  BY <1>6, SpendType DEF TypeOK, ResumeDispatchFails
<1>7. CASE \E t \in Tasks : ResumeDispatch(t)
  BY <1>7, DispatchType DEF TypeOK, ResumeDispatch, Decision
<1> QED
  BY <1>1, <1>2, <1>3, <1>4, <1>5, <1>6, <1>7 DEF OperatorStep

\* Timers, events and sweeps.
LEMMA BeatStepType ==
    ASSUME TypeOK, BeatStep
    PROVE  TypeOK'
<1>1. CASE LeaseExpires
  BY <1>1 DEF TypeOK, LeaseExpires
<1>2. CASE ClaimDueTimerWaits
  BY <1>2 DEF TypeOK, ClaimDueTimerWaits, Live
<1>3. CASE WakeDispatchFails
  BY <1>3, SpendType DEF TypeOK, WakeDispatchFails, Live
<1>4. CASE \E t \in Tasks : WakeDispatch(t)
  BY <1>4, DispatchType DEF TypeOK, WakeDispatch, Decision
<1>5. CASE \E t \in Tasks : RedispatchStuckRun(t)
  BY <1>5, DispatchType DEF TypeOK, RedispatchStuckRun, Decision
<1>6. CASE \E s \in WaitSteps : DeadlinePasses(s)
  BY <1>6 DEF TypeOK, DeadlinePasses
<1>7. CASE \E s \in EventSteps : DeliverEvent(s)
  BY <1>7 DEF TypeOK, DeliverEvent
<1> QED
  BY <1>1, <1>2, <1>3, <1>4, <1>5, <1>6, <1>7 DEF BeatStep

(***************************************************************************)
(* A step of one task, or its dispatch, leaves the other tasks alone.      *)
(***************************************************************************)
OthersUnchanged(t) ==
    \A u \in Tasks \ {t} : pc'[u] = pc[u] /\ at'[u] = at[u] /\ out'[u] = out[u] /\ dec'[u] = dec[u]

\* A task's step leaves the other tasks alone.
LEMMA TaskFrame ==
    ASSUME TypeOK, NEW t \in Tasks, TaskStep(t) \/ TaskFault(t)
    PROVE  OthersUnchanged(t)
<1> USE DEF TypeOK, OthersUnchanged, Goto, Result, Leave
<1>1. CASE TaskStep(t)
  <2>1. CASE Acquire(t) \/ Release(t) \/ Start(t) \/ Finalize(t) \/ Stopped(t) \/ BeginStep(t)
    BY <2>1 DEF Acquire, Release, Start, Finalize, Stopped, BeginStep
  <2>2. CASE \/ WorkSucceeds(t) \/ StepFails(t) \/ DefaultApproves(t) \/ ProcessDecision(t)
             \/ WaitOver(t) \/ WaitGoesOn(t) \/ RegisterWait(t)
             \/ \E i \in Approvals : CreateApproval(t, i)
    BY <2>2 DEF WorkSucceeds, StepFails, DefaultApproves, ProcessDecision, WaitOver, WaitGoesOn,
                RegisterWait, CreateApproval
  <2>3. CASE Replay(t) \/ RecordStep(t)
    BY <2>3 DEF Replay, RecordStep, AfterStep, Proceed
  <2> QED
    BY <1>1, <2>1, <2>2, <2>3 DEF TaskStep
<1>2. CASE TaskFault(t)
  <2>1. CASE RecordFails(t)
    BY <2>1 DEF RecordFails, AfterStep, Proceed
  <2>2. CASE \/ GiveUp(t) \/ TaskFails(t) \/ WorkerDies(t) \/ LeaseLost(t)
             \/ StartUnrecorded(t) \/ BeginUnread(t)
    BY <2>2 DEF GiveUp, TaskFails, WorkerDies, LeaseLost, StartUnrecorded, BeginUnread
  <2> QED
    BY <1>2, <2>1, <2>2 DEF TaskFault
<1> QED
  BY <1>1, <1>2

\* Only a dispatch touches a task from outside, and only one that is free.
Queued(t, d) ==
    /\ pc[t] = "free" /\ pc'[t] = "queued" /\ dec'[t] = d /\ at'[t] = at[t] /\ out'[t] = out[t]
    /\ OthersUnchanged(t)

\* A dispatch queues one task with its decision.
LEMMA DispatchFrame ==
    ASSUME TypeOK, NEW t \in Tasks, NEW d, Dispatch(t, d)
    PROVE  Queued(t, d)
  BY DEF TypeOK, Queued, OthersUnchanged, Dispatch

\* All others only ever queue a task.
LEMMA OutsideFrame ==
    ASSUME TypeOK, (\E i \in Approvals : ApprovalStep(i)) \/ OperatorStep \/ BeatStep
    PROVE  \/ UNCHANGED <<pc, at, out, dec>>
           \/ \E t \in Tasks : Queued(t, Undecided)
           \/ \E t \in Tasks, i \in Approvals :
                 ResumeFromHitl(i, t) /\ Queued(t, [gate |-> appr[i].gate, action |-> appr[i].state])
<1>1. CASE \E i \in Approvals : ApprovalStep(i)
  BY <1>1, DispatchFrame DEF ApprovalStep, Decide, SlaExpires, SlaEscalates, SlaDecides, SlaPauses,
                             ResumeNotSent, ResumeFromHitl
<1>2. CASE OperatorStep
  BY <1>2, DispatchFrame DEF OperatorStep, PauseRead, PauseWrite, ResumeRead, ResumeWrite, Request,
                             RegateWrite, CancelRun, ResumeDispatchFails, ResumeDispatch
<1>3. CASE BeatStep
  BY <1>3, DispatchFrame DEF BeatStep, LeaseExpires, ClaimDueTimerWaits, WakeDispatchFails,
                             WakeDispatch, RedispatchStuckRun, DeadlinePasses, DeliverEvent
<1> QED
  BY <1>1, <1>2, <1>3

\* A task's result is a status, whoever steps.
LEMMA NextEnds ==
    ASSUME TypeInv, Next
    PROVE  EndsAreStatuses'
<1> USE DEF TypeInv, EndsAreStatuses
<1>1. ASSUME NEW t \in Tasks, TaskStep(t) \/ TaskFault(t) PROVE EndsAreStatuses'
  <2>1. \A u \in Tasks \ {t} : pc'[u] = pc[u] /\ out'[u] = out[u]
    BY <1>1, TaskFrame DEF OthersUnchanged
  <2>2. pc'[t] = "finish" => out'[t] \in Live \cup Terminal
    <3>1. CASE Replay(t)
      BY <3>1 DEF TypeOK, Replay, Proceed, Terminal
    <3>2. CASE RecordStep(t) \/ RecordFails(t)
      BY <3>2 DEF TypeOK, RecordStep, RecordFails, AfterStep, Proceed, Live, Terminal
    <3>3. CASE LeaseLost(t)
      BY <3>3 DEF LeaseLost
    <3>4. CASE \/ Acquire(t) \/ Release(t) \/ Start(t) \/ Finalize(t) \/ Stopped(t) \/ BeginStep(t)
               \/ GiveUp(t) \/ TaskFails(t) \/ WorkerDies(t) \/ StartUnrecorded(t) \/ BeginUnread(t)
      BY <3>4 DEF TypeOK, Acquire, Release, Start, Finalize, Stopped, BeginStep, GiveUp, TaskFails,
                  WorkerDies, StartUnrecorded, BeginUnread, Goto, Leave
    <3>5. CASE \/ WorkSucceeds(t) \/ StepFails(t) \/ DefaultApproves(t) \/ ProcessDecision(t)
               \/ WaitOver(t) \/ WaitGoesOn(t) \/ RegisterWait(t)
               \/ \E i \in Approvals : CreateApproval(t, i)
      BY <3>5 DEF TypeOK, WorkSucceeds, StepFails, DefaultApproves, ProcessDecision, WaitOver,
                  WaitGoesOn, RegisterWait, CreateApproval, Result, Goto
    <3> QED
      BY <1>1, <3>1, <3>2, <3>3, <3>4, <3>5 DEF TaskStep, TaskFault
  <2> QED
    BY <2>1, <2>2
<1>2. CASE (\E i \in Approvals : ApprovalStep(i)) \/ OperatorStep \/ BeatStep
  BY <1>2, OutsideFrame DEF Queued, OthersUnchanged
<1> QED
  BY <1>1, <1>2 DEF Next

\* Every step keeps the run well-formed.
LEMMA NextType == TypeInv /\ [Next]_vars => TypeInv'
<1> SUFFICES ASSUME TypeInv, [Next]_vars PROVE TypeInv'
  OBVIOUS
<1>1. CASE UNCHANGED vars
  BY <1>1 DEF TypeInv, TypeOK, EndsAreStatuses, vars
<1>2. CASE Next
  <2>1. TypeOK'
    BY <1>2, TaskStepType, TaskFaultType, ApprovalStepType, OperatorStepType, BeatStepType
    DEF Next, TypeInv
  <2> QED
    BY <1>2, <2>1, NextEnds DEF TypeInv
<1> QED
  BY <1>1, <1>2

\* The rows, keys and tasks of a run keep their types, for a workflow of any length.
THEOREM TypeCorrect == Spec => []TypeOK
<1>1. Spec => []TypeInv
  BY InitType, NextType, PTL DEF Spec
<1>2. TypeInv => TypeOK
  BY DEF TypeInv
<1> QED
  BY <1>1, <1>2, PTL

(***************************************************************************)
(* The lease: a task that executes holds it, or Redis lost it.             *)
(***************************************************************************)
HoldsLease == \A t \in Tasks : Executing(t) => lease = t \/ t \in evicted

\* The two marks of a lease without a holder are no tasks.
LEMMA NoTask == Free \notin Tasks /\ Orphan \notin Tasks
  BY WorkflowAssumption DEF Free, Orphan, Tasks

\* A task executes between its acquiring and its releasing of the lease.
LEMMA TaskLease ==
    ASSUME TypeOK, HoldsLease, NEW t \in Tasks, TaskStep(t) \/ TaskFault(t)
    PROVE  HoldsLease'
<1> USE NoTask DEF TypeOK, HoldsLease, Executing
<1>0. \A u \in Tasks \ {t} : pc'[u] = pc[u]
  BY TaskFrame DEF OthersUnchanged
<1>1. CASE Acquire(t)
  BY <1>0, <1>1 DEF Acquire
<1>2. CASE Release(t)
  BY <1>0, <1>2 DEF Release, ReleaseLease, Goto
<1>3. CASE WorkerDies(t)
  BY <1>0, <1>3 DEF WorkerDies
<1>4. CASE LeaseLost(t)
  BY <1>4 DEF LeaseLost
<1>5. CASE GiveUp(t)
  BY <1>0, <1>5 DEF GiveUp, Goto
<1>6. CASE UNCHANGED redis /\ pc[t] \notin {"free", "queued"}
  BY <1>0, <1>6
<1>7. CASE Start(t) \/ Finalize(t) \/ Replay(t) \/ Stopped(t) \/ BeginStep(t) \/ WorkSucceeds(t)
  BY <1>6, <1>7 DEF Start, Finalize, Replay, Stopped, BeginStep, WorkSucceeds, Goto, Result
<1>8. CASE \/ StepFails(t) \/ DefaultApproves(t) \/ ProcessDecision(t) \/ WaitOver(t) \/ WaitGoesOn(t)
           \/ RegisterWait(t) \/ RecordStep(t) \/ \E i \in Approvals : CreateApproval(t, i)
  BY <1>6, <1>8 DEF StepFails, DefaultApproves, ProcessDecision, WaitOver, WaitGoesOn,
                    RegisterWait, RecordStep, CreateApproval, Goto, Result
<1>9. CASE TaskFails(t) \/ StartUnrecorded(t) \/ BeginUnread(t) \/ RecordFails(t)
  BY <1>6, <1>9 DEF TaskFails, StartUnrecorded, BeginUnread, RecordFails, Goto
<1> QED
  BY <1>1, <1>2, <1>3, <1>4, <1>5, <1>7, <1>8, <1>9 DEF TaskStep, TaskFault

\* Nobody but the tasks and the expiry touches the lease.
LEMMA NextLease ==
    ASSUME TypeOK, HoldsLease, [Next]_vars
    PROVE  HoldsLease'
<1> USE DEF HoldsLease, Executing
<1>1. CASE UNCHANGED vars
  BY <1>1 DEF vars
<1>2. CASE \E t \in Tasks : TaskStep(t) \/ TaskFault(t)
  BY <1>2, TaskLease
<1>3. CASE (\E i \in Approvals : ApprovalStep(i)) \/ OperatorStep \/ BeatStep
  <2>1. \A t \in Tasks : Executing(t)' => Executing(t)
    BY <1>3, OutsideFrame DEF Queued, OthersUnchanged
  <2>2. UNCHANGED redis \/ LeaseExpires
    <3>1. CASE \E i \in Approvals : ApprovalStep(i)
      BY <3>1 DEF ApprovalStep, Decide, SlaExpires, SlaEscalates, SlaDecides, SlaPauses,
                  ResumeNotSent, ResumeFromHitl
    <3>2. CASE OperatorStep
      BY <3>2 DEF OperatorStep, PauseRead, PauseWrite, ResumeRead, ResumeWrite, Request,
                  RegateWrite, CancelRun, ResumeDispatchFails, ResumeDispatch
    <3>3. CASE BeatStep
      BY <3>3 DEF BeatStep, ClaimDueTimerWaits, WakeDispatchFails,
                  WakeDispatch, RedispatchStuckRun, DeadlinePasses, DeliverEvent
    <3> QED
      BY <1>3, <3>1, <3>2, <3>3
  <2> QED
    BY <2>1, <2>2, NoTask DEF LeaseExpires
<1> QED
  BY <1>1, <1>2, <1>3 DEF Next

\* However a run is redelivered, woken, resumed, swept or its worker killed, two workers
\* execute it at once only when Redis lost the lease of one of them.
THEOREM Exclusion == Spec => []OneExecutor
<1>1. Init => HoldsLease
  BY DEF Init, HoldsLease, Executing
<1>2. Spec => []HoldsLease
  BY <1>1, NextLease, TypeCorrect, PTL DEF Spec
<1>3. HoldsLease => OneExecutor
  BY DEF HoldsLease, OneExecutor
<1> QED
  BY <1>2, <1>3, PTL

(***************************************************************************)
(* A run that ended.                                                       *)
(***************************************************************************)

\* A write of update_status, whatever it may replace, leaves an ended run alone.
LEMMA UpdateKeepsEnd ==
    ASSUME NEW s, NEW from \in SUBSET Live, UpdateStatus(s, from), status \in Terminal
    PROVE  UNCHANGED <<status, appr>>
  BY DEF UpdateStatus, Live, Terminal

\* Every status write of a task is conditional on the run being alive.
LEMMA TaskKeepsEnd ==
    ASSUME TypeInv, NEW t \in Tasks, TaskStep(t) \/ TaskFault(t), status \in Terminal
    PROVE  /\ status' = status
           /\ \A i \in Approvals : IsPending(i) => appr'[i] = appr[i]
<1>1. CASE Start(t)
  <2>1. StartableFrom(t) \in SUBSET Live
    BY DEF StartableFrom, Live
  <2> QED
    BY <1>1, <2>1, UpdateKeepsEnd DEF Start
<1>2. CASE Finalize(t)
  BY <1>2, UpdateKeepsEnd DEF Finalize
<1>3. CASE \E i \in Approvals : CreateApproval(t, i)
  BY <1>3 DEF CreateApproval, IsPending, NoApproval, TypeInv, TypeOK
<1>4. CASE \/ Acquire(t) \/ Release(t) \/ Replay(t) \/ Stopped(t) \/ BeginStep(t) \/ WorkSucceeds(t)
           \/ StepFails(t) \/ ProcessDecision(t) \/ WaitOver(t) \/ WaitGoesOn(t) \/ RegisterWait(t)
           \/ RecordStep(t) \/ DefaultApproves(t)
  BY <1>4 DEF Acquire, Release, Replay, Stopped, BeginStep, WorkSucceeds, StepFails,
              DefaultApproves, ProcessDecision, WaitOver, WaitGoesOn, RegisterWait, RecordStep
<1>5. CASE TaskFault(t)
  BY <1>5 DEF TaskFault, GiveUp, TaskFails, WorkerDies, LeaseLost, StartUnrecorded, BeginUnread,
              RecordFails
<1> QED
  BY <1>1, <1>2, <1>3, <1>4, <1>5 DEF TaskStep

EndKept ==
    /\ status \in Terminal => status' = status
    /\ status \in Terminal => \A i \in Approvals : IsPending(i) => ~DecidedNow(i)

\* So are those of reviewers, operators and sweeps.
LEMMA OutsideKeepsEnd ==
    ASSUME TypeOK, (\E i \in Approvals : ApprovalStep(i)) \/ OperatorStep \/ BeatStep,
           status \in Terminal
    PROVE  /\ status' = status
           /\ \A i \in Approvals : IsPending(i) => appr'[i] \in {appr[i], NoApproval}
<1>1. ASSUME NEW i \in Approvals, ApprovalStep(i)
      PROVE  /\ status' = status
             /\ \A j \in Approvals : IsPending(j) => appr'[j] \in {appr[j], NoApproval}
  <2>1. ~Decide(i) /\ ~SlaDecides(i) /\ ~SlaEscalates(i) /\ ~SlaPauses(i)
    BY DEF Decide, Decidable, SlaDecides, SlaEscalates, SlaPauses, Live, Terminal
  <2> QED
    BY <1>1, <2>1 DEF TypeOK, ApprovalStep, SlaExpires, ResumeNotSent, ResumeFromHitl
<1>2. CASE OperatorStep
  BY <1>2, UpdateKeepsEnd DEF OperatorStep, PauseRead, PauseWrite, ResumeRead, ResumeWrite, Request,
                  RegateWrite, CancelRun, ResumeDispatchFails, ResumeDispatch, Live
<1>3. CASE BeatStep
  BY <1>3 DEF BeatStep, LeaseExpires, ClaimDueTimerWaits, WakeDispatchFails, Terminal,
              WakeDispatch, RedispatchStuckRun, DeadlinePasses, DeliverEvent
<1> QED
  BY <1>1, <1>2, <1>3

\* complete, failed and cancelled are final against every writer of the row, and nobody
\* decides an approval of a run that has ended.
THEOREM EndedStaysEnded == Spec => EndIsFinal
<1>1. TypeInv /\ [Next]_vars => [EndKept]_vars
  <2> SUFFICES ASSUME TypeInv, Next, status \in Terminal
               PROVE  /\ status' = status
                      /\ \A i \in Approvals : IsPending(i) => ~DecidedNow(i)
    BY DEF EndKept
  <2>1. /\ status' = status
        /\ \A i \in Approvals : IsPending(i) => appr'[i] \in {appr[i], NoApproval}
    BY TaskKeepsEnd, OutsideKeepsEnd DEF Next, TypeInv
  <2> QED
    BY <2>1 DEF IsPending, DecidedNow, NoApproval
<1>2. Spec => []TypeInv
  BY InitType, NextType, PTL DEF Spec
<1> QED
  BY <1>1, <1>2, PTL DEF Spec, EndIsFinal, EndKept

(***************************************************************************)
(* The approval steps.  GateHolds is about where tasks are; its inductive  *)
(* form also says that whatever could let a task pass an approval step (a  *)
(* recorded result, a decision on its way, a result about to be recorded)  *)
(* goes back to somebody's approval, or to the approving default of an     *)
(* approval that failed.                                                   *)
(***************************************************************************)
TrueRecords == done \cap GateSteps \subseteq Released
TrueApprovals == \A i \in Approvals : appr[i].state = "approve" => appr[i].gate \in granted
TrueDecisions == \A t \in Tasks : dec[t].action = "approve" => dec[t].gate \in granted
TrueResults ==
    \A t \in Tasks : pc[t] = "record" /\ out[t] = "done" /\ at[t] \in GateSteps => at[t] \in Released

GateInv == GateHolds /\ TrueRecords /\ TrueApprovals /\ TrueDecisions /\ TrueResults

\* A task that passes its step has it released, if it is an approval step.
LEMMA ProceedHolds ==
    ASSUME TypeOK, GateInv, NEW t \in Tasks, NEW held, Proceed(t, held),
           ~held /\ at[t] \in GateSteps => at[t] \in Released
    PROVE  /\ \A g \in GateSteps : at'[t] > g => g \in Released
           /\ pc'[t] # "record"
<1>1. at[t] \in Nat /\ GateSteps \subseteq Nat
  BY WorkflowAssumption DEF TypeOK, Steps
<1>2. at'[t] = at[t] \/ (at'[t] = at[t] + 1 /\ ~held)
  BY DEF TypeOK, Proceed
<1>3. \A g \in GateSteps : at'[t] > g => at[t] > g \/ (g = at[t] /\ ~held)
  BY <1>1, <1>2
<1>4. pc'[t] # "record"
  BY DEF TypeOK, Proceed
<1> QED
  BY <1>3, <1>4 DEF GateInv, GateHolds

\* What a step of a task has to show; the other tasks have not moved.
LEMMA TaskGateFrame ==
    ASSUME TypeOK, GateInv, NEW t \in Tasks, OthersUnchanged(t), granted' = granted,
           Released \subseteq Released',
           \A g \in GateSteps : at'[t] > g => g \in Released,
           TrueRecords', TrueApprovals',
           dec'[t].action = "approve" => dec'[t].gate \in granted,
           pc'[t] = "record" /\ out'[t] = "done" /\ at'[t] \in GateSteps => at'[t] \in Released'
    PROVE  GateInv'
  BY DEF OthersUnchanged, GateInv, GateHolds, TrueDecisions, TrueResults

\* No approval lies before the first step.
LEMMA FirstPasses ==
    ASSUME NEW g \in GateSteps
    PROVE  ~(1 > g)
  BY WorkflowAssumption

\* Withdrawing approvals leaves no false one.
LEMMA WithdrawnHolds ==
    ASSUME TypeOK, TrueApprovals, NEW s, NEW from, UpdateStatus(s, from), granted' = granted
    PROVE  TrueApprovals'
  BY DEF TypeOK, TrueApprovals, UpdateStatus, Withdrawn, NoApproval

\* A task passes an approval only with a result or a decision that was granted ...
LEMMA TaskStepGates ==
    ASSUME TypeOK, GateInv, NEW t \in Tasks, TaskStep(t)
    PROVE  GateInv'
<1>0. OthersUnchanged(t) /\ granted' = granted /\ Released \subseteq Released'
  BY TaskFrame DEF TaskStep, Acquire, Release, Start, Finalize, Replay, Stopped, BeginStep,
        WorkSucceeds, StepFails, DefaultApproves, ProcessDecision, CreateApproval, WaitOver,
        WaitGoesOn, RegisterWait, RecordStep, Released
<1>b. ~DefaultApproves(t) => Released' = Released
  BY DEF TaskStep, Acquire, Release, Start, Finalize, Replay, Stopped, BeginStep,
        WorkSucceeds, StepFails, ProcessDecision, CreateApproval, WaitOver, WaitGoesOn,
        RegisterWait, RecordStep, Released
<1>a. /\ \A g \in GateSteps : at[t] > g => g \in Released
      /\ dec[t].action = "approve" => dec[t].gate \in granted
  BY DEF GateInv, GateHolds, TrueDecisions
<1>1. CASE Acquire(t) \/ Release(t) \/ BeginStep(t) \/ WaitGoesOn(t)
  BY <1>0, <1>1, <1>a, TaskGateFrame DEF TypeOK, GateInv, TrueRecords, TrueApprovals, Acquire,
        Release, BeginStep, WaitGoesOn, Goto, Undecided
<1>2. CASE Start(t)
  BY <1>0, <1>2, <1>a, TaskGateFrame, WithdrawnHolds
  DEF TypeOK, GateInv, TrueRecords, Start
<1>3. CASE Finalize(t)
  BY <1>0, <1>3, <1>a, TaskGateFrame, WithdrawnHolds, FirstPasses
  DEF TypeOK, GateInv, TrueRecords, Finalize, Leave
<1>4. CASE Stopped(t)
  BY <1>0, <1>4, <1>a, TaskGateFrame, FirstPasses
  DEF TypeOK, GateInv, TrueRecords, TrueApprovals, Stopped, Leave
<1>5. CASE Replay(t)
  <2>1. /\ \A g \in GateSteps : at'[t] > g => g \in Released
        /\ pc'[t] # "record"
    BY <1>5, ProceedHolds DEF Replay, GateInv, TrueRecords
  <2> QED
    BY <1>0, <1>5, <1>a, <2>1, TaskGateFrame DEF Replay, GateInv, TrueRecords, TrueApprovals
<1>6. CASE WorkSucceeds(t) \/ WaitOver(t)
  <2>1. at[t] \notin GateSteps
    BY <1>6, WorkflowAssumption DEF WorkSucceeds, WaitOver
  <2> QED
    BY <1>0, <1>6, <1>a, <2>1, TaskGateFrame
    DEF TypeOK, GateInv, TrueRecords, TrueApprovals, WorkSucceeds, WaitOver
<1>7. CASE StepFails(t) \/ RegisterWait(t)
  <2>1. out'[t] # "done"
    BY <1>7 DEF TypeOK, StepFails, RegisterWait, Result
  <2> QED
    BY <1>0, <1>7, <1>a, <2>1, TaskGateFrame
    DEF GateInv, TrueRecords, TrueApprovals, StepFails, RegisterWait
<1>7d. CASE DefaultApproves(t)
  <2>1. at[t] \in Released' /\ at' = at
    BY <1>7d DEF DefaultApproves, Released
  <2> QED
    BY <1>0, <1>7d, <1>a, <2>1, TaskGateFrame
    DEF GateInv, TrueRecords, TrueApprovals, DefaultApproves
<1>8. CASE ProcessDecision(t)
  <2>1. out'[t] = "done" => at[t] \in Released
    BY <1>8, <1>a DEF TypeOK, ProcessDecision, Result, Verdict, Released
  <2> QED
    BY <1>0, <1>8, <1>a, <2>1, TaskGateFrame
    DEF GateInv, TrueRecords, TrueApprovals, ProcessDecision
<1>9. ASSUME NEW i \in Approvals, CreateApproval(t, i) PROVE GateInv'
  <2>1. out'[t] # "done"
    BY <1>9 DEF TypeOK, CreateApproval, Result
  <2>2. TrueApprovals'
    BY <1>0, <1>9 DEF TypeOK, GateInv, TrueApprovals, CreateApproval
  <2> QED
    BY <1>0, <1>9, <1>a, <2>1, <2>2, TaskGateFrame DEF GateInv, TrueRecords, CreateApproval
<1>10. CASE RecordStep(t)
  <2>1. out[t] = "done" /\ at[t] \in GateSteps => at[t] \in Released
    BY <1>10 DEF RecordStep, GateInv, TrueResults
  <2>2. /\ \A g \in GateSteps : at'[t] > g => g \in Released
        /\ pc'[t] # "record"
    <3>1. CASE out[t] \in {"done", "skipped"}
      BY <1>10, <2>1, <3>1, ProceedHolds DEF RecordStep, AfterStep
    <3>2. CASE out[t] \notin {"done", "skipped"}
      BY <1>10, <1>a, <3>2 DEF TypeOK, RecordStep, AfterStep
    <3> QED
      BY <3>1, <3>2
  <2>3. TrueRecords'
    BY <1>0, <1>10, <2>1 DEF RecordStep, Recorded, GateInv, TrueRecords
  <2> QED
    BY <1>0, <1>10, <1>a, <2>2, <2>3, TaskGateFrame DEF RecordStep, GateInv, TrueApprovals
<1> QED
  BY <1>1, <1>2, <1>3, <1>4, <1>5, <1>6, <1>7, <1>7d, <1>8, <1>9, <1>10 DEF TaskStep

\* ... also when reads or writes of it fail.
LEMMA TaskFaultGates ==
    ASSUME TypeOK, GateInv, NEW t \in Tasks, TaskFault(t)
    PROVE  GateInv'
<1>0. OthersUnchanged(t) /\ granted' = granted /\ Released' = Released
  BY TaskFrame DEF TaskFault, GiveUp, TaskFails, WorkerDies, LeaseLost, StartUnrecorded,
        BeginUnread, RecordFails, Released
<1>a. /\ \A g \in GateSteps : at[t] > g => g \in Released
      /\ dec[t].action = "approve" => dec[t].gate \in granted
  BY DEF GateInv, GateHolds, TrueDecisions
<1>1. CASE GiveUp(t) \/ StartUnrecorded(t) \/ BeginUnread(t)
  BY <1>0, <1>1, <1>a, TaskGateFrame DEF TypeOK, GateInv, TrueRecords, TrueApprovals, GiveUp,
        StartUnrecorded, BeginUnread, Goto, Undecided
<1>2. CASE TaskFails(t) \/ WorkerDies(t)
  BY <1>0, <1>2, <1>a, TaskGateFrame, FirstPasses DEF TypeOK, GateInv, TrueRecords, TrueApprovals,
        TaskFails, WorkerDies, Leave, Undecided
<1>3. CASE LeaseLost(t)
  BY <1>3 DEF LeaseLost, GateInv, GateHolds, TrueRecords, TrueApprovals, TrueDecisions, TrueResults,
        Released
<1>4. CASE RecordFails(t)
  <2>1. /\ \A g \in GateSteps : at'[t] > g => g \in Released
        /\ pc'[t] # "record"
    <3>1. CASE out[t] \in {"done", "skipped"}
      BY <1>4, <3>1, ProceedHolds DEF RecordFails, AfterStep, GateInv, TrueResults
    <3>2. CASE out[t] \notin {"done", "skipped"}
      BY <1>4, <1>a, <3>2 DEF TypeOK, RecordFails, AfterStep
    <3> QED
      BY <3>1, <3>2
  <2> QED
    BY <1>0, <1>4, <1>a, <2>1, TaskGateFrame DEF RecordFails, GateInv, TrueRecords, TrueApprovals
<1> QED
  BY <1>1, <1>2, <1>3, <1>4 DEF TaskFault

\* Reviewers, sweeps, operators and beats only add to what is granted.
LEMMA OutsideGates ==
    ASSUME TypeOK, GateInv, (\E i \in Approvals : ApprovalStep(i)) \/ OperatorStep \/ BeatStep
    PROVE  GateInv'
<1>1. granted \subseteq granted' /\ TrueApprovals' /\ UNCHANGED <<done, defaulted>>
  <2>1. ASSUME NEW i \in Approvals, ApprovalStep(i)
        PROVE  granted \subseteq granted' /\ TrueApprovals' /\ UNCHANGED <<done, defaulted>>
    <3>0. ASSUME NEW a, appr' = [appr EXCEPT ![i].state = a], appr[i] # NoApproval
          PROVE  /\ appr'[i].state = a /\ appr'[i].gate = appr[i].gate
                 /\ \A j \in Approvals \ {i} : appr'[j] = appr[j]
      <4>1. appr[i] \in [gate : GateSteps, state : {"pending", "overdue", "approve", "reject"}]
        BY <3>0 DEF TypeOK, Approval
      <4> QED
        BY <3>0, <4>1 DEF TypeOK
    <3>1. ASSUME NEW a, appr[i] # NoApproval, Decided(i, a)
          PROVE  granted \subseteq granted' /\ TrueApprovals'
      BY <3>0, <3>1 DEF GateInv, TrueApprovals, Decided
    <3>2. CASE Decide(i) \/ SlaDecides(i)
      BY <3>1, <3>2 DEF Decide, Decidable, IsPending, SlaDecides, NoApproval
    <3>3. CASE SlaEscalates(i) \/ SlaPauses(i)
      <4>1. /\ appr[i] # NoApproval /\ appr' = [appr EXCEPT ![i].state = "overdue"]
            /\ UNCHANGED <<done, defaulted, granted>>
        BY <3>3 DEF SlaEscalates, SlaPauses, NoApproval
      <4> QED
        BY <3>0, <4>1 DEF GateInv, TrueApprovals
    <3>4. CASE SlaExpires(i) \/ ResumeNotSent(i) \/ \E t \in Tasks : ResumeFromHitl(i, t)
      BY <3>4 DEF TypeOK, GateInv, TrueApprovals, SlaExpires, ResumeNotSent, ResumeFromHitl,
            NoApproval
    <3> QED
      BY <2>1, <3>2, <3>3, <3>4 DEF ApprovalStep
  <2>2. CASE OperatorStep
    BY <2>2, WithdrawnHolds DEF GateInv, TrueApprovals, OperatorStep, PauseRead, PauseWrite,
          ResumeRead, ResumeWrite, Request, RegateWrite, CancelRun, ResumeDispatchFails,
          ResumeDispatch
  <2>3. CASE BeatStep
    BY <2>3 DEF GateInv, TrueApprovals, BeatStep, LeaseExpires, ClaimDueTimerWaits,
          WakeDispatchFails, WakeDispatch, RedispatchStuckRun, DeadlinePasses, DeliverEvent
  <2> QED
    BY <2>1, <2>2, <2>3
<1>2. TrueDecisions'
  <2>1. CASE UNCHANGED <<pc, at, out, dec>>
    BY <1>1, <2>1 DEF GateInv, TrueDecisions
  <2>2. CASE \E t \in Tasks : Queued(t, Undecided)
    BY <1>1, <2>2 DEF GateInv, TrueDecisions, Queued, OthersUnchanged, Undecided
  <2>3. CASE \E t \in Tasks, i \in Approvals :
               ResumeFromHitl(i, t) /\ Queued(t, [gate |-> appr[i].gate, action |-> appr[i].state])
    BY <1>1, <2>3 DEF GateInv, TrueApprovals, TrueDecisions, Queued, OthersUnchanged
  <2> QED
    BY <2>1, <2>2, <2>3, OutsideFrame
<1>3. \A t \in Tasks : at'[t] = at[t] /\ (pc'[t] = "record" => pc[t] = "record" /\ out'[t] = out[t])
  BY OutsideFrame DEF Queued, OthersUnchanged
<1> QED
  BY <1>1, <1>2, <1>3 DEF GateInv, GateHolds, TrueRecords, TrueResults, Released

\* Nothing after an approval step runs before somebody approved it, or the approval itself
\* failed and its approving default released it: not by a redelivery, a sweep, a skip, an
\* unread row, a second executor or a decision for another step.
THEOREM GatesHold == Spec => []GateHolds
<1>1. Init => GateInv
  BY FirstPasses DEF Init, GateInv, GateHolds, TrueRecords, TrueApprovals, TrueDecisions,
        TrueResults, NoApproval, Undecided, Released
<1>2. TypeOK /\ GateInv /\ [Next]_vars => GateInv'
  <2>1. CASE UNCHANGED vars
    BY <2>1 DEF vars, GateInv, GateHolds, TrueRecords, TrueApprovals, TrueDecisions, TrueResults,
          Released, rows, gates, tasks
  <2> QED
    BY <2>1, TaskStepGates, TaskFaultGates, OutsideGates DEF Next
<1>3. Spec => []GateInv
  BY <1>1, <1>2, TypeCorrect, PTL DEF Spec
<1>4. GateInv => GateHolds
  BY DEF GateInv
<1> QED
  BY <1>3, <1>4, PTL

(***************************************************************************)
(* A run that waits for an approval.  While it waits, an approval is open  *)
(* or a task with a decision is queued or loading; while a task is in the  *)
(* graph the run does not wait yet, but a task that is about to suspend it *)
(* has something to wait for, which is not itself.                         *)
(***************************************************************************)
Quiet == ~lost /\ slaPause = 0
NoneEvicted == ~lost => evicted = {}
RegatesAfterSla == op = "regate" => slaPause # 0

InGraph(t) == pc[t] \in {"step", "called", "register", "record", "finish"}
Suspending(t) == pc[t] \in {"record", "finish"} /\ out[t] = "waiting_hitl"
Awaited(where) ==
    \/ \E i \in Approvals : appr[i] # NoApproval
    \/ \E u \in Tasks : pc[u] \in where /\ dec[u] # Undecided

NotYetWaiting == \A t \in Tasks : InGraph(t) => status # "waiting_hitl"
WillBeAwaited == \A t \in Tasks : Suspending(t) => status \in Terminal \/ Awaited({"queued"})
IsAwaited == status = "waiting_hitl" => Awaited({"queued", "loading"})
WaitCore == NotYetWaiting /\ WillBeAwaited /\ IsAwaited

WaitInv == NoneEvicted /\ RegatesAfterSla /\ (Quiet => WaitCore)

\* The three parts at once, for a step that creates no new duty to wait.
LEMMA WaitKept ==
    ASSUME WaitCore,
           \A u \in Tasks : InGraph(u)' /\ status' = "waiting_hitl" => InGraph(u) /\ status' = status,
           \A u \in Tasks : Suspending(u)' => Suspending(u),
           status \in Terminal => status' \in Terminal,
           status' = "waiting_hitl" => status = "waiting_hitl",
           status' \notin Terminal /\ Awaited({"queued"}) => Awaited({"queued"})',
           status' = "waiting_hitl" /\ Awaited({"queued", "loading"})
               => Awaited({"queued", "loading"})'
    PROVE  WaitCore'
  BY DEF WaitCore, NotYetWaiting, WillBeAwaited, IsAwaited

\* A decision on its way stays on its way.
LEMMA StillAwaited ==
    ASSUME NEW where, appr' = appr,
           \A u \in Tasks : pc[u] \in where /\ dec[u] # Undecided
                                => pc'[u] \in where /\ dec'[u] = dec[u]
    PROVE  Awaited(where) => Awaited(where)'
  BY DEF Awaited

\* Without a lost lease one task executes.
LEMMA Alone ==
    ASSUME HoldsLease, NoneEvicted, ~lost, NEW t \in Tasks, NEW u \in Tasks,
           Executing(t), Executing(u)
    PROVE  t = u
  BY DEF HoldsLease, NoneEvicted

\* A status other than an end leaves the approvals as they are.
LEMMA NothingWithdrawn ==
    ASSUME TypeOK, NEW s, NEW from, UpdateStatus(s, from), s \notin Terminal
    PROVE  appr' = appr /\ status' = IF status \in from THEN s ELSE status
<1>1. Withdrawn(s) = appr
  BY DEF TypeOK, Withdrawn
<1> QED
  BY <1>1 DEF UpdateStatus

\* The holder of the lease moves inside the graph of a run that is not parked.
LEMMA StepInGraph ==
    ASSUME TypeOK, WaitCore, NEW t \in Tasks, OthersUnchanged(t), UNCHANGED <<status, appr>>,
           InGraph(t), pc'[t] # "queued", dec'[t] = dec[t], Suspending(t)' => Suspending(t)
    PROVE  WaitCore'
<1>1. status # "waiting_hitl"
  BY DEF WaitCore, NotYetWaiting
<1>2. \A u \in Tasks : Suspending(u)' => Suspending(u)
  BY DEF OthersUnchanged, Suspending
<1>3. Awaited({"queued"}) => Awaited({"queued"})'
  BY StillAwaited DEF InGraph, OthersUnchanged
<1> QED
  BY <1>1, <1>2, <1>3, WaitKept

\* A task parks the run only behind the approval it has opened.
LEMMA TaskStepWaits ==
    ASSUME TypeInv, HoldsLease, NoneEvicted, Quiet, WaitCore, NEW t \in Tasks, TaskStep(t)
    PROVE  WaitCore'
<1> USE DEF TypeInv
<1>0. OthersUnchanged(t)
  BY TaskFrame
<1>a. ~lost
  BY DEF Quiet
<1>b. ASSUME Executing(t) PROVE \A u \in Tasks \ {t} : ~Executing(u) /\ ~InGraph(u) /\ ~Suspending(u)
  BY <1>a, <1>b, Alone DEF InGraph, Suspending, Executing
<1>1. CASE Acquire(t)
  <2>1. \A u \in Tasks : ~InGraph(u)' /\ ~Suspending(u)'
    <3>1. \A u \in Tasks : ~Executing(u)
      BY <1>1, <1>a, NoTask DEF Acquire, HoldsLease, NoneEvicted
    <3> QED
      BY <1>0, <1>1, <3>1 DEF TypeOK, Acquire, Goto, OthersUnchanged, Executing, InGraph, Suspending
  <2>2. Awaited({"queued", "loading"}) => Awaited({"queued", "loading"})'
    BY <1>0, <1>1, StillAwaited DEF TypeOK, Acquire, Goto, OthersUnchanged
  <2> QED
    BY <1>1, <2>1, <2>2 DEF Acquire, WaitCore, NotYetWaiting, WillBeAwaited, IsAwaited
<1>2. CASE Release(t)
  <2>1. \A u \in Tasks : (InGraph(u)' => InGraph(u)) /\ (Suspending(u)' => Suspending(u))
    BY <1>0, <1>2 DEF TypeOK, Release, Goto, OthersUnchanged, InGraph, Suspending
  <2>2. /\ Awaited({"queued"}) => Awaited({"queued"})'
        /\ Awaited({"queued", "loading"}) => Awaited({"queued", "loading"})'
    BY <1>0, <1>2, StillAwaited DEF Release, Goto, OthersUnchanged
  <2> QED
    BY <1>2, <2>1, <2>2, WaitKept DEF Release
<1>3. CASE Start(t)
  <2>1. /\ appr' = appr
        /\ status' = IF status \in StartableFrom(t) THEN "running" ELSE status
    BY <1>3, NothingWithdrawn DEF Start, Terminal
  <2>2. \A u \in Tasks \ {t} : ~InGraph(u)' /\ ~Suspending(u)'
    BY <1>0, <1>3, <1>b DEF Start, Executing, OthersUnchanged, InGraph, Suspending
  <2>3. ~Suspending(t)' /\ (InGraph(t)' => status' = "running")
    BY <1>3, <2>1 DEF TypeOK, Start, InGraph, Suspending
  <2>4. status' = "waiting_hitl" => Awaited({"queued", "loading"})'
    <3> SUFFICES ASSUME status' = "waiting_hitl" PROVE Awaited({"queued", "loading"})'
      OBVIOUS
    <3>1. status = "waiting_hitl" /\ dec[t] = Undecided
      BY <2>1 DEF StartableFrom
    <3> QED
      BY <1>0, <1>3, <2>1, <3>1, StillAwaited
      DEF Start, OthersUnchanged, WaitCore, IsAwaited
  <2> QED
    BY <2>2, <2>3, <2>4 DEF WaitCore, NotYetWaiting, WillBeAwaited, IsAwaited
<1>4. CASE Finalize(t)
  <2>1. \A u \in Tasks : ~InGraph(u)' /\ ~Suspending(u)'
    BY <1>0, <1>4, <1>b DEF TypeOK, Finalize, Leave, Executing, OthersUnchanged, InGraph, Suspending
  <2>2. status' = "waiting_hitl" => Awaited({"queued", "loading"})'
    <3> SUFFICES ASSUME status' = "waiting_hitl" PROVE Awaited({"queued", "loading"})'
      OBVIOUS
    <3>1. status \in Live /\ status # "waiting_hitl" /\ out[t] = "waiting_hitl"
      BY <1>4 DEF Finalize, UpdateStatus, InGraph, WaitCore, NotYetWaiting
    <3>2. Awaited({"queued"}) /\ appr' = appr
      BY <1>4, <3>1, NothingWithdrawn
      DEF Finalize, Suspending, WaitCore, WillBeAwaited, Live, Terminal
    <3>3. Awaited({"queued"})'
      BY <1>0, <1>4, <3>2, StillAwaited DEF Finalize, OthersUnchanged
    <3> QED
      BY <3>3 DEF Awaited
  <2> QED
    BY <2>1, <2>2 DEF WaitCore, NotYetWaiting, WillBeAwaited, IsAwaited
<1>5. CASE \E i \in Approvals : CreateApproval(t, i)
  <2>1. \A where : Awaited(where)'
    BY <1>5 DEF TypeOK, CreateApproval, Awaited, NoApproval
  <2>2. status' # "waiting_hitl"
    BY <1>5 DEF CreateApproval, Result, Goto, InGraph, WaitCore, NotYetWaiting
  <2> QED
    BY <2>1, <2>2 DEF WaitCore, NotYetWaiting, WillBeAwaited, IsAwaited
<1>6. CASE Replay(t)
  BY <1>0, <1>6, StepInGraph DEF TypeOK, Replay, Proceed, InGraph, Suspending
<1>7. CASE Stopped(t) \/ BeginStep(t) \/ WaitGoesOn(t)
  BY <1>0, <1>7, StepInGraph
  DEF TypeOK, Stopped, BeginStep, WaitGoesOn, Leave, Goto, InGraph, Suspending
<1>8. CASE \/ WorkSucceeds(t) \/ StepFails(t) \/ DefaultApproves(t) \/ ProcessDecision(t)
           \/ WaitOver(t) \/ RegisterWait(t)
  <2>1. /\ InGraph(t) /\ pc'[t] = "record" /\ out'[t] # "waiting_hitl" /\ dec'[t] = dec[t]
        /\ UNCHANGED <<status, appr>>
    BY <1>8 DEF TypeOK, WorkSucceeds, StepFails, DefaultApproves, ProcessDecision, Verdict, WaitOver,
          RegisterWait, Result, Goto, InGraph
  <2> QED
    BY <1>0, <2>1, StepInGraph DEF Suspending
<1>9. CASE RecordStep(t)
  BY <1>0, <1>9, StepInGraph DEF TypeOK, RecordStep, AfterStep, Proceed, InGraph, Suspending
<1> QED
  BY <1>1, <1>2, <1>3, <1>4, <1>5, <1>6, <1>7, <1>8, <1>9 DEF TaskStep

\* A fault keeps the duty, unless it is recorded as the loss of a decision.
LEMMA TaskFaultWaits ==
    ASSUME TypeInv, Quiet, WaitCore, NEW t \in Tasks, TaskFault(t), ~lost'
    PROVE  WaitCore'
<1> USE DEF TypeInv
<1>0. OthersUnchanged(t)
  BY TaskFrame
<1>1. CASE GiveUp(t) \/ TaskFails(t)
  <2>1. dec[t] = Undecided
    BY <1>1, Zenon DEF GiveUp, TaskFails
  <2>2. \A u \in Tasks : (InGraph(u)' => InGraph(u)) /\ (Suspending(u)' => Suspending(u))
    BY <1>0, <1>1 DEF TypeOK, GiveUp, TaskFails, Leave, Goto, OthersUnchanged, InGraph, Suspending
  <2>3. /\ Awaited({"queued"}) => Awaited({"queued"})'
        /\ Awaited({"queued", "loading"}) => Awaited({"queued", "loading"})'
    BY <1>0, <1>1, <2>1, StillAwaited DEF GiveUp, TaskFails, OthersUnchanged
  <2> QED
    BY <1>1, <2>2, <2>3, WaitKept DEF GiveUp, TaskFails
<1>2. CASE WorkerDies(t)
  <2>1. \/ pc'[t] = "queued" /\ dec' = dec
        \/ pc'[t] = "free" /\ dec[t] = Undecided
    <3>1. \/ pc' = [pc EXCEPT ![t] = "queued"] /\ UNCHANGED <<dec, lost>>
          \/ pc' = [pc EXCEPT ![t] = "free"] /\ lost' = (lost \/ dec[t] # Undecided)
      BY <1>2, Zenon DEF WorkerDies
    <3>2. UNCHANGED <<dec, lost>> => dec' = dec
      OBVIOUS
    <3>3. lost' = (lost \/ dec[t] # Undecided) => dec[t] = Undecided
      BY Zenon
    <3>4. \/ pc' = [pc EXCEPT ![t] = "queued"] /\ dec' = dec
          \/ pc' = [pc EXCEPT ![t] = "free"] /\ dec[t] = Undecided
      BY <3>1, <3>2, <3>3, Zenon
    <3> QED
      BY <3>4 DEF TypeOK
  <2>2. \A u \in Tasks : (InGraph(u)' => InGraph(u)) /\ (Suspending(u)' => Suspending(u))
    BY <1>0, <2>1 DEF OthersUnchanged, InGraph, Suspending
  <2>3. /\ Awaited({"queued"}) => Awaited({"queued"})'
        /\ Awaited({"queued", "loading"}) => Awaited({"queued", "loading"})'
    BY <1>0, <1>2, <2>1, StillAwaited DEF WorkerDies, OthersUnchanged
  <2> QED
    BY <1>2, <2>2, <2>3, WaitKept DEF WorkerDies
<1>3. ~LeaseLost(t) /\ ~StartUnrecorded(t)
  BY DEF LeaseLost, StartUnrecorded
<1>4. CASE BeginUnread(t)
  BY <1>0, <1>4, StepInGraph DEF TypeOK, BeginUnread, Goto, InGraph, Suspending
<1>5. CASE RecordFails(t)
  BY <1>0, <1>5, StepInGraph DEF TypeOK, RecordFails, AfterStep, Proceed, InGraph, Suspending
<1> QED
  BY <1>1, <1>2, <1>3, <1>4, <1>5 DEF TaskFault

\* A decided approval goes over into the task that carries the decision.
LEMMA ApprovalWaits ==
    ASSUME TypeOK, Quiet, WaitCore, NEW i \in Approvals, ApprovalStep(i), Quiet'
    PROVE  WaitCore'
<1>0. ASSUME UNCHANGED <<status, pc, out, dec>>, appr'[i] # NoApproval PROVE WaitCore'
  <2>1. \A where : Awaited(where)'
    BY <1>0 DEF Awaited
  <2>2. \A u \in Tasks : (InGraph(u)' <=> InGraph(u)) /\ (Suspending(u)' <=> Suspending(u))
    BY <1>0 DEF InGraph, Suspending
  <2> QED
    BY <1>0, <2>1, <2>2, WaitKept
<1>a. ASSUME NEW a \in {"overdue", "approve", "reject"}, appr' = [appr EXCEPT ![i].state = a],
             appr[i] # NoApproval
      PROVE  appr'[i] # NoApproval
  <2>1. appr[i] \in [gate : GateSteps, state : {"pending", "overdue", "approve", "reject"}]
    BY <1>a DEF TypeOK, Approval
  <2>2. appr'[i].state = a
    BY <1>a, <2>1 DEF TypeOK
  <2> QED
    BY <2>2 DEF NoApproval
<1>1. CASE Decide(i) \/ SlaEscalates(i) \/ SlaDecides(i)
  BY <1>0, <1>1, <1>a DEF Decide, Decidable, IsPending, SlaEscalates, SlaDecides, Decided, NoApproval
<1>2. CASE SlaPauses(i)
  <2>1. appr[i].gate # 0
    BY <1>2, WorkflowAssumption DEF SlaPauses, TypeOK, Approval, NoApproval
  <2>2. status # "waiting_hitl"
    BY <1>2, <2>1 DEF SlaPauses, Quiet
  <2> QED
    BY <1>0, <1>2, <1>a, <2>2 DEF SlaPauses, NoApproval
<1>3. CASE SlaExpires(i)
  BY <1>3 DEF SlaExpires, Terminal, WaitCore, NotYetWaiting, WillBeAwaited, IsAwaited
<1>4. ~ResumeNotSent(i)
  BY DEF ResumeNotSent, Quiet
<1>5. ASSUME NEW t \in Tasks, ResumeFromHitl(i, t) PROVE WaitCore'
  <2>1. Queued(t, [gate |-> appr[i].gate, action |-> appr[i].state])
    BY <1>5, DispatchFrame DEF ResumeFromHitl
  <2>2. Awaited({"queued"})' /\ Awaited({"queued", "loading"})'
    BY <1>5, <2>1 DEF ResumeFromHitl, Queued, Awaited, Undecided
  <2>3. \A u \in Tasks : (InGraph(u)' => InGraph(u)) /\ (Suspending(u)' => Suspending(u))
    BY <2>1 DEF Queued, OthersUnchanged, InGraph, Suspending
  <2> QED
    BY <1>5, <2>2, <2>3, WaitKept DEF ResumeFromHitl
<1> QED
  BY <1>1, <1>2, <1>3, <1>4, <1>5 DEF ApprovalStep

\* What operators and beats do to the tasks is at most to queue one without a decision.
LEMMA OperatorAndBeatWaits ==
    ASSUME TypeOK, RegatesAfterSla, Quiet, WaitCore, OperatorStep \/ BeatStep
    PROVE  WaitCore'
<1>1. UNCHANGED <<pc, out, dec>> \/ \E t \in Tasks : Queued(t, Undecided)
  <2>1. CASE OperatorStep
    BY <2>1, DispatchFrame DEF OperatorStep, PauseRead, PauseWrite, ResumeRead, ResumeWrite, Request,
          RegateWrite, CancelRun, ResumeDispatchFails, ResumeDispatch
  <2>2. CASE BeatStep
    BY <2>2, DispatchFrame DEF BeatStep, LeaseExpires, ClaimDueTimerWaits, WakeDispatchFails,
          WakeDispatch, RedispatchStuckRun, DeadlinePasses, DeliverEvent
  <2> QED
    BY <2>1, <2>2
<1>2. \A u \in Tasks : (InGraph(u)' => InGraph(u)) /\ (Suspending(u)' => Suspending(u))
  BY <1>1 DEF Queued, OthersUnchanged, InGraph, Suspending
<1>3. ASSUME appr' = appr
      PROVE  /\ Awaited({"queued"}) => Awaited({"queued"})'
             /\ Awaited({"queued", "loading"}) => Awaited({"queued", "loading"})'
  BY <1>1, <1>3, StillAwaited DEF Queued, OthersUnchanged
<1>4. CASE OperatorStep
  <2>1. CASE PauseRead \/ ResumeRead \/ ResumeDispatchFails \/ \E t \in Tasks : ResumeDispatch(t)
    BY <1>2, <1>3, <2>1, WaitKept
    DEF PauseRead, ResumeRead, Request, ResumeDispatchFails, ResumeDispatch
  <2>2. CASE PauseWrite \/ ResumeWrite
    <3>1. /\ appr' = appr /\ status' # "waiting_hitl"
          /\ status \in Terminal => status' = status
      <4>1. CASE PauseWrite
        BY <4>1, NothingWithdrawn DEF PauseWrite, TypeOK, Live, Terminal
      <4>2. CASE ResumeWrite
        BY <4>2, NothingWithdrawn DEF ResumeWrite, TypeOK, Live, Terminal
      <4> QED
        BY <2>2, <4>1, <4>2
    <3> QED
      BY <1>2, <1>3, <3>1, WaitKept
  <2>3. ~RegateWrite
    BY DEF RegateWrite, RegatesAfterSla, Quiet
  <2>4. CASE CancelRun
    <3>1. status' = "cancelled"
      BY <2>4 DEF CancelRun, UpdateStatus
    <3> QED
      BY <3>1 DEF Terminal, WaitCore, NotYetWaiting, WillBeAwaited, IsAwaited
  <2> QED
    BY <1>4, <2>1, <2>2, <2>3, <2>4 DEF OperatorStep
<1>5. CASE BeatStep
  <2>1. /\ appr' = appr /\ (status' = status \/ status' \in {"pending", "waiting_timer"})
        /\ status \in Terminal => status' = status
    BY <1>5 DEF BeatStep, LeaseExpires, ClaimDueTimerWaits, WakeDispatchFails, WakeDispatch,
          RedispatchStuckRun, DeadlinePasses, DeliverEvent, Terminal
  <2> QED
    BY <1>2, <1>3, <2>1, WaitKept
<1> QED
  BY <1>4, <1>5

\* A lost lease, an SLA pause and a lost decision stay on record.
LEMMA QuietBefore ==
    ASSUME TypeOK, Next
    PROVE  /\ ~lost' => ~lost
           /\ slaPause' = 0 => slaPause = 0
           /\ ~lost' => evicted' \subseteq evicted
           /\ op' = "regate" => slaPause' # 0 \/ op = "regate"
<1>1. ASSUME NEW t \in Tasks, TaskStep(t)
      PROVE  UNCHANGED <<lost, slaPause, op>> /\ evicted' \subseteq evicted
  BY <1>1 DEF TaskStep, Acquire, Release, Start, Finalize, Replay, Stopped, BeginStep,
        WorkSucceeds, StepFails, DefaultApproves, ProcessDecision, CreateApproval, WaitOver, WaitGoesOn,
        RegisterWait, RecordStep
<1>2. ASSUME NEW t \in Tasks, TaskFault(t)
      PROVE  UNCHANGED <<slaPause, op>> /\ (~lost' => ~lost) /\ (~lost' => evicted' \subseteq evicted)
  <2>1. UNCHANGED <<slaPause, op>> /\ (~lost' => evicted' \subseteq evicted)
    BY <1>2 DEF TaskFault, GiveUp, TaskFails, WorkerDies, LeaseLost, StartUnrecorded,
          BeginUnread, RecordFails
  <2>2. ~lost' => ~lost
    <3>1. CASE GiveUp(t) \/ TaskFails(t)
      BY <3>1, Zenon DEF GiveUp, TaskFails
    <3>2. CASE WorkerDies(t)
      <4>1. ASSUME lost' = (lost \/ dec[t] # Undecided) PROVE ~lost' => ~lost
        BY <4>1, Zenon
      <4> QED
        BY <3>2, <4>1 DEF WorkerDies
    <3>3. CASE LeaseLost(t) \/ StartUnrecorded(t) \/ BeginUnread(t) \/ RecordFails(t)
      BY <3>3 DEF LeaseLost, StartUnrecorded, BeginUnread, RecordFails
    <3> QED
      BY <1>2, <3>1, <3>2, <3>3 DEF TaskFault
  <2> QED
    BY <2>1, <2>2
<1>3. ASSUME NEW i \in Approvals, ApprovalStep(i)
      PROVE  UNCHANGED <<evicted, op>> /\ (~lost' => ~lost) /\ (slaPause' = 0 => slaPause = 0)
  <2>1. CASE SlaPauses(i)
    <3>1. appr[i].gate # 0
      BY <2>1, WorkflowAssumption DEF SlaPauses, TypeOK, Approval, NoApproval
    <3> QED
      BY <2>1, <3>1 DEF SlaPauses
  <2>2. CASE \/ Decide(i) \/ SlaExpires(i) \/ SlaEscalates(i) \/ SlaDecides(i) \/ ResumeNotSent(i)
             \/ \E t \in Tasks : ResumeFromHitl(i, t)
    BY <2>2 DEF Decide, SlaExpires, SlaEscalates, SlaDecides, ResumeNotSent, ResumeFromHitl
  <2> QED
    BY <1>3, <2>1, <2>2 DEF ApprovalStep
<1>4. CASE OperatorStep
  BY <1>4 DEF OperatorStep, PauseRead, PauseWrite, ResumeRead, ResumeWrite, Request, RegateWrite,
        CancelRun, ResumeDispatchFails, ResumeDispatch
<1>5. CASE BeatStep
  BY <1>5 DEF BeatStep, LeaseExpires, ClaimDueTimerWaits, WakeDispatchFails, WakeDispatch,
        RedispatchStuckRun, DeadlinePasses, DeliverEvent
<1> QED
  BY <1>1, <1>2, <1>3, <1>4, <1>5 DEF Next

\* Every step keeps a parked run awaited.
LEMMA NextWaits ==
    ASSUME TypeInv, HoldsLease, WaitInv, [Next]_vars
    PROVE  WaitInv'
<1>1. CASE UNCHANGED vars
  BY <1>1 DEF vars, WaitInv, NoneEvicted, RegatesAfterSla, Quiet, WaitCore, NotYetWaiting,
        WillBeAwaited, IsAwaited, InGraph, Suspending, Awaited
<1>2. CASE Next
  <2>1. NoneEvicted' /\ RegatesAfterSla'
    <3>1. slaPause' = slaPause \/ slaPause' # 0
      BY <1>2, QuietBefore DEF TypeInv
    <3> QED
      BY <1>2, <3>1, QuietBefore DEF TypeInv, WaitInv, NoneEvicted, RegatesAfterSla
  <2>2. ASSUME Quiet' PROVE WaitCore'
    <3>1. Quiet /\ ~lost'
      BY <1>2, <2>2, QuietBefore DEF TypeInv, Quiet
    <3> QED
      BY <1>2, <2>2, <3>1, TaskStepWaits, TaskFaultWaits, ApprovalWaits, OperatorAndBeatWaits
      DEF Next, TypeInv, WaitInv
  <2> QED
    BY <2>1, <2>2 DEF WaitInv
<1> QED
  BY <1>1, <1>2

\* A run parked for an approval is never parked for nothing: the approval is open, or a
\* task carries its decision, whatever the interleaving of workers, reviewers and sweeps.
THEOREM ParkedRunIsAwaited == Spec => []WaitsForSomebody
<1>1. Init => TypeInv /\ HoldsLease /\ WaitInv
  <2>1. Init => HoldsLease /\ WaitInv
    BY DEF Init, HoldsLease, Executing, WaitInv, NoneEvicted, RegatesAfterSla, Quiet, WaitCore,
          NotYetWaiting, WillBeAwaited, IsAwaited, InGraph, Suspending
  <2> QED
    BY <2>1, InitType
<1>2. TypeInv /\ HoldsLease /\ WaitInv /\ [Next]_vars => (TypeInv /\ HoldsLease /\ WaitInv)'
  BY NextType, NextLease, NextWaits DEF TypeInv
<1>3. WaitInv => WaitsForSomebody
  BY DEF WaitInv, Quiet, WaitCore, IsAwaited, Awaited, WaitsForSomebody
<1>4. Spec => [](TypeInv /\ HoldsLease /\ WaitInv)
  BY <1>1, <1>2, PTL DEF Spec
<1> QED
  BY <1>3, <1>4, PTL

(***************************************************************************)
(* Effects.  Every call of a step that may still succeed is paid for: by   *)
(* the first execution, or by a fault.  The invariant counts, for one      *)
(* step, the calls that succeeded, the executors without a lease that may  *)
(* still make the call, and whether the executor with the lease, or the    *)
(* next one, may.                                                          *)
(***************************************************************************)
Normal == Steps \ (GateSteps \cup WaitSteps)

\* t is inside the step and has not succeeded; t has an outcome that finishes the step.
Busy(t, s) ==
    at[t] = s /\ (pc[t] = "called" \/ (pc[t] = "record" /\ out[t] \notin {"done", "skipped"}))
Closing(t, s) == at[t] = s /\ pc[t] = "record" /\ out[t] \in {"done", "skipped"}

\* t may still come to call the step.
Ahead(t, s) ==
    \/ pc[t] \in {"loading", "step"} /\ at[t] <= s
    \/ pc[t] \in {"called", "register", "record"} /\ at[t] < s
    \/ Busy(t, s)

\* The executors without a lease that may.
Late(s) == {t \in evicted : Ahead(t, s)}

\* Whether the one with the lease may, or whoever takes the lease after it.
MayCall(s) ==
    \/ \E t \in Tasks \ evicted : Busy(t, s)
    \/ s \notin done /\ \A t \in Tasks \ evicted : ~Closing(t, s)
Open(s) == IF MayCall(s) THEN 1 ELSE 0

Quota(s) == effect[s] + Cardinality(Late(s)) + Open(s) <= 1 + faults

EvictedExecute == \A t \in evicted : Executing(t)
NoCallOfWaits == \A s \in GateSteps \cup WaitSteps : effect[s] = 0
RegisterAtWait == \A t \in Tasks : pc[t] = "register" => at[t] \in WaitSteps
EffectInv == EvictedExecute /\ NoCallOfWaits /\ RegisterAtWait /\ \A s \in Normal : Quota(s)

\* The evicted executors can be counted.
LEMMA LateFinite ==
    ASSUME TypeOK, NEW s
    PROVE  IsFiniteSet(Late(s)) /\ Cardinality(Late(s)) \in Nat
<1>1. IsFiniteSet(Tasks)
  BY FS_Interval, WorkflowAssumption DEF Tasks
<1>2. Late(s) \subseteq Tasks
  BY DEF TypeOK, Late
<1> QED
  BY <1>1, <1>2, FS_Subset, FS_CardinalityType

\* How far one member more or less moves the size of a set.
LEMMA SizeMoves ==
    ASSUME NEW A, NEW B, IsFiniteSet(A), IsFiniteSet(B), NEW t
    PROVE  /\ B \subseteq A => Cardinality(B) <= Cardinality(A)
           /\ t \in A /\ B \subseteq A \ {t} => Cardinality(B) + 1 <= Cardinality(A)
           /\ B \subseteq A \cup {t} => Cardinality(B) <= Cardinality(A) + 1
<1>0. Cardinality(A) \in Nat /\ Cardinality(B) \in Nat
  BY FS_CardinalityType
<1>1. B \subseteq A => Cardinality(B) <= Cardinality(A)
  BY FS_Subset
<1>2. ASSUME t \in A, B \subseteq A \ {t} PROVE Cardinality(B) + 1 <= Cardinality(A)
  <2>1. IsFiniteSet(A \ {t}) /\ Cardinality(A \ {t}) = Cardinality(A) - 1
    BY <1>2, FS_RemoveElement
  <2>2. Cardinality(B) <= Cardinality(A \ {t})
    BY <1>2, <2>1, FS_Subset
  <2> QED
    BY <1>0, <2>1, <2>2
<1>3. ASSUME B \subseteq A \cup {t} PROVE Cardinality(B) <= Cardinality(A) + 1
  <2>1. /\ IsFiniteSet(A \cup {t})
        /\ Cardinality(A \cup {t}) = Cardinality(A) \/ Cardinality(A \cup {t}) = Cardinality(A) + 1
    BY FS_AddElement
  <2>2. Cardinality(B) <= Cardinality(A \cup {t})
    BY <1>3, <2>1, FS_Subset
  <2> QED
    BY <1>0, <2>1, <2>2
<1> QED
  BY <1>1, <1>2, <1>3

\* The bookkeeping of a step: what it takes from one term it may give to another, and a
\* fault gives one.
LEMMA Bookkeeping ==
    ASSUME TypeOK, TypeOK', NEW s \in Normal, Quota(s), NEW t,
           \/ /\ Late(s)' \subseteq Late(s)
              /\ effect'[s] + Open(s)' + faults <= effect[s] + Open(s) + faults'
           \/ /\ t \in Late(s) /\ Late(s)' \subseteq Late(s) \ {t}
              /\ effect'[s] + Open(s)' + faults <= effect[s] + Open(s) + faults' + 1
           \/ /\ Late(s)' \subseteq Late(s) \cup {t}
              /\ effect'[s] + Open(s)' + faults + 1 <= effect[s] + Open(s) + faults'
    PROVE  Quota(s)'
<1>1. /\ effect[s] \in Nat /\ effect'[s] \in Nat /\ faults \in Nat /\ faults' \in Nat
      /\ Open(s) \in {0, 1} /\ Open(s)' \in {0, 1}
  BY DEF TypeOK, Normal, Open
<1>2. IsFiniteSet(Late(s)) /\ IsFiniteSet(Late(s)')
  <2>1. IsFiniteSet(Late(s))
    BY LateFinite
  <2>2. IsFiniteSet(Late(s))'
    BY LateFinite, PTL
  <2> QED
    BY <2>1, <2>2
<1>3. Cardinality(Late(s)) \in Nat /\ Cardinality(Late(s)') \in Nat
  BY <1>2, FS_CardinalityType
<1>4. /\ Late(s)' \subseteq Late(s) => Cardinality(Late(s)') <= Cardinality(Late(s))
      /\ t \in Late(s) /\ Late(s)' \subseteq Late(s) \ {t}
             => Cardinality(Late(s)') + 1 <= Cardinality(Late(s))
      /\ Late(s)' \subseteq Late(s) \cup {t} => Cardinality(Late(s)') <= Cardinality(Late(s)) + 1
  BY <1>2, SizeMoves
<1>5. effect'[s] + Cardinality(Late(s)') + Open(s)' <= 1 + faults'
  <2> HIDE DEF Late, Open
  <2> QED
    BY <1>1, <1>3, <1>4 DEF Quota
<1> QED
  BY <1>5 DEF Quota

\* The executor with the lease is the only one at work that has not lost it.
LEMMA AloneWithLease ==
    ASSUME TypeOK, HoldsLease, NEW t \in Tasks \ evicted, Executing(t)
    PROVE  \A u \in Tasks \ evicted : u # t => ~Executing(u)
  BY DEF HoldsLease

\* A step of t that is not inside the step s, before or after, moves nothing.
LEMMA ElsewhereQuota ==
    ASSUME TypeOK, TypeOK', NEW s \in Normal, Quota(s), NEW t \in Tasks, OthersUnchanged(t),
           evicted' \in {evicted, evicted \ {t}}, effect'[s] = effect[s],
           s \in done' <=> s \in done, faults' \in {faults, faults + 1},
           t \in evicted' /\ Ahead(t, s)' => Ahead(t, s),
           ~Busy(t, s), ~Closing(t, s), ~Busy(t, s)', ~Closing(t, s)'
    PROVE  Quota(s)'
<1>1. \A u \in Tasks \ {t} : /\ Ahead(u, s)' <=> Ahead(u, s)
                             /\ Busy(u, s)' <=> Busy(u, s)
                             /\ Closing(u, s)' <=> Closing(u, s)
  BY DEF OthersUnchanged, Ahead, Busy, Closing
<1> USE DEF TypeOK
<1>2. Late(s)' \subseteq Late(s)
  BY <1>1 DEF Late
<1>3. MayCall(s)' => MayCall(s)
  BY <1>1 DEF MayCall
<1>4. effect'[s] + Open(s)' + faults <= effect[s] + Open(s) + faults'
  BY <1>3 DEF Open, Normal
<1> QED
  BY <1>2, <1>4, Bookkeeping

\* A fault pays for whatever it does to the run's rows.
LEMMA FaultQuota ==
    ASSUME TypeOK, TypeOK', NEW s \in Normal, Quota(s), NEW t \in Tasks, OthersUnchanged(t),
           evicted' \subseteq evicted, effect'[s] = effect[s], faults' = faults + 1,
           t \in evicted' /\ Ahead(t, s)' => Ahead(t, s)
    PROVE  Quota(s)'
<1>1. \A u \in Tasks \ {t} : Ahead(u, s)' <=> Ahead(u, s)
  BY DEF OthersUnchanged, Ahead, Busy
<1>2. Late(s)' \subseteq Late(s)
  BY <1>1 DEF TypeOK, Late
<1>3. effect'[s] + Open(s)' + faults <= effect[s] + Open(s) + faults'
  BY DEF TypeOK, Open, Normal
<1> QED
  BY <1>2, <1>3, Bookkeeping

\* What a step of t inside s does when t has lost the lease: only Late and the row move.
LEMMA InsideLate ==
    ASSUME TypeOK, NEW s \in Normal, NEW t \in evicted, OthersUnchanged(t), evicted' = evicted
    PROVE  /\ Late(s)' \subseteq Late(s) \cup {t}
           /\ ~Ahead(t, s)' => Late(s)' \subseteq Late(s) \ {t}
           /\ (s \notin done' => s \notin done) => (MayCall(s)' => MayCall(s))
<1>1. \A u \in Tasks \ {t} : /\ Ahead(u, s)' <=> Ahead(u, s)
                             /\ Busy(u, s)' <=> Busy(u, s)
                             /\ Closing(u, s)' <=> Closing(u, s)
  BY DEF OthersUnchanged, Ahead, Busy, Closing
<1> USE DEF TypeOK
<1>2. /\ Late(s)' \subseteq Late(s) \cup {t}
      /\ ~Ahead(t, s)' => Late(s)' \subseteq Late(s) \ {t}
  BY <1>1 DEF Late
<1>3. (s \notin done' => s \notin done) => (MayCall(s)' => MayCall(s))
  BY <1>1 DEF MayCall
<1> QED
  BY <1>2, <1>3

\* And when t has the lease: Late is left alone, and t alone decides whether s is open.
LEMMA InsideLeased ==
    ASSUME TypeOK, HoldsLease, NEW s \in Normal, NEW t \in Tasks \ evicted, Executing(t),
           OthersUnchanged(t), evicted' = evicted
    PROVE  /\ Late(s)' \subseteq Late(s)
           /\ MayCall(s) <=> Busy(t, s) \/ (s \notin done /\ ~Closing(t, s))
           /\ MayCall(s)' <=> Busy(t, s)' \/ (s \notin done' /\ ~Closing(t, s)')
<1>1. \A u \in Tasks \ {t} : Ahead(u, s)' <=> Ahead(u, s)
  BY DEF OthersUnchanged, Ahead, Busy
<1>2. Late(s)' \subseteq Late(s)
  BY <1>1 DEF TypeOK, Late
<1>3. \A u \in Tasks \ evicted : u # t => ~Executing(u)
  BY AloneWithLease
<1>4. \A u \in Tasks \ evicted : u # t => /\ ~Busy(u, s) /\ ~Closing(u, s)
                                          /\ ~Busy(u, s)' /\ ~Closing(u, s)'
  BY <1>3 DEF OthersUnchanged, Executing, Busy, Closing
<1>5. MayCall(s) <=> Busy(t, s) \/ (s \notin done /\ ~Closing(t, s))
  BY <1>4 DEF MayCall
<1>6. MayCall(s)' <=> Busy(t, s)' \/ (s \notin done' /\ ~Closing(t, s)')
  BY <1>4 DEF MayCall
<1> QED
  BY <1>2, <1>5, <1>6

\* A call uses up the claim to make it; a result closes the claim for those to come.
LEMMA TaskStepQuota ==
    ASSUME TypeInv, TypeOK', HoldsLease, EvictedExecute, RegisterAtWait, NEW s \in Normal, Quota(s),
           NEW t \in Tasks, TaskStep(t)
    PROVE  Quota(s)'
<1> USE DEF TypeInv
<1>0. OthersUnchanged(t)
  BY TaskFrame
<1>a. s \in Steps /\ s \notin GateSteps /\ s \notin WaitSteps /\ s \in Nat /\ at[t] \in Nat
  BY DEF Normal, Steps, TypeOK
<1>b. effect[s] \in Nat /\ faults \in Nat
  BY <1>a DEF TypeOK
<1>1. CASE Acquire(t)
  <2>1. t \notin evicted
    BY <1>1 DEF Acquire, Goto, EvictedExecute, Executing
  <2> QED
    BY <1>0, <1>1, <2>1, ElsewhereQuota DEF TypeOK, Acquire, Goto, Busy, Closing
<1>2. CASE Release(t)
  BY <1>0, <1>2, ElsewhereQuota DEF TypeOK, Release, Goto, Busy, Closing, Ahead
<1>3. CASE Start(t)
  BY <1>0, <1>3, ElsewhereQuota DEF TypeOK, Start, Busy, Closing, Ahead
<1>4. CASE Finalize(t) \/ Stopped(t)
  BY <1>0, <1>4, ElsewhereQuota DEF TypeOK, Finalize, Stopped, Leave, Busy, Closing, Ahead
<1>5. CASE Replay(t)
  BY <1>0, <1>5, <1>a, ElsewhereQuota DEF TypeOK, Replay, Proceed, Busy, Closing, Ahead
<1>6. CASE \/ ProcessDecision(t) \/ WaitOver(t) \/ \E i \in Approvals : CreateApproval(t, i)
  BY <1>0, <1>6, <1>a, ElsewhereQuota
  DEF TypeOK, ProcessDecision, WaitOver, CreateApproval, Result, Goto, Busy, Closing, Ahead
<1>7. CASE WaitGoesOn(t)
  BY <1>0, <1>7, <1>a, ElsewhereQuota DEF TypeOK, WaitGoesOn, Goto, Busy, Closing, Ahead
<1>8. CASE RegisterWait(t)
  <2>1. at[t] # s
    BY <1>8, <1>a DEF RegisterWait, Result, Goto, RegisterAtWait
  <2> QED
    BY <1>0, <1>8, <1>a, <2>1, ElsewhereQuota
    DEF TypeOK, RegisterWait, Result, Goto, Busy, Closing, Ahead
<1>9. CASE BeginStep(t)
  <2>1. CASE at[t] # s
    BY <1>0, <1>9, <1>a, <2>1, ElsewhereQuota DEF TypeOK, BeginStep, Goto, Busy, Closing, Ahead
  <2>2. CASE at[t] = s /\ t \in evicted
    <3>1. t \in Late(s)
      BY <1>9, <1>a, <2>2 DEF BeginStep, Goto, Late, Ahead
    <3> QED
      BY <1>0, <1>9, <1>b, <2>2, <3>1, InsideLate, Bookkeeping DEF BeginStep, Open
  <2>3. CASE at[t] = s /\ t \notin evicted
    <3>1. MayCall(s) /\ Late(s)' \subseteq Late(s)
      BY <1>0, <1>9, <2>3, InsideLeased DEF BeginStep, Goto, Executing, Busy, Closing
    <3> QED
      BY <1>9, <1>b, <3>1, Bookkeeping DEF BeginStep, Open
  <2> QED
    BY <2>1, <2>2, <2>3
<1>10. CASE WorkSucceeds(t)
  <2>1. CASE at[t] # s
    BY <1>0, <1>10, <1>a, <2>1, ElsewhereQuota
    DEF TypeOK, WorkSucceeds, Result, Goto, Busy, Closing, Ahead
  <2>2. at[t] = s => effect'[s] = effect[s] + 1 /\ Busy(t, s) /\ Closing(t, s)' /\ ~Busy(t, s)'
    BY <1>10, <1>a DEF TypeOK, WorkSucceeds, Result, Goto, Busy, Closing
  <2>3. CASE at[t] = s /\ t \in evicted
    <3>1. t \in Late(s) /\ ~Ahead(t, s)'
      BY <1>10, <1>a, <2>2, <2>3 DEF TypeOK, WorkSucceeds, Result, Goto, Late, Ahead
    <3>2. Late(s)' \subseteq Late(s) \ {t} /\ (MayCall(s)' => MayCall(s))
      BY <1>0, <1>10, <2>3, <3>1, InsideLate DEF WorkSucceeds
    <3> QED
      BY <1>10, <1>b, <2>2, <2>3, <3>1, <3>2, Bookkeeping DEF WorkSucceeds, Open
  <2>4. CASE at[t] = s /\ t \notin evicted
    <3>1. Late(s)' \subseteq Late(s) /\ MayCall(s) /\ ~MayCall(s)'
      BY <1>0, <1>10, <2>2, <2>4, InsideLeased DEF WorkSucceeds, Result, Goto, Executing
    <3> QED
      BY <1>10, <1>b, <2>2, <2>4, <3>1, Bookkeeping DEF WorkSucceeds, Open
  <2> QED
    BY <2>1, <2>3, <2>4
<1>11. CASE StepFails(t)
  <2>0. UNCHANGED <<effect, done, evicted, faults>> \/ (at[t] # s /\ UNCHANGED <<effect, done, evicted>>
                                                          /\ faults' = faults + 1)
    BY <1>11, <1>a DEF StepFails, Fault, NoFault
  <2>1. CASE at[t] # s
    BY <1>0, <1>11, <1>a, <2>0, <2>1, ElsewhereQuota
    DEF TypeOK, StepFails, Result, Goto, Busy, Closing, Ahead
  <2>2. at[t] = s => Busy(t, s)
    BY <1>11 DEF StepFails, Result, Goto, Busy
  <2>3. CASE at[t] = s /\ t \in evicted
    <3>1. t \in Late(s)
      BY <2>2, <2>3 DEF Late, Ahead
    <3> QED
      BY <1>0, <1>b, <2>0, <2>3, <3>1, InsideLate, Bookkeeping DEF Open
  <2>4. CASE at[t] = s /\ t \notin evicted
    <3>1. Late(s)' \subseteq Late(s) /\ MayCall(s)
      BY <1>0, <1>11, <2>0, <2>2, <2>4, InsideLeased DEF StepFails, Result, Goto, Executing
    <3> QED
      BY <1>b, <2>0, <2>4, <3>1, Bookkeeping DEF Open
  <2> QED
    BY <2>1, <2>3, <2>4
<1>11d. CASE DefaultApproves(t)
  <2>1. at[t] # s /\ UNCHANGED <<effect, done, evicted>> /\ faults' = faults + 1
    BY <1>11d, <1>a, WorkflowAssumption DEF DefaultApproves, Fault
  <2> QED
    BY <1>0, <1>11d, <1>a, <2>1, ElsewhereQuota
    DEF TypeOK, DefaultApproves, Result, Goto, Busy, Closing, Ahead
<1>12. CASE RecordStep(t)
  <2>0. UNCHANGED <<effect, evicted, faults>> /\ pc'[t] \in {"step", "finish"}
    BY <1>12 DEF TypeOK, RecordStep, AfterStep, Proceed
  <2>1. CASE at[t] # s
    <3>1. s \in done' <=> s \in done
      BY <1>12, <2>1 DEF RecordStep, Recorded
    <3>2. Ahead(t, s)' => Ahead(t, s)
      BY <1>12, <1>a, <2>1 DEF TypeOK, RecordStep, AfterStep, Proceed, Ahead, Busy
    <3> QED
      BY <1>0, <1>12, <2>0, <2>1, <3>1, <3>2, ElsewhereQuota DEF RecordStep, Busy, Closing
  <2>2. at[t] = s => ~Ahead(t, s)' /\ ~Busy(t, s)' /\ ~Closing(t, s)'
    BY <1>12, <1>a DEF TypeOK, RecordStep, AfterStep, Proceed, Ahead, Busy, Closing
  <2>3. CASE at[t] = s /\ out[t] \in {"done", "skipped"}
    <3>1. s \in done'
      BY <1>12, <1>a, <2>3 DEF RecordStep, Recorded
    <3>2. CASE t \in evicted
      BY <1>0, <1>b, <2>0, <2>2, <2>3, <3>1, <3>2, InsideLate, Bookkeeping DEF Open
    <3>3. CASE t \notin evicted
      <4>1. Late(s)' \subseteq Late(s) /\ ~MayCall(s)'
        BY <1>0, <1>12, <2>0, <2>2, <2>3, <3>1, <3>3, InsideLeased DEF RecordStep, Executing
      <4> QED
        BY <1>b, <2>0, <4>1, Bookkeeping DEF Open
    <3> QED
      BY <3>2, <3>3
  <2>4. CASE at[t] = s /\ out[t] \notin {"done", "skipped"}
    <3>1. Busy(t, s)
      BY <1>12, <2>4 DEF RecordStep, Busy
    <3>2. CASE t \in evicted
      <4>1. t \in Late(s) /\ Late(s)' \subseteq Late(s) \ {t}
        BY <1>0, <2>0, <2>2, <2>4, <3>1, <3>2, InsideLate DEF Late, Ahead
      <4> QED
        BY <1>b, <2>0, <4>1, Bookkeeping DEF Open
    <3>3. CASE t \notin evicted
      <4>1. Late(s)' \subseteq Late(s) /\ MayCall(s)
        BY <1>0, <1>12, <2>0, <3>1, <3>3, InsideLeased DEF RecordStep, Executing
      <4> QED
        BY <1>b, <2>0, <4>1, Bookkeeping DEF Open
    <3> QED
      BY <3>2, <3>3
  <2> QED
    BY <2>1, <2>3, <2>4
<1> QED
  BY <1>1, <1>2, <1>3, <1>4, <1>5, <1>6, <1>7, <1>8, <1>9, <1>10, <1>11, <1>11d, <1>12
  DEF TaskStep

\* A fault opens at most one more claim, and pays for it.
LEMMA TaskFaultQuota ==
    ASSUME TypeOK, TypeOK', HoldsLease, EvictedExecute, NEW s \in Normal, Quota(s),
           NEW t \in Tasks, TaskFault(t)
    PROVE  Quota(s)'
<1>0. OthersUnchanged(t)
  BY TaskFrame
<1>a. s \in Steps /\ s \in Nat /\ at[t] \in Nat /\ effect[s] \in Nat /\ faults \in Nat
  BY DEF Normal, Steps, TypeOK
<1>1. CASE GiveUp(t)
  BY <1>0, <1>1, ElsewhereQuota
  DEF TypeOK, GiveUp, Fault, NoFault, Goto, Busy, Closing, Ahead
<1>2. CASE TaskFails(t)
  BY <1>0, <1>2, FaultQuota DEF TypeOK, TaskFails, Fault, Leave, Busy, Ahead
<1>3. CASE WorkerDies(t)
  BY <1>0, <1>3, FaultQuota DEF TypeOK, WorkerDies, Fault
<1>4. CASE LeaseLost(t)
  <2>0. evicted' = evicted \cup {t} /\ UNCHANGED <<pc, at, out, effect, done>> /\ faults' = faults + 1
    BY <1>4 DEF LeaseLost
  <2>1. t \notin evicted => Late(s)' \subseteq Late(s) \cup {t}
    BY <2>0 DEF Late, Ahead, Busy
  <2>2. CASE t \in evicted
    <3>1. Late(s)' = Late(s) /\ (MayCall(s)' <=> MayCall(s))
      BY <2>0, <2>2 DEF Late, Ahead, Busy, MayCall, Closing
    <3> QED
      BY <1>a, <2>0, <3>1, Bookkeeping DEF Open
  <2>3. CASE t \notin evicted /\ Closing(t, s)
    <3>1. ~Ahead(t, s)'
      BY <1>a, <2>0, <2>3 DEF Ahead, Busy, Closing
    <3>2. Late(s)' \subseteq Late(s)
      BY <2>0, <3>1 DEF Late, Ahead, Busy
    <3> QED
      BY <1>a, <2>0, <3>2, Bookkeeping DEF Open
  <2>4. CASE t \notin evicted /\ ~Closing(t, s)
    <3>1. MayCall(s)' => MayCall(s)
      BY <2>0, <2>4 DEF MayCall, Busy, Closing
    <3> QED
      BY <1>a, <2>0, <2>1, <2>4, <3>1, Bookkeeping DEF Open
  <2> QED
    BY <2>2, <2>3, <2>4
<1>5. CASE StartUnrecorded(t)
  BY <1>0, <1>5, FaultQuota DEF TypeOK, StartUnrecorded, Fault, Goto, Busy, Ahead
<1>6. CASE BeginUnread(t)
  BY <1>0, <1>6, <1>a, FaultQuota DEF TypeOK, BeginUnread, Fault, Goto, Busy, Ahead
<1>7. CASE RecordFails(t)
  <2>1. Ahead(t, s)' => Ahead(t, s)
    BY <1>7, <1>a DEF TypeOK, RecordFails, AfterStep, Proceed, Ahead, Busy
  <2> QED
    BY <1>0, <1>7, <2>1, FaultQuota DEF RecordFails, Fault
<1> QED
  BY <1>1, <1>2, <1>3, <1>4, <1>5, <1>6, <1>7 DEF TaskFault

\* Reviewers, sweeps, operators and beats queue tasks at the most.
LEMMA OutsideQuota ==
    ASSUME TypeOK, TypeOK', EvictedExecute, NEW s \in Normal, Quota(s),
           (\E i \in Approvals : ApprovalStep(i)) \/ OperatorStep \/ BeatStep
    PROVE  Quota(s)'
<1>0. /\ UNCHANGED <<done, effect, evicted>> /\ (faults' = faults \/ faults' = faults + 1)
  BY DEF ApprovalStep, Decide, SlaExpires, SlaEscalates, SlaDecides, SlaPauses, ResumeNotSent,
         ResumeFromHitl, OperatorStep, PauseRead, PauseWrite, ResumeRead, ResumeWrite, Request,
         RegateWrite, CancelRun, ResumeDispatchFails, ResumeDispatch, BeatStep, LeaseExpires,
         ClaimDueTimerWaits, WakeDispatchFails, WakeDispatch, RedispatchStuckRun, DeadlinePasses,
         DeliverEvent, Fault
<1>1. CASE UNCHANGED <<pc, at, out, dec>>
  <2>2. Late(s)' = Late(s) /\ (MayCall(s)' <=> MayCall(s))
    BY <1>0, <1>1 DEF Late, Ahead, Busy, MayCall, Closing
  <2>3. effect[s] \in Nat /\ faults \in Nat
    BY DEF TypeOK, Normal
  <2> QED
    BY <1>0, <2>2, <2>3, Bookkeeping DEF Open
<1>2. ASSUME NEW t \in Tasks, NEW d, Queued(t, d) PROVE Quota(s)'
  BY <1>0, <1>2, ElsewhereQuota DEF Queued, Busy, Closing, Ahead
<1> QED
  BY <1>1, <1>2, OutsideFrame

\* Evicted tasks are still at work, and approvals and waits call nothing.
LEMMA NextEffectFrame ==
    ASSUME TypeOK, EvictedExecute, NoCallOfWaits, RegisterAtWait, Next
    PROVE  EvictedExecute' /\ NoCallOfWaits' /\ RegisterAtWait'
<1> USE DEF EvictedExecute, NoCallOfWaits, RegisterAtWait, Executing
<1>1. ASSUME NEW t \in Tasks, TaskStep(t) \/ TaskFault(t)
      PROVE  EvictedExecute' /\ NoCallOfWaits' /\ RegisterAtWait'
  <2>0. \A u \in Tasks \ {t} : pc'[u] = pc[u] /\ at'[u] = at[u]
    BY <1>1, TaskFrame DEF OthersUnchanged
  <2>1. /\ evicted' \subseteq evicted \cup {t}
        /\ t \in evicted' => pc'[t] \notin {"free", "queued"}
        /\ pc'[t] = "register" => at'[t] \in WaitSteps
    <3>1. CASE \/ Acquire(t) \/ Release(t) \/ Start(t) \/ Finalize(t) \/ Stopped(t) \/ BeginStep(t)
               \/ Replay(t)
      BY <3>1 DEF TypeOK, Acquire, Release, Start, Finalize, Stopped, BeginStep, Goto, Leave,
            Replay, Proceed
    <3>2. CASE \/ WorkSucceeds(t) \/ StepFails(t) \/ DefaultApproves(t) \/ ProcessDecision(t)
               \/ WaitOver(t) \/ WaitGoesOn(t) \/ RegisterWait(t)
               \/ \E i \in Approvals : CreateApproval(t, i)
      BY <3>2 DEF TypeOK, WorkSucceeds, StepFails, DefaultApproves, ProcessDecision, WaitOver,
            WaitGoesOn, RegisterWait, CreateApproval, Result, Goto
    <3>3. CASE RecordStep(t) \/ RecordFails(t)
      BY <3>3 DEF TypeOK, RecordStep, RecordFails, AfterStep, Proceed
    <3>4. CASE GiveUp(t) \/ TaskFails(t) \/ WorkerDies(t)
      BY <3>4 DEF TypeOK, GiveUp, TaskFails, WorkerDies, Goto, Leave
    <3>5. CASE LeaseLost(t) \/ StartUnrecorded(t) \/ BeginUnread(t)
      BY <3>5 DEF TypeOK, LeaseLost, StartUnrecorded, BeginUnread, Goto
    <3> QED
      BY <1>1, <3>1, <3>2, <3>3, <3>4, <3>5 DEF TaskStep, TaskFault
  <2>2. NoCallOfWaits'
    <3>1. CASE WorkSucceeds(t)
      BY <3>1, WorkflowAssumption DEF TypeOK, WorkSucceeds, Steps
    <3>2. CASE ~WorkSucceeds(t)
      <4>1. effect' = effect
        BY <1>1, <3>2 DEF TaskStep, Acquire, Release, Start, Finalize, Replay, Stopped, BeginStep,
              StepFails, DefaultApproves, ProcessDecision, CreateApproval, WaitOver, WaitGoesOn,
              RegisterWait, RecordStep, TaskFault, GiveUp, TaskFails, WorkerDies, LeaseLost, StartUnrecorded,
              BeginUnread, RecordFails
      <4> QED
        BY <4>1
    <3> QED
      BY <3>1, <3>2
  <2> QED
    BY <2>0, <2>1, <2>2 DEF TypeOK
<1>2. CASE (\E i \in Approvals : ApprovalStep(i)) \/ OperatorStep \/ BeatStep
  <2>1. UNCHANGED <<effect, evicted>>
    BY <1>2 DEF ApprovalStep, Decide, SlaExpires, SlaEscalates, SlaDecides, SlaPauses, ResumeNotSent,
         ResumeFromHitl, OperatorStep, PauseRead, PauseWrite, ResumeRead, ResumeWrite, Request,
         RegateWrite, CancelRun, ResumeDispatchFails, ResumeDispatch, BeatStep, LeaseExpires,
         ClaimDueTimerWaits, WakeDispatchFails, WakeDispatch, RedispatchStuckRun, DeadlinePasses,
         DeliverEvent
  <2> QED
    BY <1>2, <2>1, OutsideFrame DEF TypeOK, Queued, OthersUnchanged
<1> QED
  BY <1>1, <1>2 DEF Next

\* Every step keeps the count.
LEMMA NextEffects ==
    ASSUME TypeInv, HoldsLease, EffectInv, [Next]_vars
    PROVE  EffectInv'
<1>1. CASE UNCHANGED vars
  <2>1. ASSUME NEW s \in Normal PROVE Quota(s)'
    <3>1. Late(s)' = Late(s) /\ Open(s)' = Open(s)
      BY <1>1 DEF vars, Late, Ahead, Busy, Open, MayCall, Closing
    <3> QED
      BY <1>1, <3>1 DEF vars, EffectInv, Quota
  <2> QED
    BY <1>1, <2>1 DEF vars, EffectInv, EvictedExecute, NoCallOfWaits, RegisterAtWait, Executing
<1>2. CASE Next
  <2>1. TypeOK'
    BY NextType DEF TypeInv
  <2>2. EvictedExecute' /\ NoCallOfWaits' /\ RegisterAtWait'
    BY <1>2, NextEffectFrame DEF TypeInv, EffectInv
  <2>3. ASSUME NEW s \in Normal PROVE Quota(s)'
    BY <1>2, <2>1, TaskStepQuota, TaskFaultQuota, OutsideQuota DEF Next, TypeInv, EffectInv
  <2> QED
    BY <2>2, <2>3 DEF EffectInv, Normal
<1> QED
  BY <1>1, <1>2

\* A new run has made no call.
LEMMA InitEffects == Init => EffectInv
<1> SUFFICES ASSUME Init PROVE EffectInv
  OBVIOUS
<1>1. EvictedExecute /\ NoCallOfWaits /\ RegisterAtWait
  BY WorkflowAssumption DEF Init, EvictedExecute, NoCallOfWaits, RegisterAtWait, Steps
<1>2. ASSUME NEW s \in Normal PROVE Quota(s)
  <2>1. Late(s) = {} /\ Open(s) \in {0, 1} /\ effect[s] = 0 /\ faults = 0
    BY DEF Init, Late, Open, Normal
  <2> QED
    BY <2>1, FS_EmptySet DEF Quota
<1> QED
  BY <1>1, <1>2 DEF EffectInv

\* However often a run is paused, resumed, woken, swept, decided or redelivered, and however
\* its steps fail, a step's call succeeds once, and once more for a fault at the most.
THEOREM EffectsArePaidFor == Spec => []EffectsOnce
<1>1. Init => TypeInv /\ HoldsLease /\ EffectInv
  <2>1. Init => HoldsLease
    BY DEF Init, HoldsLease, Executing
  <2> QED
    BY <2>1, InitType, InitEffects
<1>2. TypeInv /\ HoldsLease /\ EffectInv /\ [Next]_vars => (TypeInv /\ HoldsLease /\ EffectInv)'
  BY NextType, NextLease, NextEffects DEF TypeInv
<1>3. TypeInv /\ EffectInv => EffectsOnce
  <2> SUFFICES ASSUME TypeInv, EffectInv, NEW s \in Steps PROVE effect[s] <= 1 + faults
    BY DEF EffectsOnce
  <2>1. effect[s] \in Nat /\ faults \in Nat
    BY DEF TypeInv, TypeOK
  <2>2. CASE s \in Normal
    <3>1. Cardinality(Late(s)) \in Nat /\ Open(s) \in {0, 1}
      BY LateFinite DEF TypeInv, Open
    <3> QED
      BY <2>1, <2>2, <3>1 DEF EffectInv, Quota
  <2>3. CASE s \notin Normal
    BY <2>1, <2>3 DEF Normal, EffectInv, NoCallOfWaits
  <2> QED
    BY <2>2, <2>3
<1>4. Spec => [](TypeInv /\ HoldsLease /\ EffectInv)
  BY <1>1, <1>2, PTL DEF Spec
<1> QED
  BY <1>3, <1>4, PTL
=============================================================================
