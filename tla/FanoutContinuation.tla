------------------------- MODULE FanoutContinuation -------------------------
(***************************************************************************)
(* A goal that works through sub-goals.  The run of a fan-out parent       *)
(* records its decomposition in the goal_fanout_ledger, submits up to      *)
(* max_parallel sub-goals and ends: the parent is parked in                *)
(* "waiting_children" and the last sub-goal to finish publishes a new      *)
(* message for it.  The next run folds the finished sub-goals into the     *)
(* ledger, submits more, and parks again or synthesizes the answers.       *)
(*                                                                         *)
(* One parent.  A worker holds at most one run of it.  GoalRunner models   *)
(* the lock, the claim and the watchdogs step by step; here a delivery     *)
(* takes lock and row in one step, a lost run comes back as a new message, *)
(* and a sub-goal is a row with a runner that ends it.  An action is one   *)
(* transaction or call with the local work up to the next.                 *)
(***************************************************************************)
EXTENDS GoalStatus, Naturals, FiniteSets

CONSTANTS
    Workers,        \* processes that may run the parent
    NoWorker,       \* the parent's lock is free
    Width,          \* sub-tasks of a decomposition
    MaxParallel,    \* SupervisorAgent(max_parallel)
    Cancels,        \* may the parent or a sub-goal be cancelled through the API?
    Stalls,         \* may a run be taken for lost although it goes on?
    MaxCopies,      \* bound: sub-goals submitted for one task
    MaxFaults       \* bound: crashes, failed calls and duplicates

ASSUME FanoutAssumption ==
    /\ IsFiniteSet(Workers) /\ NoWorker \notin Workers
    /\ Width \in Nat /\ MaxParallel \in Nat \ {0} /\ MaxCopies \in Nat \ {0}
    /\ Stalls \in BOOLEAN /\ Cancels \in BOOLEAN /\ MaxFaults \in Nat

\* SubAgentTask.task_id is drawn at random by the run that decomposes the goal.
Tasks == Workers \X (1 .. Width)
Children == Tasks \X (1 .. MaxCopies)
NoChild == 0

VARIABLES
    status,         \* the parent's goals.status
    hb,             \* has its row a heartbeat_at?  (the reaper looks at no other)
    lock,           \* goal_lock of the parent
    msgs,           \* run_goal messages of the parent in the broker
    ledger,         \* goal_fanout_ledger: the parent's rows
    cstatus, cpc,   \* the sub-goals' rows and their runners
    pc,             \* where each worker's run of the parent is
    entries,        \* the rows as that run knows them
    todo,           \* the planned ones it is about to dispatch
    enqueues,       \* wakes that moved the row and have not published yet
    overdue,        \* sub-goals the sweeper gave up on and has not cancelled yet
    op, cascade,    \* the API request that cancels, and the sub-goals it found
    faults

rows    == <<status, hb>>
kids    == <<cstatus, cpc>>
runs    == <<pc, entries, todo>>
helpers == <<enqueues, overdue, op, cascade>>
vars == <<rows, lock, msgs, ledger, kids, runs, helpers, faults>>

Entry == [status : {"absent", "planned", "dispatched", "complete", "failed"},
          child : 0 .. MaxCopies, deadline : {"none", "ahead", "past"}]
Absent == [status |-> "absent", child |-> NoChild, deadline |-> "none"]
Planned == [Absent EXCEPT !.status = "planned"]

\* A LedgerEntry as a run loads it: the deadline is the sweeper's business.
Loaded(l) == [t \in Tasks |-> [l[t] EXCEPT !.deadline = "none"]]

\* A run between its claim and its end; until it gives the lock back it is the only one.
Holding == {"loading", "planning", "reconciling", "dispatching", "submitting",
            "marking", "synthesizing", "alone"}
Running == Holding \cup {"parking", "waking"}
PC == {"idle", "dead"} \cup Running

TypeOK ==
    /\ status \in Status /\ hb \in BOOLEAN
    /\ lock \in Workers \cup {NoWorker} /\ msgs \in Nat
    /\ ledger \in [Tasks -> Entry]
    /\ cstatus \in [Children -> Status \cup {"none"}]
    /\ cpc \in [Children -> {"none", "orphan", "running", "ending", "over"}]
    /\ pc \in [Workers -> PC]
    /\ entries \in [Workers -> [Tasks -> Entry]]
    /\ todo \in [Workers -> SUBSET Tasks]
    /\ enqueues \in Nat /\ overdue \subseteq Children
    /\ op \in {"idle", "list", "cancel", "wake", "done"} /\ cascade \subseteq Children
    /\ faults \in Nat

NoEntries == [t \in Tasks |-> Absent]

Init ==
    /\ status = "planning" /\ hb = FALSE /\ lock = NoWorker /\ msgs = 1
    /\ ledger = NoEntries
    /\ cstatus = [c \in Children |-> "none"] /\ cpc = [c \in Children |-> "none"]
    /\ pc = [w \in Workers |-> "idle"]
    /\ entries = [w \in Workers |-> NoEntries]
    /\ todo = [w \in Workers |-> {}]
    /\ enqueues = 0 /\ overdue = {} /\ op = "idle" /\ cascade = {} /\ faults = 0

(***************************************************************************)
(* Building blocks.                                                        *)
(***************************************************************************)
Fault == faults < MaxFaults /\ faults' = faults + 1
NoFault == UNCHANGED faults

Goto(w, to) == pc' = [pc EXCEPT ![w] = to]
LockWithout(w) == IF lock = w THEN NoWorker ELSE lock

\* The run ends and takes what it knew with it.
EndRun(w, to) ==
    /\ Goto(w, to)
    /\ entries' = [entries EXCEPT ![w] = NoEntries]
    /\ todo' = [todo EXCEPT ![w] = {}]

Pending(w) == {t \in Tasks : entries[w][t].status \in {"planned", "dispatched"}}
ActiveChildren == {c \in Children : cstatus[c] \in ACTIVE_STATUSES}

\* The order of the plan (ORDER BY position, task_key): its first task, its first n.
KeyOrder == CHOOSE f \in [Workers -> 1 .. Cardinality(Workers)] :
                \A v, w \in Workers : v # w => f[v] # f[w]
Earlier(u, t) == u[2] < t[2] \/ (u[2] = t[2] /\ KeyOrder[u[1]] < KeyOrder[t[1]])
First(T) == CHOOSE t \in T : \A u \in T : t[2] <= u[2]
FirstN(T, n) == {t \in T : Cardinality({u \in T : Earlier(u, t)}) < n}

\* wake_parent, the UPDATE: only a parked parent none of whose sub-goals is active.
MutantWaitsForSuccess ==
    IF status = "waiting_children" /\ \A c \in Children : cstatus[c] \in {"none", "complete"}
    THEN status' = "planning" /\ hb' = FALSE /\ enqueues' = enqueues + 1
    ELSE UNCHANGED <<status, hb, enqueues>>
WakeParent ==
    IF status = "waiting_children" /\ ActiveChildren = {}
    THEN status' = "planning" /\ hb' = FALSE /\ enqueues' = enqueues + 1
    ELSE UNCHANGED <<status, hb, enqueues>>

(***************************************************************************)
(* A run of the parent (SupervisorAgent.run with continuation).            *)
(***************************************************************************)

\* A delivery takes lock and row; a parked or finished goal, or one whose lock is
\* held, is left alone and the message acked.
Take(w) ==
    /\ msgs > 0 /\ msgs' = msgs - 1
    /\ pc[w] = "idle" /\ lock = NoWorker
    /\ IF status \in TERMINAL_STATUSES \cup PARKED_STATUSES
       THEN UNCHANGED <<rows, lock, pc>>
       ELSE status' = "executing" /\ hb' = TRUE /\ lock' = w /\ Goto(w, "loading")
    /\ UNCHANGED <<ledger, kids, entries, todo, helpers, faults>>

Skip ==
    /\ msgs > 0 /\ msgs' = msgs - 1 /\ lock # NoWorker
    /\ UNCHANGED <<rows, lock, ledger, kids, runs, helpers, faults>>

\* FanoutLedger.load: re-attach to the stored plan, or decompose.
LoadLedger(w) ==
    /\ pc[w] = "loading"
    /\ entries' = [entries EXCEPT ![w] = Loaded(ledger)]
    /\ Goto(w, IF ledger = NoEntries THEN "planning" ELSE "reconciling")
    /\ UNCHANGED <<rows, lock, msgs, ledger, kids, todo, helpers, faults>>

\* A decomposition into one task is no fan-out; an error of the supervisor is
\* recorded and the graph goes on without it.
GoAlone(w) ==
    /\ \/ pc[w] = "planning" /\ NoFault
       \/ pc[w] \in {"loading", "planning", "reconciling"} /\ Fault
    /\ Goto(w, "alone")
    /\ UNCHANGED <<rows, lock, msgs, ledger, kids, entries, todo, helpers>>

\* FanoutLedger.plan: INSERT ... ON CONFLICT (task_key) DO NOTHING, then load.
PlanTasks(w) ==
    /\ pc[w] = "planning" /\ Goto(w, "reconciling")
    /\ ledger' = [t \in Tasks |->
                    IF t[1] = w /\ ledger[t] = Absent THEN Planned ELSE ledger[t]]
    /\ entries' = [entries EXCEPT ![w] = Loaded(ledger')]
    /\ UNCHANGED <<rows, lock, msgs, kids, todo, helpers, faults>>

\* Rows f after reconcile_children: a sub-goal that is over is folded in, one that
\* completed without an answer as failed.
Over(w) == {t \in Pending(w) :
              /\ entries[w][t].child # NoChild
              /\ cstatus[<<t, ledger[t].child>>] \in TERMINAL_STATUSES}
Answerable(w) == {t \in Over(w) : cstatus[<<t, ledger[t].child>>] = "complete"}
Fold(f, over, good) ==
    [t \in Tasks |-> IF t \notin over THEN f[t]
                     ELSE [f[t] EXCEPT !.status =
                              IF t \in good THEN "complete" ELSE "failed"]]

\* The planned entries that max_parallel leaves room for.
With(f, s) == {t \in Tasks : f[t].status = s}
MutantIgnoresInFlight(f) == FirstN(With(f, "planned"), MaxParallel)
NextUp(f) ==
    LET inFlight == Cardinality(With(f, "dispatched"))
    IN FirstN(With(f, "planned"),
              IF inFlight >= MaxParallel THEN 0 ELSE MaxParallel - inFlight)

Reconcile(w) ==
    /\ pc[w] = "reconciling" /\ Goto(w, "dispatching")
    /\ \E good \in SUBSET Answerable(w) :
          /\ ledger' = Fold(ledger, Over(w), good)
          /\ entries' = [entries EXCEPT ![w] = Fold(entries[w], Over(w), good)]
          /\ todo' = [todo EXCEPT ![w] = NextUp(Fold(entries[w], Over(w), good))]
    /\ UNCHANGED <<rows, lock, msgs, kids, helpers, faults>>

\* The sub-goal that an earlier run created for task t, as far as anybody knows.
MutantForgetsRow(w, t) == entries[w][t].child
ChildOf(w, t) ==
    IF entries[w][t].child # NoChild THEN entries[w][t].child
    ELSE IF cstatus[<<t, 1>>] # "none" THEN 1 ELSE NoChild

\* _dispatch_entry: find_child_goal ...
FindChild(w) ==
    /\ pc[w] = "dispatching" /\ todo[w] # {}
    /\ LET t == First(todo[w])
       IN /\ entries' = [entries EXCEPT ![w][t].child = ChildOf(w, t)]
          /\ Goto(w, IF ChildOf(w, t) = NoChild THEN "submitting" ELSE "marking")
    /\ UNCHANGED <<rows, lock, msgs, ledger, kids, todo, helpers, faults>>

\* The row of a new sub-goal, whose runner will start or not.
Unborn(t) == {n \in 1 .. MaxCopies : cstatus[<<t, n>>] = "none"}
NewCopy(t) == CHOOSE n \in Unborn(t) : \A m \in Unborn(t) : n <= m
NewChild(t, p) ==
    /\ Unborn(t) # {}
    /\ cstatus' = [cstatus EXCEPT ![<<t, NewCopy(t)>>] = "planning"]
    /\ cpc' = [cpc EXCEPT ![<<t, NewCopy(t)>>] = p]

\* ... else submit_goal: the row, then its message.
SubmitChild(w) ==
    /\ pc[w] = "submitting" /\ Goto(w, "marking")
    /\ LET t == First(todo[w])
       IN /\ NewChild(t, "running")
          /\ entries' = [entries EXCEPT ![w][t].child = NewCopy(t)]
    /\ UNCHANGED <<rows, lock, msgs, ledger, todo, helpers, faults>>

\* find_child_goal fails, the submission is refused, or its message cannot be published
\* (its row stays): the entry is failed, here and (if the write succeeds) in the ledger.
DispatchFails(w) ==
    /\ pc[w] \in {"dispatching", "submitting"} /\ todo[w] # {}
    /\ Goto(w, "dispatching") /\ Fault
    /\ LET t == First(todo[w])
       IN /\ UNCHANGED kids \/ (pc[w] = "submitting" /\ NewChild(t, "orphan"))
          /\ ledger' \in {ledger, [ledger EXCEPT ![t].status = "failed"]}
          /\ entries' = [entries EXCEPT ![w][t].status = "failed"]
          /\ todo' = [todo EXCEPT ![w] = @ \ {t}]
    /\ UNCHANGED <<rows, lock, msgs, helpers>>

\* mark_dispatched, with the sub-goal's deadline; a failed write is only logged.
MarkDispatched(w) ==
    /\ pc[w] = "marking" /\ Goto(w, "dispatching")
    /\ LET t == First(todo[w])
           e == [entries[w][t] EXCEPT !.status = "dispatched"]
       IN /\ \/ ledger' = [ledger EXCEPT ![t] = [e EXCEPT !.deadline = "ahead"]] /\ NoFault
             \/ Fault /\ UNCHANGED ledger
          /\ entries' = [entries EXCEPT ![w][t] = e]
          /\ todo' = [todo EXCEPT ![w] = @ \ {t}]
    /\ UNCHANGED <<rows, lock, msgs, kids, helpers>>

\* Nothing more to dispatch: synthesize, or end this run and wait.  The lock goes
\* BEFORE the park is visible, so that the wake's run can take it.
MutantSynthesizesDispatched(w) ==
    /\ pc[w] = "dispatching" /\ todo[w] = {}
    /\ IF \A t \in Pending(w) : entries[w][t].status = "dispatched"
       THEN Goto(w, "synthesizing") /\ UNCHANGED <<lock, entries, todo>>
       ELSE EndRun(w, "parking") /\ lock' = LockWithout(w)
    /\ UNCHANGED <<rows, msgs, ledger, kids, helpers, faults>>
Advance(w) ==
    /\ pc[w] = "dispatching" /\ todo[w] = {}
    /\ IF Pending(w) = {}
       THEN Goto(w, "synthesizing") /\ UNCHANGED <<lock, entries, todo>>
       ELSE EndRun(w, "parking") /\ lock' = LockWithout(w)
    /\ UNCHANGED <<rows, msgs, ledger, kids, helpers, faults>>

\* The statuses a parent parks out of.
MutantParksAnything == Status
PARKABLE == {"executing", "planning", "verifying"}

\* park_parent: a goal cancelled meanwhile stays so; a DB error leaves the row active.
ParkParent(w) ==
    /\ pc[w] = "parking"
    /\ \/ /\ status \in PARKABLE /\ NoFault
          /\ status' = "waiting_children" /\ hb' = FALSE
          /\ Goto(w, "waking")
       \/ status \notin PARKABLE /\ NoFault /\ Goto(w, "idle") /\ UNCHANGED rows
       \/ Fault /\ Goto(w, "idle") /\ UNCHANGED rows
    /\ UNCHANGED <<lock, msgs, ledger, kids, entries, todo, helpers>>

\* Every sub-goal may have finished before the park was visible.
WakeSelf(w) ==
    /\ pc[w] = "waking" /\ Goto(w, "idle")
    /\ WakeParent
    /\ UNCHANGED <<lock, msgs, ledger, kids, entries, todo, overdue, op, cascade, faults>>

\* The graph goes on with the synthesis, or alone, and ends the goal.
FinishParent(w) ==
    /\ pc[w] \in {"synthesizing", "alone"} /\ EndRun(w, "idle")
    /\ \E s \in {"complete", "failed"} : status' = Written(status, s)
    /\ lock' = LockWithout(w)
    /\ UNCHANGED <<hb, msgs, ledger, kids, helpers, faults>>

\* The run sees the cancel flag.
StopRun(w) ==
    /\ pc[w] \in Holding /\ status = "cancelled" /\ EndRun(w, "idle")
    /\ lock' = LockWithout(w)
    /\ UNCHANGED <<rows, msgs, ledger, kids, helpers, faults>>

(***************************************************************************)
(* What happens to a run: death, a duplicate, a watchdog that takes it for *)
(* lost (GoalRunner has the details).                                      *)
(***************************************************************************)
Crash(w) ==
    /\ pc[w] \in Running /\ Fault /\ EndRun(w, "dead")
    /\ UNCHANGED <<rows, lock, msgs, ledger, kids, helpers>>

\* The dead worker's message is delivered again; its lock is released or expires.
Redeliver(w) ==
    /\ pc[w] = "dead" /\ Goto(w, "idle")
    /\ msgs' = msgs + 1 /\ lock' = LockWithout(w)
    /\ UNCHANGED <<rows, ledger, kids, entries, todo, helpers, faults>>

\* The visibility timeout passes while a run works.
Duplicate ==
    /\ \E w \in Workers : pc[w] \in Running
    /\ Fault /\ msgs' = msgs + 1
    /\ UNCHANGED <<rows, lock, ledger, kids, runs, helpers>>

\* reap_stale_goal_runners of an active row that nobody beats for: run it again, or
\* fail it.  A run that merely hung wakes up without its lock.
Reap ==
    /\ status \in RUNNING_STATUSES /\ hb /\ hb' = FALSE
    /\ \/ /\ \A w \in Workers : pc[w] \notin Running
          /\ NoFault /\ UNCHANGED lock
       \/ /\ Stalls /\ Fault
          /\ \E w \in Workers : pc[w] \in Holding /\ lock' = LockWithout(w)
    /\ \/ status' = "planning" /\ msgs' = msgs + 1
       \/ status' = "failed" /\ UNCHANGED msgs
    /\ UNCHANGED <<ledger, kids, runs, helpers>>

\* detect_stuck_goals: no run for longer than the plan's goal timeout.
DetectStuck ==
    /\ status \in RUNNING_STATUSES /\ \A w \in Workers : pc[w] \notin Running
    /\ status' = "failed"
    /\ UNCHANGED <<hb, lock, msgs, ledger, kids, runs, helpers, faults>>

(***************************************************************************)
(* The sub-goals.                                                          *)
(***************************************************************************)
ChildWaits(c) ==
    /\ cpc[c] = "running" /\ cstatus[c] = "planning"
    /\ cstatus' = [cstatus EXCEPT ![c] = "waiting_human"]
    /\ UNCHANGED <<rows, lock, msgs, ledger, cpc, runs, helpers, faults>>

\* Its run ends (after the human's answer, if it waited) and writes its outcome, unless
\* it was cancelled before; the finally block has yet to wake the parent.
ChildEnds(c) ==
    /\ cpc[c] = "running"
    /\ \E s \in {"complete", "failed"} :
          cstatus' = [cstatus EXCEPT ![c] = Written(@, s)]
    /\ cpc' = [cpc EXCEPT ![c] = "ending"]
    /\ UNCHANGED <<rows, lock, msgs, ledger, runs, helpers, faults>>

\* wake_parent_of, from the finally block.
ChildWakesParent(c) ==
    /\ cpc[c] = "ending" /\ cpc' = [cpc EXCEPT ![c] = "over"]
    /\ WakeParent
    /\ UNCHANGED <<lock, msgs, ledger, cstatus, runs, overdue, op, cascade, faults>>

\* The worker dies before its finally block, or a watchdog fails the sub-goal of a
\* lost run: nobody is told.
ChildLost(c) ==
    /\ \/ cpc[c] \in {"running", "ending"} /\ Fault
       \/ cpc[c] = "orphan" /\ NoFault
    /\ cpc' = [cpc EXCEPT ![c] = "over"]
    /\ cstatus' = [cstatus EXCEPT ![c] = Written(@, "failed")]
    /\ UNCHANGED <<rows, lock, msgs, ledger, runs, helpers>>

(***************************************************************************)
(* The enqueue of a wake, whoever made it.                                 *)
(***************************************************************************)
MutantPublishesAnyway ==
    /\ enqueues' = enqueues - 1 /\ msgs' = msgs + 1
    /\ UNCHANGED <<rows, lock, ledger, kids, runs, overdue, op, cascade, faults>>
EnqueueParent ==
    /\ enqueues > 0 /\ enqueues' = enqueues - 1
    /\ msgs' = msgs + 1
    /\ UNCHANGED <<rows, lock, ledger, kids, runs, overdue, op, cascade, faults>>

\* A broker error parks the parent again, if that write succeeds and the process is
\* still there to make it.
EnqueueFails ==
    /\ enqueues > 0 /\ enqueues' = enqueues - 1 /\ Fault
    /\ status' \in {status, IF status = "planning" THEN "waiting_children" ELSE status}
    /\ UNCHANGED <<hb, lock, msgs, ledger, kids, runs, overdue, op, cascade>>

(***************************************************************************)
(* The sweeper.                                                            *)
(***************************************************************************)
DeadlinePasses(t) ==
    /\ ledger[t].deadline = "ahead" /\ ledger' = [ledger EXCEPT ![t].deadline = "past"]
    /\ UNCHANGED <<rows, lock, msgs, kids, runs, helpers, faults>>

\* sweep_fanout, the first transaction, for one overdue row: time spent waiting for a
\* human does not count, a finished sub-goal is left to the parent.
SweepOverdue(t) ==
    /\ ledger[t].status = "dispatched" /\ ledger[t].deadline = "past"
    /\ LET c == <<t, ledger[t].child>>
       IN \/ /\ cstatus[c] = "waiting_human"
             /\ ledger' = [ledger EXCEPT ![t].deadline = "ahead"] /\ UNCHANGED overdue
          \/ /\ cstatus[c] \in TERMINAL_STATUSES
             /\ ledger' = [ledger EXCEPT ![t].deadline = "none"] /\ UNCHANGED overdue
          \/ /\ cstatus[c] \in ACTIVE_STATUSES \ {"waiting_human"}
             /\ ledger' = [ledger EXCEPT ![t].deadline = "none", ![t].status = "failed"]
             /\ overdue' = overdue \cup {c}
    /\ UNCHANGED <<rows, lock, msgs, kids, runs, enqueues, op, cascade, faults>>

\* _cancel_overdue_child; an error, or the death of the sweeper, skips it for good.
SweepCancel(c) ==
    /\ c \in overdue /\ overdue' = overdue \ {c}
    /\ \/ cstatus' = [cstatus EXCEPT ![c] = Written(@, "cancelled")] /\ NoFault
       \/ Fault /\ UNCHANGED cstatus
    /\ UNCHANGED <<rows, lock, msgs, ledger, cpc, runs, enqueues, op, cascade>>

\* The last part: every parked parent with no active sub-goal is woken.
SweepWakes ==
    /\ status = "waiting_children" /\ ActiveChildren = {}
    /\ WakeParent
    /\ UNCHANGED <<lock, msgs, ledger, kids, runs, overdue, op, cascade, faults>>

(***************************************************************************)
(* cancel_goal of the parent, or of one sub-goal.                          *)
(***************************************************************************)
CancelParent ==
    /\ Cancels /\ op = "idle" /\ op' = "list"
    /\ status \in ACTIVE_STATUSES /\ status' = "cancelled"
    /\ UNCHANGED <<hb, lock, msgs, ledger, kids, runs, enqueues, overdue, cascade, faults>>

\* _cancel_sub_goals: active_child_ids, then one after the other.
ListChildren ==
    /\ op = "list" /\ op' = "cancel"
    /\ \/ cascade' = ActiveChildren /\ NoFault
       \/ Fault /\ UNCHANGED cascade
    /\ UNCHANGED <<rows, lock, msgs, ledger, kids, runs, enqueues, overdue>>

CancelChild(c) ==
    /\ op = "cancel" /\ c \in cascade /\ cascade' = cascade \ {c}
    /\ \/ cstatus' = [cstatus EXCEPT ![c] = Written(@, "cancelled")] /\ NoFault
       \/ Fault /\ UNCHANGED cstatus
    /\ UNCHANGED <<rows, lock, msgs, ledger, cpc, runs, enqueues, overdue, op>>

CancelSubGoal(c) ==
    /\ Cancels /\ op = "idle" /\ op' = "wake"
    /\ cstatus[c] \in ACTIVE_STATUSES
    /\ cstatus' = [cstatus EXCEPT ![c] = "cancelled"]
    /\ UNCHANGED <<rows, lock, msgs, ledger, cpc, runs, enqueues, overdue, cascade, faults>>

\* _wake_parked_parent, and the answer to the caller.
AnswerCancel ==
    /\ \/ op = "cancel" /\ cascade = {} /\ UNCHANGED <<rows, enqueues>>
       \/ op = "wake" /\ WakeParent
    /\ op' = "done"
    /\ UNCHANGED <<lock, msgs, ledger, kids, runs, overdue, cascade, faults>>

(***************************************************************************)
(* The specification.                                                      *)
(***************************************************************************)
RunStep(w) ==
    \/ LoadLedger(w) \/ GoAlone(w) \/ PlanTasks(w) \/ Reconcile(w) \/ FindChild(w)
    \/ SubmitChild(w) \/ DispatchFails(w) \/ MarkDispatched(w) \/ Advance(w)
    \/ ParkParent(w) \/ WakeSelf(w) \/ FinishParent(w) \/ StopRun(w)

ChildStep(c) == ChildWaits(c) \/ ChildEnds(c) \/ ChildWakesParent(c) \/ ChildLost(c)

CancelStep ==
    \/ CancelParent \/ ListChildren \/ AnswerCancel
    \/ \E c \in Children : CancelChild(c) \/ CancelSubGoal(c)

Next ==
    \/ \E w \in Workers : Take(w) \/ RunStep(w) \/ Crash(w) \/ Redeliver(w)
    \/ \E c \in Children : ChildStep(c) \/ SweepCancel(c)
    \/ \E t \in Tasks : DeadlinePasses(t) \/ SweepOverdue(t)
    \/ Skip \/ Duplicate \/ Reap \/ DetectStuck \/ EnqueueParent \/ EnqueueFails
    \/ SweepWakes \/ CancelStep

Spec == Init /\ [][Next]_vars

\* Workers take messages and carry on, sub-goals end (their own timeout, watchdog and
\* approval gate see to it), the broker redelivers, and beat keeps the sweeper and the
\* watchdogs going.  Nobody has to cancel anything, and no deadline has to pass.
Fairness ==
    /\ \A w \in Workers : WF_vars(RunStep(w)) /\ WF_vars(Redeliver(w))
    /\ WF_vars(Skip \/ \E w \in Workers : Take(w))
    /\ \A c \in Children : WF_vars(ChildStep(c))
    /\ WF_vars(EnqueueParent) /\ WF_vars(SweepWakes) /\ WF_vars(Reap) /\ WF_vars(DetectStuck)

FairSpec == Spec /\ Fairness

(***************************************************************************)
(* Properties.                                                             *)
(***************************************************************************)

\* Whatever crashes, is delivered twice or fails to be written, a task's sub-goal is
\* submitted once: what an earlier run created is found again (find_child_goal).
OneChildPerTask == \A c \in Children : c[2] > 1 => cstatus[c] = "none"

\* The answers are put together only when every sub-goal is over, or was given up by
\* this plan (its deadline passed or its submission failed), and an answer counted as
\* complete is the answer of a sub-goal that completed.
NoEarlySynthesis ==
    \A w \in Workers, c \in Children :
        pc[w] = "synthesizing" =>
            /\ c \in ActiveChildren => entries[w][c[1]].status = "failed"
            /\ entries[w][c[1]].status = "complete" /\ c[2] = 1 => cstatus[c] = "complete"

\* Sub-goals that the parent still counts on never exceed max_parallel, although a
\* re-entry counts what the ledger says and not what runs.
ParallelBound ==
    Cardinality({c \in ActiveChildren : ledger[c[1]].status # "failed"}) <= MaxParallel

\* A parent is never left waiting: when its sub-goals are over it runs again, whichever
\* of the wakes gets lost.
ParkedParentResumes == status = "waiting_children" ~> status # "waiting_children"

\* The parent's row, with its parks and wakes, keeps the promise of the goal table.
Lifecycle == INSTANCE GoalLifecycle WITH status <- status
ImplementsLifecycle == Lifecycle!Spec

(***************************************************************************)
(* The invariants behind the proofs (FanoutProofs), for runs that are not  *)
(* taken for lost while they go on (~Stalls).                              *)
(***************************************************************************)

\* A run holds the parent's lock until it gives it back.
LockHeld == \A w \in Workers : pc[w] \in Holding => lock = w

\* What a run is about to dispatch is planned; a submission is under way only for a
\* task that has no sub-goal, and a dispatch is recorded only for one that has.
Dispatching == {"dispatching", "submitting", "marking"}
DispatchInOrder ==
    \A w \in Workers :
        /\ pc[w] \notin Dispatching => todo[w] = {}
        /\ pc[w] \in {"submitting", "marking"} => todo[w] # {}
        /\ \A t \in todo[w] : entries[w][t].status = "planned"
        /\ pc[w] = "submitting" => cstatus[<<First(todo[w]), 1>>] = "none"
        /\ pc[w] = "marking" => entries[w][First(todo[w])].child # NoChild

\* Rows name only the task's one sub-goal, and a dispatched row names it.
RowsNameChild ==
    \A t \in Tasks :
        /\ ledger[t].child \in {NoChild, 1}
        /\ ledger[t].status = "dispatched" => ledger[t].child # NoChild
        /\ \A w \in Workers : entries[w][t].child \in {NoChild, 1}

\* A run that has loaded its rows knows all of them, and their sub-goals.
Informed == {"reconciling", "dispatching", "submitting", "marking", "synthesizing"}
RowsKnown ==
    \A w \in Workers, t \in Tasks :
        /\ pc[w] \in Informed =>
              (entries[w][t].status = "absent" <=> ledger[t].status = "absent")
        /\ pc[w] = "reconciling" => entries[w][t].child = ledger[t].child

\* Sub-goals have rows, and what a row or a run calls complete is complete.
RowsAreTrue ==
    \A t \in Tasks :
        /\ \A n \in 1 .. MaxCopies :
              cstatus[<<t, n>>] # "none" => ledger[t].status # "absent"
        /\ ledger[t].status = "complete" => cstatus[<<t, 1>>] = "complete"
        /\ \A w \in Workers : entries[w][t].status = "complete" =>
                                  cstatus[<<t, 1>>] = "complete"

NothingPending == \A w \in Workers : pc[w] = "synthesizing" => Pending(w) = {}

FanoutInv ==
    /\ TypeOK /\ LockHeld /\ DispatchInOrder /\ RowsNameChild /\ OneChildPerTask
    /\ RowsKnown /\ RowsAreTrue /\ NothingPending
=============================================================================
