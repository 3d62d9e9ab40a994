---------------------------- MODULE FanoutProofs ----------------------------
(***************************************************************************)
(* Proofs about FanoutContinuation, for any number of workers, sub-tasks,  *)
(* parallel sub-goals and faults.                                          *)
(***************************************************************************)
EXTENDS FanoutContinuation, FiniteSetTheorems, FunctionTheorems, WellFoundedInduction, TLAPS

(***************************************************************************)
(* The parent's row.                                                       *)
(***************************************************************************)

\* Every step leaves the status alone or takes it from an active one to another.
LEMMA StatusStep ==
    ASSUME status \in Status, [Next]_vars
    PROVE  /\ status' \in Status
           /\ status' # status => status \in ACTIVE_STATUSES
<1> USE DEF rows, kids, runs, helpers, Status, TERMINAL_STATUSES, ACTIVE_STATUSES,
            RUNNING_STATUSES, PARKED_STATUSES, is_valid_transition,
            allowed_predecessors, Written
<1> DEFINE Goal == status' \in Status /\ (status' # status => status \in ACTIVE_STATUSES)
<1>0. CASE UNCHANGED vars
  BY <1>0 DEF vars
<1>1. ASSUME NEW w \in Workers, Take(w) \/ Crash(w) \/ Redeliver(w) \/ RunStep(w)
      PROVE  Goal
  BY <1>1 DEF Take, Crash, Redeliver, RunStep, LoadLedger, GoAlone, PlanTasks,
        Reconcile, FindChild, SubmitChild, DispatchFails, MarkDispatched, Advance,
        ParkParent, WakeSelf, FinishParent, StopRun, WakeParent, PARKABLE
<1>2. ASSUME NEW c \in Children, ChildStep(c) \/ SweepCancel(c)
      PROVE  Goal
  BY <1>2 DEF ChildStep, ChildWaits, ChildEnds, ChildWakesParent, ChildLost,
        SweepCancel, WakeParent
<1>3. ASSUME NEW t \in Tasks, DeadlinePasses(t) \/ SweepOverdue(t)
      PROVE  Goal
  BY <1>3 DEF DeadlinePasses, SweepOverdue
<1>4. CASE Skip \/ Duplicate \/ Reap \/ DetectStuck \/ EnqueueParent \/ EnqueueFails
  BY <1>4 DEF Skip, Duplicate, Reap, DetectStuck, EnqueueParent, EnqueueFails
<1>5. CASE SweepWakes \/ CancelStep
  BY <1>5 DEF SweepWakes, CancelStep, CancelParent, ListChildren, AnswerCancel,
        CancelChild, CancelSubGoal, WakeParent
<1> QED
  BY <1>0, <1>1, <1>2, <1>3, <1>4, <1>5 DEF Next

\* The parent's row only takes transitions of the goal table, whoever writes it: the
\* park, the wakes of sub-goals, sweeper and operator, and the watchdogs.
THEOREM FanoutImplementsLifecycle == Spec => ImplementsLifecycle
<1>1. Init => Lifecycle!Init /\ status \in Status
  BY DEF Init, Lifecycle!Init, Status
<1>2. status \in Status /\ [Next]_vars => (status \in Status)' /\ [Lifecycle!Next]_status
  <2> SUFFICES ASSUME status \in Status, [Next]_vars
               PROVE  (status \in Status)' /\ [Lifecycle!Next]_status
    OBVIOUS
  <2> QED
    BY StatusStep DEF Lifecycle!Next, Lifecycle!Write, Lifecycle!Status, Status,
        Lifecycle!allowed_predecessors, Lifecycle!is_valid_transition,
        Lifecycle!ACTIVE_STATUSES, ACTIVE_STATUSES, Lifecycle!TERMINAL_STATUSES,
        TERMINAL_STATUSES
<1> QED
  BY <1>1, <1>2, PTL DEF Spec, ImplementsLifecycle, Lifecycle!Spec

(***************************************************************************)
(* The order of the plan, and new sub-goals.                               *)
(***************************************************************************)

\* Some task of a non-empty set comes first.
LEMMA FirstIsIn ==
    ASSUME NEW T \in SUBSET Tasks, T # {}
    PROVE  First(T) \in T
<1> DEFINE P == {t[2] : t \in T}
<1>1. P \subseteq Nat /\ P # {}
  BY FanoutAssumption DEF Tasks
<1> DEFINE Less == {p \in Nat \X Nat : p[1] < p[2]}
<1>a. IsWellFoundedOn(Less, Nat)
  BY NatLessThanWellFounded, Zenon DEF OpToRel
<1> HIDE DEF Less, P
<1>2. PICK n \in P : \A m \in P : <<m, n>> \notin Less
  BY <1>1, <1>a, WFMin
<1>3. ASSUME NEW m \in P PROVE n <= m
  <2>1. n \in Nat /\ m \in Nat
    BY <1>1
  <2>2. ~(m < n)
    BY <1>2, <2>1 DEF Less
  <2> QED BY <2>1, <2>2
<1> USE DEF P
<1>4. PICK t \in T : t[2] = n
  BY <1>2
<1>5. \A u \in T : t[2] <= u[2]
  BY <1>3, <1>4
<1> QED
  BY <1>4, <1>5 DEF First

\* The first sub-goal of a task is number 1.
LEMMA FirstCopy ==
    ASSUME NEW t \in Tasks, cstatus[<<t, 1>>] = "none"
    PROVE  NewCopy(t) = 1 /\ Unborn(t) # {}
<1>1. 1 \in Unborn(t) /\ \A m \in Unborn(t) : m \in Nat /\ 1 <= m
  BY FanoutAssumption DEF Unborn
<1>2. NewCopy(t) \in Unborn(t) /\ \A m \in Unborn(t) : NewCopy(t) <= m
  BY <1>1 DEF NewCopy
<1> QED
  BY <1>1, <1>2

(***************************************************************************)
(* The inductive invariant.  Each lemma is about the steps that change the *)
(* same part of the state.                                                 *)
(***************************************************************************)
\* A new parent has no ledger, no run and no sub-goal.
LEMMA InitInv == Init => FanoutInv
<1> SUFFICES ASSUME Init PROVE FanoutInv
  OBVIOUS
<1>1. Absent \in Entry
  BY FanoutAssumption DEF Absent, Entry, NoChild
<1>2. TypeOK
  BY <1>1 DEF Init, TypeOK, NoEntries, Status, PC
<1> QED
  BY <1>1, <1>2, FanoutAssumption DEF FanoutInv, Init, LockHeld, DispatchInOrder, RowsNameChild,
      OneChildPerTask, RowsKnown, RowsAreTrue, NothingPending, NoEntries, Absent, Entry, NoChild,
      Holding, Informed, Children

\* Steps that leave the ledger, the sub-goals' rows and every run's knowledge alone, while
\* no run enters a place where it is taken to be informed.
LEMMA QuietStep ==
    ASSUME FanoutInv, UNCHANGED <<ledger, cstatus, entries, todo>>,
           (TypeOK /\ LockHeld)',
           \A w \in Workers : \/ pc'[w] = pc[w]
                              \/ pc'[w] \notin Informed /\ pc[w] \notin Dispatching
    PROVE  FanoutInv'
<1> USE DEF FanoutInv
<1>1. DispatchInOrder'
  BY DEF DispatchInOrder, Informed, Dispatching
<1>2. RowsNameChild' /\ OneChildPerTask' /\ RowsAreTrue'
  BY DEF RowsNameChild, OneChildPerTask, RowsAreTrue
<1>3. RowsKnown'
  BY DEF RowsKnown, Informed
<1>4. NothingPending'
  BY DEF NothingPending, Pending, Informed
<1> QED
  BY <1>1, <1>2, <1>3, <1>4

\* The same when a run ends and forgets what it knew.
LEMMA EndStep ==
    ASSUME FanoutInv, NEW w \in Workers, NEW to \in PC \ (Informed \cup Holding), EndRun(w, to),
           UNCHANGED <<ledger, cstatus>>, (TypeOK /\ LockHeld)'
    PROVE  FanoutInv'
<1> USE DEF FanoutInv
<1>0. /\ pc' = [pc EXCEPT ![w] = to] /\ entries' = [entries EXCEPT ![w] = NoEntries]
      /\ todo' = [todo EXCEPT ![w] = {}]
  BY DEF EndRun, Goto
<1>1. DispatchInOrder'
  BY <1>0 DEF DispatchInOrder, TypeOK, Informed, Dispatching
<1>2. RowsNameChild' /\ OneChildPerTask' /\ RowsAreTrue'
  BY <1>0 DEF RowsNameChild, OneChildPerTask, RowsAreTrue, TypeOK, NoEntries, Absent
<1>3. RowsKnown'
  BY <1>0 DEF RowsKnown, Informed, TypeOK
<1>4. NothingPending'
  BY <1>0 DEF NothingPending, Pending, Informed, TypeOK
<1> QED
  BY <1>1, <1>2, <1>3, <1>4

\* Changes to sub-goals that exist: none appears, and one that completed stays completed.
LEMMA ChildrenStep ==
    ASSUME FanoutInv, UNCHANGED <<ledger, entries, todo, pc, lock>>, TypeOK',
           \A c \in Children : /\ cstatus[c] = "none" <=> cstatus'[c] = "none"
                               /\ cstatus[c] = "complete" => cstatus'[c] = "complete"
    PROVE  FanoutInv'
<1> USE DEF FanoutInv
<1>0. \A t \in Tasks : <<t, 1>> \in Children
  BY FanoutAssumption DEF Children
<1>1. LockHeld' /\ RowsKnown' /\ RowsNameChild' /\ NothingPending'
  BY DEF LockHeld, RowsKnown, RowsNameChild, NothingPending, Pending
<1>2. DispatchInOrder'
  BY <1>0, FirstIsIn DEF DispatchInOrder, TypeOK
<1>3. OneChildPerTask' /\ RowsAreTrue'
  BY <1>0 DEF OneChildPerTask, RowsAreTrue, Children
<1> QED
  BY <1>1, <1>2, <1>3

\* The sweeper's writes to the ledger: they keep every row's sub-goal, and call no row
\* complete, planned or absent that was not.
LEMMA SweepStep ==
    ASSUME FanoutInv, UNCHANGED <<cstatus, entries, todo, pc, lock>>, TypeOK',
           \A t \in Tasks :
              /\ ledger'[t].child = ledger[t].child
              /\ \/ ledger'[t].status = ledger[t].status
                 \/ ledger[t].status = "dispatched" /\ ledger'[t].status = "failed"
    PROVE  FanoutInv'
<1> USE DEF FanoutInv
<1>1. LockHeld' /\ DispatchInOrder' /\ NothingPending' /\ OneChildPerTask'
  BY DEF LockHeld, DispatchInOrder, NothingPending, Pending, OneChildPerTask
<1>2. RowsKnown' /\ RowsNameChild' /\ RowsAreTrue'
  BY DEF RowsKnown, RowsNameChild, RowsAreTrue
<1> QED
  BY <1>1, <1>2

\* Only one run is at a place where it may change the ledger.
LEMMA OnlyRun ==
    ASSUME FanoutInv, NEW v \in Workers, NEW w \in Workers,
           pc[v] \in Holding, pc[w] \in Holding
    PROVE  v = w
  BY DEF FanoutInv, LockHeld

\* Loading a row loses nothing but its deadline.
LEMMA LoadedRows ==
    ASSUME NEW l \in [Tasks -> Entry]
    PROVE  /\ Loaded(l) \in [Tasks -> Entry]
           /\ \A t \in Tasks : Loaded(l)[t].status = l[t].status /\ Loaded(l)[t].child = l[t].child
<1>1. \A t \in Tasks : LET e == [l[t] EXCEPT !.deadline = "none"]
                       IN e \in Entry /\ e.status = l[t].status /\ e.child = l[t].child
  BY DEF Entry
<1> QED
  BY <1>1 DEF Loaded

\* FanoutLedger.load, and the load that ends FanoutLedger.plan.
LEMMA LoadStep ==
    ASSUME FanoutInv, NEW w \in Workers, LoadLedger(w) \/ PlanTasks(w)
    PROVE  FanoutInv'
<1> USE DEF FanoutInv
<1>0. /\ pc[w] \in {"loading", "planning"} /\ UNCHANGED <<cstatus, todo, lock>>
      /\ pc' \in {[pc EXCEPT ![w] = p] : p \in {"planning", "reconciling"}}
      /\ entries' = [entries EXCEPT ![w] = Loaded(ledger')]
      /\ \/ ledger' = ledger
         \/ ledger' = [t \in Tasks |->
                        IF t[1] = w /\ ledger[t] = Absent THEN Planned ELSE ledger[t]]
  BY DEF LoadLedger, PlanTasks, Goto, kids
<1>1. Absent \in Entry /\ Planned \in Entry /\ Planned.status = "planned" /\ Planned.child = NoChild
      /\ Absent.status = "absent" /\ Absent.child = NoChild
  BY FanoutAssumption DEF Absent, Planned, Entry, NoChild
<1>a. /\ ledger' \in [Tasks -> Entry]
      /\ \A t \in Tasks : /\ ledger'[t].child = ledger[t].child
                          /\ \/ ledger'[t].status = ledger[t].status
                             \/ ledger[t].status = "absent" /\ ledger'[t].status = "planned"
  <2>1. CASE ledger' = ledger
    BY <2>1 DEF TypeOK
  <2>2. CASE ledger' # ledger
    <3>1. ledger' = [t \in Tasks |->
                      IF t[1] = w /\ ledger[t] = Absent THEN Planned ELSE ledger[t]]
      BY <1>0, <2>2
    <3>2. \A t \in Tasks :
             ledger'[t] = ledger[t] \/ (ledger[t] = Absent /\ ledger'[t] = Planned)
      BY <3>1
    <3>3. \A t \in Tasks : ledger'[t] \in Entry
      BY <1>1, <3>2 DEF TypeOK
    <3> QED BY <1>1, <3>1, <3>2, <3>3
  <2> QED BY <2>1, <2>2
<1>2. /\ entries' \in [Workers -> [Tasks -> Entry]]
      /\ \A t \in Tasks : /\ entries'[w][t].status = ledger'[t].status
                          /\ entries'[w][t].child = ledger'[t].child
      /\ \A v \in Workers : v # w => entries'[v] = entries[v]
  BY <1>0, <1>a, LoadedRows DEF TypeOK
<1>3. TypeOK'
  BY <1>0, <1>a, <1>2 DEF TypeOK, LoadLedger, PlanTasks, rows, kids, helpers, PC, Running, Holding
<1>4. LockHeld'
  BY <1>0 DEF LockHeld, TypeOK, Holding
<1>5. \A v \in Workers : v # w => pc'[v] = pc[v] /\ entries'[v] = entries[v] /\ pc[v] \notin Informed
  BY <1>0, OnlyRun DEF TypeOK, Holding, Informed
<1>6. DispatchInOrder'
  BY <1>0, <1>5 DEF DispatchInOrder, Dispatching, Informed, TypeOK
<1>7. RowsNameChild'
  BY <1>a, <1>2 DEF RowsNameChild
<1>8. OneChildPerTask' /\ RowsAreTrue'
  BY <1>0, <1>a, <1>2 DEF OneChildPerTask, RowsAreTrue
<1>9. RowsKnown'
  BY <1>2, <1>5 DEF RowsKnown, Informed
<1>10. NothingPending'
  BY <1>0, <1>5 DEF NothingPending, Informed, TypeOK
<1> QED
  BY <1>3, <1>4, <1>6, <1>7, <1>8, <1>9, <1>10

\* Writes of run w, the only informed one, to the row and the entry of one task: the
\* entry's sub-goal is the task's own.
LEMMA OtherRuns ==
    ASSUME FanoutInv, NEW w \in Workers, pc[w] \in Holding,
           NEW p \in PC, NEW E \in [Tasks -> Entry], NEW T \in SUBSET Tasks,
           pc' = [pc EXCEPT ![w] = p], entries' = [entries EXCEPT ![w] = E],
           todo' = [todo EXCEPT ![w] = T]
    PROVE  /\ pc'[w] = p /\ entries'[w] = E /\ todo'[w] = T
           /\ \A v \in Workers : v # w => /\ pc'[v] = pc[v] /\ entries'[v] = entries[v]
                                          /\ todo'[v] = todo[v] /\ pc[v] \notin Informed
           /\ pc' \in [Workers -> PC] /\ entries' \in [Workers -> [Tasks -> Entry]]
           /\ todo' \in [Workers -> SUBSET Tasks]
  BY OnlyRun DEF FanoutInv, TypeOK, Holding, Informed

\* reconcile_children changes the status of finished sub-goals' rows and nothing else.
LEMMA FoldedRows ==
    ASSUME NEW f \in [Tasks -> Entry], NEW over, NEW good \in SUBSET over
    PROVE  /\ Fold(f, over, good) \in [Tasks -> Entry]
           /\ \A t \in Tasks :
                 /\ Fold(f, over, good)[t].child = f[t].child
                 /\ t \notin over => Fold(f, over, good)[t] = f[t]
                 /\ t \in over => Fold(f, over, good)[t].status =
                                     IF t \in good THEN "complete" ELSE "failed"
<1>1. ASSUME NEW t \in Tasks, NEW s \in {"complete", "failed"}
      PROVE  LET e == [f[t] EXCEPT !.status = s]
             IN e \in Entry /\ e.status = s /\ e.child = f[t].child
  BY DEF Entry
<1> QED
  BY <1>1 DEF Fold

\* A re-entered run folds its sub-goals' ends into the rows it has loaded.
LEMMA ReconcileStep ==
    ASSUME FanoutInv, NEW w \in Workers, Reconcile(w)
    PROVE  FanoutInv'
<1> USE DEF FanoutInv
<1>1. PICK good \in SUBSET Answerable(w) :
        /\ ledger' = Fold(ledger, Over(w), good)
        /\ entries' = [entries EXCEPT ![w] = Fold(entries[w], Over(w), good)]
        /\ todo' = [todo EXCEPT ![w] = NextUp(Fold(entries[w], Over(w), good))]
  BY DEF Reconcile
<1> DEFINE E == Fold(entries[w], Over(w), good)
           T == NextUp(E)
<1>2. /\ pc[w] = "reconciling" /\ pc' = [pc EXCEPT ![w] = "dispatching"]
      /\ UNCHANGED <<cstatus, lock>>
  BY DEF Reconcile, Goto, kids
<1>3. ledger \in [Tasks -> Entry] /\ entries[w] \in [Tasks -> Entry] /\ good \subseteq Over(w)
  BY DEF TypeOK, Answerable
<1>4. /\ ledger' \in [Tasks -> Entry] /\ E \in [Tasks -> Entry]
      /\ \A t \in Tasks : /\ ledger'[t].child = ledger[t].child
                          /\ E[t].child = entries[w][t].child
                          /\ t \notin Over(w) => ledger'[t] = ledger[t] /\ E[t] = entries[w][t]
                          /\ t \in Over(w) => /\ ledger'[t].status \in {"complete", "failed"}
                                              /\ E[t].status = ledger'[t].status
                                              /\ E[t].status = "complete" => t \in good
  BY <1>1, <1>3, FoldedRows
<1>5. T \in SUBSET Tasks /\ \A t \in T : E[t].status = "planned"
  BY DEF NextUp, FirstN, With
<1>6. \A t \in Over(w) : /\ entries[w][t].status \in {"planned", "dispatched"}
                         /\ t \in Tasks /\ ledger[t].child = 1 /\ ledger[t].status # "absent"
                         /\ t \in good => cstatus[<<t, 1>>] = "complete"
  BY <1>2 DEF Over, Answerable, Pending, RowsKnown, RowsNameChild, Informed
<1> HIDE DEF E, T
<1>7. "dispatching" \in PC /\ pc[w] \in Holding /\ entries' = [entries EXCEPT ![w] = E]
      /\ todo' = [todo EXCEPT ![w] = T]
  BY <1>1, <1>2 DEF PC, Running, Holding, E, T
<1>8. /\ pc'[w] = "dispatching" /\ entries'[w] = E /\ todo'[w] = T
      /\ \A v \in Workers : v # w => /\ pc'[v] = pc[v] /\ entries'[v] = entries[v]
                                     /\ todo'[v] = todo[v] /\ pc[v] \notin Informed
      /\ pc' \in [Workers -> PC] /\ entries' \in [Workers -> [Tasks -> Entry]]
      /\ todo' \in [Workers -> SUBSET Tasks]
  BY <1>2, <1>4, <1>5, <1>7, OtherRuns
<1>9. TypeOK'
  BY <1>4, <1>8 DEF TypeOK, Reconcile, rows, kids, helpers
<1>10. LockHeld'
  BY <1>2, <1>8 DEF LockHeld, Holding
<1>11. DispatchInOrder'
  BY <1>2, <1>5, <1>8 DEF DispatchInOrder, Dispatching
<1>12. RowsNameChild'
  BY <1>4, <1>6, <1>8 DEF RowsNameChild
<1>13. OneChildPerTask' /\ RowsAreTrue'
  <2>1. OneChildPerTask'
    BY <1>2 DEF OneChildPerTask
  <2>2. ASSUME NEW t \in Tasks
        PROVE  /\ ledger'[t].status = "absent" => ledger[t].status = "absent"
               /\ ledger'[t].status = "complete" => cstatus[<<t, 1>>] = "complete"
               /\ E[t].status = "complete" => cstatus[<<t, 1>>] = "complete"
    BY <1>4, <1>6 DEF RowsAreTrue
  <2>3. \A v \in Workers, t \in Tasks :
           entries'[v][t].status = "complete" => cstatus[<<t, 1>>] = "complete"
    BY <1>8, <2>2 DEF RowsAreTrue
  <2> QED
    BY <1>2, <2>1, <2>2, <2>3 DEF RowsAreTrue
<1>14. RowsKnown'
  BY <1>2, <1>4, <1>6, <1>8 DEF RowsKnown, Informed
<1>15. NothingPending'
  BY <1>8 DEF NothingPending, Pending, Informed
<1> QED
  BY <1>9, <1>10, <1>11, <1>12, <1>13, <1>14, <1>15

\* What _dispatch_entry may do for the task t it is at: give the entry and the row its
\* sub-goal and a status, create the task's first sub-goal, and go on with p.
LEMMA DispatchWrites ==
    ASSUME FanoutInv, NEW w \in Workers, pc[w] \in Dispatching, todo[w] # {},
           NEW t, t = First(todo[w]), t \in Tasks, t \in todo[w],
           NEW e \in Entry, NEW p \in Dispatching, NEW T \in {todo[w], todo[w] \ {t}},
           e.status \in {"planned", "dispatched", "failed"}, e.child \in {NoChild, 1},
           T = todo[w] => e.status = "planned",
           p \in {"submitting", "marking"} => T = todo[w],
           p = "submitting" => cstatus'[<<t, 1>>] = "none",
           p = "marking" => e.child # NoChild,
           pc' = [pc EXCEPT ![w] = p], todo' = [todo EXCEPT ![w] = T],
           entries' = [entries EXCEPT ![w] = [entries[w] EXCEPT ![t] = e]],
           \/ ledger' = ledger
           \/ \E r \in Entry : /\ ledger' = [ledger EXCEPT ![t] = r]
                               /\ r.status \in {"dispatched", "failed"} /\ r.child \in {NoChild, 1}
                               /\ r.status = "dispatched" => r.child # NoChild,
           \/ cstatus' = cstatus
           \/ /\ cstatus[<<t, 1>>] = "none"
              /\ cstatus' = [cstatus EXCEPT ![<<t, 1>>] = "planning"],
           TypeOK', lock' = lock
    PROVE  FanoutInv'
<1> USE DEF FanoutInv
<1> DEFINE E == [entries[w] EXCEPT ![t] = e]
<1>1. /\ entries[w] \in [Tasks -> Entry] /\ E \in [Tasks -> Entry] /\ E[t] = e
      /\ \A u \in Tasks : u # t => E[u] = entries[w][u]
  BY DEF TypeOK
<1>2. p \in PC /\ pc[w] \in Holding /\ T \in SUBSET Tasks /\ p \in Holding
  BY DEF PC, Running, Holding, Dispatching, TypeOK
<1> HIDE DEF E
<1>3. entries' = [entries EXCEPT ![w] = E]
  BY DEF E
<1>4. /\ pc'[w] = p /\ entries'[w] = E /\ todo'[w] = T
      /\ \A v \in Workers : v # w => /\ pc'[v] = pc[v] /\ entries'[v] = entries[v]
                                     /\ todo'[v] = todo[v] /\ pc[v] \notin Informed
  BY <1>1, <1>2, <1>3, OtherRuns
<1>5. entries[w][t].status = "planned" /\ ledger[t].status # "absent"
  BY DEF DispatchInOrder, RowsKnown, Informed, Dispatching
<1>6. /\ \A u \in Tasks : u # t => ledger'[u] = ledger[u]
      /\ ledger'[t].status # "absent" /\ ledger'[t].child \in {NoChild, 1}
      /\ ledger'[t].status = "dispatched" => ledger'[t].child # NoChild
      /\ ledger'[t].status = "complete" => ledger[t].status = "complete"
  BY <1>5 DEF TypeOK, RowsNameChild
<1>7. \A c \in Children : \/ cstatus'[c] = cstatus[c]
                          \/ c = <<t, 1>> /\ cstatus[c] = "none" /\ cstatus'[c] = "planning"
  BY DEF TypeOK
<1>8. LockHeld'
  BY <1>2, <1>4 DEF LockHeld
<1>9. DispatchInOrder'
  <2>1. ASSUME NEW v \in Workers, v # w
        PROVE  pc'[v] \notin Dispatching /\ todo'[v] = {}
    BY <1>4, <2>1 DEF DispatchInOrder, Dispatching, Informed
  <2>2. ASSUME NEW u \in T PROVE E[u].status = "planned"
    <3>1. u \in Tasks /\ u \in todo[w]
      BY <1>2
    <3>2. CASE u = t
      BY <1>1, <3>2
    <3>3. CASE u # t
      BY <1>1, <3>1, <3>3 DEF DispatchInOrder
    <3> QED BY <3>2, <3>3
  <2> QED
    BY <1>1, <1>4, <2>1, <2>2 DEF DispatchInOrder, Dispatching
<1>10. RowsNameChild'
  <2>1. \A v \in Workers, u \in Tasks : entries'[v][u].child \in {NoChild, 1}
    BY <1>1, <1>4 DEF RowsNameChild
  <2> QED
    BY <1>6, <2>1 DEF RowsNameChild
<1>11. OneChildPerTask'
  BY <1>7 DEF OneChildPerTask
<1>12. RowsAreTrue'
  <2>1. \A u \in Tasks : <<u, 1>> \in Children
    BY FanoutAssumption DEF Children
  <2>2. \A u \in Tasks : cstatus[<<u, 1>>] = "complete" => cstatus'[<<u, 1>>] = "complete"
    BY <1>7, <2>1
  <2>3. ASSUME NEW u \in Tasks, NEW n \in 1 .. MaxCopies, cstatus'[<<u, n>>] # "none"
        PROVE  ledger'[u].status # "absent"
    <3>1. <<u, n>> \in Children
      BY DEF Children
    <3> QED
      BY <1>6, <1>7, <2>3, <3>1 DEF RowsAreTrue
  <2>4. \A u \in Tasks : ledger'[u].status = "complete" => cstatus'[<<u, 1>>] = "complete"
    BY <1>6, <2>2 DEF RowsAreTrue
  <2>5. ASSUME NEW v \in Workers, NEW u \in Tasks, entries'[v][u].status = "complete"
        PROVE  cstatus'[<<u, 1>>] = "complete"
    <3>1. entries[v][u].status = "complete"
      <4>1. CASE v = w
        BY <1>1, <1>4, <2>5, <4>1
      <4>2. CASE v # w
        BY <1>4, <2>5, <4>2
      <4> QED BY <4>1, <4>2
    <3> QED
      BY <2>2, <3>1 DEF RowsAreTrue
  <2> QED
    BY <2>3, <2>4, <2>5 DEF RowsAreTrue
<1>13. RowsKnown'
  BY <1>1, <1>4, <1>6 DEF RowsKnown, Informed, Dispatching
<1>14. NothingPending'
  BY <1>4 DEF NothingPending, Informed, Dispatching
<1> QED
  BY <1>8, <1>9, <1>10, <1>11, <1>12, <1>13, <1>14

\* The entry that a run is about to dispatch, with another field.
LEMMA EntryWith ==
    ASSUME NEW e \in Entry
    PROVE  /\ \A n \in {NoChild, 1} : LET f == [e EXCEPT !.child = n]
              IN f \in Entry /\ f.child = n /\ f.status = e.status
           /\ \A s \in {"dispatched", "failed"} : LET f == [e EXCEPT !.status = s]
              IN f \in Entry /\ f.status = s /\ f.child = e.child
           /\ \A d \in {"none", "ahead", "past"} : LET f == [e EXCEPT !.deadline = d]
              IN f \in Entry /\ f.status = e.status /\ f.child = e.child
  BY FanoutAssumption DEF Entry, NoChild

\* One planned row is looked up, submitted and marked.
LEMMA DispatchStep ==
    ASSUME FanoutInv, NEW w \in Workers,
           FindChild(w) \/ SubmitChild(w) \/ DispatchFails(w) \/ MarkDispatched(w)
    PROVE  FanoutInv'
<1> USE DEF FanoutInv
<1> DEFINE t == First(todo[w])
<1>1. pc[w] \in Dispatching /\ todo[w] # {}
  BY DEF FindChild, SubmitChild, DispatchFails, MarkDispatched, DispatchInOrder, Dispatching
<1>2. t \in todo[w] /\ t \in Tasks
  BY <1>1, FirstIsIn DEF TypeOK
<1>3. /\ entries[w] \in [Tasks -> Entry] /\ entries[w][t] \in Entry /\ ledger[t] \in Entry
      /\ entries[w][t].status = "planned" /\ entries[w][t].child \in {NoChild, 1}
      /\ ledger[t].child \in {NoChild, 1}
      /\ pc[w] = "submitting" => cstatus[<<t, 1>>] = "none"
      /\ pc[w] = "marking" => entries[w][t].child # NoChild
  BY <1>2 DEF TypeOK, DispatchInOrder, RowsNameChild
<1>4. lock' = lock /\ {"dispatching", "submitting", "marking"} = Dispatching
  BY DEF FindChild, SubmitChild, DispatchFails, MarkDispatched, Dispatching
<1>t. ASSUME NEW e \in Entry, entries' = [entries EXCEPT ![w] = [entries[w] EXCEPT ![t] = e]],
             NEW p \in Dispatching, pc' = [pc EXCEPT ![w] = p],
             NEW T \in SUBSET todo[w], todo' = [todo EXCEPT ![w] = T]
      PROVE  /\ entries' \in [Workers -> [Tasks -> Entry]] /\ pc' \in [Workers -> PC]
             /\ todo' \in [Workers -> SUBSET Tasks]
  BY <1>t, <1>2 DEF TypeOK, PC, Running, Holding, Dispatching
<1>5. CASE FindChild(w)
  <2> DEFINE e == [entries[w][t] EXCEPT !.child = ChildOf(w, t)]
             p == IF ChildOf(w, t) = NoChild THEN "submitting" ELSE "marking"
  <2>1. ChildOf(w, t) \in {NoChild, 1} /\ (ChildOf(w, t) = NoChild => cstatus[<<t, 1>>] = "none")
    BY <1>3 DEF ChildOf, NoChild
  <2>2. /\ entries' = [entries EXCEPT ![w] = [entries[w] EXCEPT ![t] = e]]
        /\ pc' = [pc EXCEPT ![w] = p]
        /\ UNCHANGED <<ledger, cstatus, cpc, todo, rows, msgs, helpers, faults>>
    BY <1>5 DEF FindChild, Goto, kids
  <2>3. e \in Entry /\ e.status = "planned" /\ e.child = ChildOf(w, t)
    BY <1>3, <2>1, EntryWith
  <2>7. p \in Dispatching
    BY <1>4
  <2>8. todo' = [todo EXCEPT ![w] = todo[w]]
    BY <2>2 DEF TypeOK
  <2>4. p = "submitting" => cstatus'[<<t, 1>>] = "none"
    BY <2>1, <2>2
  <2>5. p = "marking" => e.child # NoChild
    BY <2>3
  <2> HIDE DEF e, p
  <2>9. /\ entries' \in [Workers -> [Tasks -> Entry]] /\ pc' \in [Workers -> PC]
        /\ todo' \in [Workers -> SUBSET Tasks]
    BY <2>2, <2>3, <2>7, <2>8, <1>t
  <2>6. TypeOK'
    BY <1>4, <2>2, <2>9 DEF TypeOK, rows, helpers
  <2> HIDE DEF t
  <2> QED
    BY <1>1, <1>2, <1>4, <2>1, <2>2, <2>3, <2>4, <2>5, <2>6, <2>7, <2>8, DispatchWrites DEF t
<1>6. CASE SubmitChild(w)
  <2> DEFINE e == [entries[w][t] EXCEPT !.child = 1]
  <2>1. NewCopy(t) = 1 /\ cstatus[<<t, 1>>] = "none"
    BY <1>2, <1>3, <1>6, FirstCopy DEF SubmitChild
  <2>2. /\ entries' = [entries EXCEPT ![w] = [entries[w] EXCEPT ![t] = e]]
        /\ pc' = [pc EXCEPT ![w] = "marking"]
        /\ cstatus' = [cstatus EXCEPT ![<<t, 1>>] = "planning"]
        /\ cpc' = [cpc EXCEPT ![<<t, 1>>] = "running"]
        /\ UNCHANGED <<ledger, todo, rows, msgs, helpers, faults>>
    BY <1>6, <2>1 DEF SubmitChild, NewChild, Goto
  <2>3. /\ e \in Entry /\ e.status = "planned" /\ e.child = 1
        /\ "marking" \in Dispatching /\ todo' = [todo EXCEPT ![w] = todo[w]]
    BY <1>3, <1>4, <2>2, EntryWith DEF TypeOK
  <2> HIDE DEF e
  <2>9. /\ entries' \in [Workers -> [Tasks -> Entry]] /\ pc' \in [Workers -> PC]
        /\ todo' \in [Workers -> SUBSET Tasks]
    BY <2>2, <2>3, <1>t
  <2>6. TypeOK'
    BY <1>4, <2>2, <2>9 DEF TypeOK, rows, helpers, Status
  <2>7. e.child \in {NoChild, 1} /\ e.child # NoChild
    BY <2>3 DEF NoChild
  <2> HIDE DEF t
  <2> QED
    BY <1>1, <1>2, <1>4, <2>1, <2>2, <2>3, <2>6, <2>7, DispatchWrites DEF t
<1>7. CASE DispatchFails(w)
  <2> DEFINE e == [entries[w][t] EXCEPT !.status = "failed"]
             r == [ledger[t] EXCEPT !.status = "failed"]
             T == todo[w] \ {t}
  <2>1. pc[w] = "submitting" => NewCopy(t) = 1 /\ cstatus[<<t, 1>>] = "none"
    BY <1>2, <1>3, FirstCopy
  <2>2. /\ entries' = [entries EXCEPT ![w] = [entries[w] EXCEPT ![t] = e]]
        /\ pc' = [pc EXCEPT ![w] = "dispatching"] /\ todo' = [todo EXCEPT ![w] = T]
        /\ \/ cstatus' = cstatus /\ cpc' = cpc
           \/ /\ cstatus[<<t, 1>>] = "none"
              /\ cstatus' = [cstatus EXCEPT ![<<t, 1>>] = "planning"]
              /\ cpc' = [cpc EXCEPT ![<<t, 1>>] = "orphan"]
        /\ ledger' = ledger \/ ledger' = [ledger EXCEPT ![t] = r]
        /\ faults' = faults + 1
        /\ UNCHANGED <<rows, msgs, helpers>>
    BY <1>7, <2>1 DEF DispatchFails, NewChild, Goto, kids, Fault
  <2>3. /\ e \in Entry /\ e.status = "failed" /\ e.child \in {NoChild, 1}
        /\ r \in Entry /\ r.status = "failed" /\ r.child \in {NoChild, 1}
        /\ "dispatching" \in Dispatching /\ T \in SUBSET todo[w] /\ T # todo[w]
    BY <1>2, <1>3, <1>4, EntryWith
  <2> HIDE DEF e, r, T
  <2>6. TypeOK'
    <3>1. ledger' \in [Tasks -> Entry]
      BY <2>2, <2>3 DEF TypeOK
    <3>2. cstatus' \in [Children -> Status \cup {"none"}]
          /\ cpc' \in [Children -> {"none", "orphan", "running", "ending", "over"}]
      BY <2>2 DEF TypeOK, Status
    <3>3. /\ entries' \in [Workers -> [Tasks -> Entry]] /\ pc' \in [Workers -> PC]
          /\ todo' \in [Workers -> SUBSET Tasks]
      BY <2>2, <2>3, <1>t
    <3> QED
      BY <1>4, <2>2, <3>1, <3>2, <3>3 DEF TypeOK, rows, helpers
  <2>7. \/ ledger' = ledger
        \/ \E x \in Entry : /\ ledger' = [ledger EXCEPT ![t] = x]
                            /\ x.status \in {"dispatched", "failed"} /\ x.child \in {NoChild, 1}
                            /\ x.status = "dispatched" => x.child # NoChild
    BY <2>2, <2>3
  <2>8. T \in {todo[w], todo[w] \ {t}}
    BY DEF T
  <2> HIDE DEF t
  <2> QED
    BY <1>1, <1>2, <1>4, <2>1, <2>2, <2>3, <2>6, <2>7, <2>8, DispatchWrites DEF t
<1>8. CASE MarkDispatched(w)
  <2> DEFINE e == [entries[w][t] EXCEPT !.status = "dispatched"]
             r == [e EXCEPT !.deadline = "ahead"]
             T == todo[w] \ {t}
  <2>2. /\ entries' = [entries EXCEPT ![w] = [entries[w] EXCEPT ![t] = e]]
        /\ pc' = [pc EXCEPT ![w] = "dispatching"] /\ todo' = [todo EXCEPT ![w] = T]
        /\ ledger' = ledger \/ ledger' = [ledger EXCEPT ![t] = r]
        /\ faults' \in {faults, faults + 1}
        /\ UNCHANGED <<rows, msgs, helpers, cstatus, cpc>>
    BY <1>8 DEF MarkDispatched, Goto, kids, Fault, NoFault
  <2>3. /\ e \in Entry /\ e.status = "dispatched" /\ e.child \in {NoChild, 1} /\ e.child # NoChild
        /\ "dispatching" \in Dispatching /\ T \in SUBSET todo[w] /\ T # todo[w]
    BY <1>2, <1>3, <1>4, <1>8, EntryWith DEF MarkDispatched
  <2>4. r \in Entry /\ r.status = "dispatched" /\ r.child \in {NoChild, 1} /\ r.child # NoChild
    BY <2>3, EntryWith
  <2> HIDE DEF e, r, T
  <2>6. TypeOK'
    <3>1. ledger' \in [Tasks -> Entry]
      BY <2>2, <2>4 DEF TypeOK
    <3>3. /\ entries' \in [Workers -> [Tasks -> Entry]] /\ pc' \in [Workers -> PC]
          /\ todo' \in [Workers -> SUBSET Tasks]
      BY <2>2, <2>3, <1>t
    <3> QED
      BY <1>4, <2>2, <3>1, <3>3 DEF TypeOK, rows, helpers
  <2>7. \/ ledger' = ledger
        \/ \E x \in Entry : /\ ledger' = [ledger EXCEPT ![t] = x]
                            /\ x.status \in {"dispatched", "failed"} /\ x.child \in {NoChild, 1}
                            /\ x.status = "dispatched" => x.child # NoChild
    BY <2>2, <2>4
  <2>8. T \in {todo[w], todo[w] \ {t}}
    BY DEF T
  <2> HIDE DEF t
  <2> QED
    BY <1>1, <1>2, <1>4, <2>2, <2>3, <2>6, <2>7, <2>8, DispatchWrites DEF t
<1> QED
  BY <1>5, <1>6, <1>7, <1>8

\* The run's own part of the state when it ends, and the lock when it gives that back.
LEMMA EndedRun ==
    ASSUME FanoutInv, NEW w \in Workers, NEW to \in PC \ Holding, EndRun(w, to),
           lock' \in {lock, LockWithout(w)}
    PROVE  /\ pc' \in [Workers -> PC] /\ entries' \in [Workers -> [Tasks -> Entry]]
           /\ todo' \in [Workers -> SUBSET Tasks] /\ lock' \in Workers \cup {NoWorker}
           /\ LockHeld'
<1> USE DEF FanoutInv
<1>1. NoEntries \in [Tasks -> Entry]
  BY FanoutAssumption DEF NoEntries, Absent, Entry, NoChild
<1>2. /\ pc' = [pc EXCEPT ![w] = to] /\ entries' = [entries EXCEPT ![w] = NoEntries]
      /\ todo' = [todo EXCEPT ![w] = {}]
  BY DEF EndRun, Goto
<1>3. LockHeld'
  BY <1>2 DEF LockHeld, LockWithout, TypeOK
<1> QED
  BY <1>1, <1>2, <1>3 DEF TypeOK, LockWithout

\* Nothing more to dispatch.
LEMMA AdvanceStep ==
    ASSUME FanoutInv, NEW w \in Workers, Advance(w)
    PROVE  FanoutInv'
<1> USE DEF FanoutInv
<1>1. /\ pc[w] = "dispatching" /\ todo[w] = {}
      /\ UNCHANGED <<rows, msgs, ledger, cstatus, cpc, helpers, faults>>
  BY DEF Advance, kids
<1>2. CASE Pending(w) = {}
  <2>1. pc' = [pc EXCEPT ![w] = "synthesizing"] /\ UNCHANGED <<lock, entries, todo>>
    BY <1>2 DEF Advance, Goto
  <2>2. TypeOK'
    BY <1>1, <2>1 DEF TypeOK, rows, helpers, PC, Running, Holding
  <2>3. pc'[w] = "synthesizing" /\ \A v \in Workers : v # w => pc'[v] = pc[v]
    BY <2>1 DEF TypeOK
  <2>4. LockHeld'
    BY <1>1, <2>1, <2>3 DEF LockHeld, Holding
  <2>5. DispatchInOrder'
    BY <1>1, <2>1, <2>3 DEF DispatchInOrder, Dispatching
  <2>6. RowsNameChild' /\ OneChildPerTask' /\ RowsAreTrue'
    BY <1>1, <2>1 DEF RowsNameChild, OneChildPerTask, RowsAreTrue
  <2>7. RowsKnown'
    BY <1>1, <2>1, <2>3 DEF RowsKnown, Informed
  <2>8. NothingPending'
    BY <1>2, <2>1, <2>3 DEF NothingPending, Pending
  <2> QED
    BY <2>2, <2>4, <2>5, <2>6, <2>7, <2>8
<1>3. CASE Pending(w) # {}
  <2>1. EndRun(w, "parking") /\ lock' = LockWithout(w)
    BY <1>3 DEF Advance
  <2>2. "parking" \in PC \ (Informed \cup Holding)
    BY DEF PC, Running, Holding, Informed
  <2>3. /\ pc' \in [Workers -> PC] /\ entries' \in [Workers -> [Tasks -> Entry]]
        /\ todo' \in [Workers -> SUBSET Tasks] /\ lock' \in Workers \cup {NoWorker}
        /\ LockHeld'
    BY <2>1, <2>2, EndedRun
  <2>4. TypeOK'
    BY <1>1, <2>3 DEF TypeOK, rows, helpers
  <2> QED
    BY <1>1, <2>1, <2>2, <2>3, <2>4, EndStep
<1> QED
  BY <1>2, <1>3

\* The run ends: after its work, at the cancel flag, or with its process.
LEMMA RunEnds ==
    ASSUME FanoutInv, NEW w \in Workers, FinishParent(w) \/ StopRun(w) \/ Crash(w)
    PROVE  FanoutInv'
<1> USE DEF FanoutInv
<1>1. PICK to \in {"idle", "dead"} : EndRun(w, to)
  BY DEF FinishParent, StopRun, Crash
<1>2. to \in PC \ (Informed \cup Holding) /\ to \in PC \ Holding
  BY DEF PC, Running, Holding, Informed
<1>3. /\ lock' \in {lock, LockWithout(w)} /\ faults' \in Nat /\ status' \in Status
      /\ UNCHANGED <<hb, msgs, ledger, cstatus, cpc, helpers>>
  BY DEF FinishParent, StopRun, Crash, rows, kids, Fault, TypeOK, Written, Status
<1>4. /\ pc' \in [Workers -> PC] /\ entries' \in [Workers -> [Tasks -> Entry]]
      /\ todo' \in [Workers -> SUBSET Tasks] /\ lock' \in Workers \cup {NoWorker}
      /\ LockHeld'
  BY <1>1, <1>2, <1>3, EndedRun
<1>5. TypeOK'
  BY <1>3, <1>4 DEF TypeOK, helpers
<1> QED
  BY <1>1, <1>2, <1>3, <1>4, <1>5, EndStep

\* A run goes on without touching the ledger: it takes the goal, leaves the supervisor,
\* parks, wakes itself, or comes back from the dead.
LEMMA RunMoves ==
    ASSUME FanoutInv, NEW w \in Workers,
           Take(w) \/ GoAlone(w) \/ ParkParent(w) \/ WakeSelf(w) \/ Redeliver(w)
    PROVE  FanoutInv'
<1> USE DEF FanoutInv
<1>1. UNCHANGED <<ledger, cstatus, cpc, entries, todo, overdue, op, cascade>>
  BY DEF Take, GoAlone, ParkParent, WakeSelf, Redeliver, kids, helpers
<1>2. status' \in Status /\ hb' \in BOOLEAN
  BY DEF Take, GoAlone, ParkParent, WakeSelf, WakeParent, Redeliver, rows, TypeOK, Status
<1>3. msgs' \in Nat /\ enqueues' \in Nat /\ faults' \in Nat
  BY DEF Take, GoAlone, ParkParent, WakeSelf, WakeParent, Redeliver, helpers, TypeOK, Fault, NoFault
<1>4. /\ pc' \in [Workers -> PC]
      /\ \A v \in Workers : v # w => pc'[v] = pc[v]
      /\ pc'[w] = pc[w] \/ (pc'[w] \notin Informed /\ pc[w] \notin Dispatching)
  BY DEF Take, GoAlone, ParkParent, WakeSelf, Redeliver, Goto, TypeOK, PC, Running, Holding,
         Informed, Dispatching
<1>5. lock' \in Workers \cup {NoWorker} /\ LockHeld'
  <2>1. CASE Take(w)
    BY <2>1, <1>4, FanoutAssumption DEF Take, LockHeld, TypeOK, Goto
  <2>2. CASE GoAlone(w)
    BY <2>2, <1>4 DEF GoAlone, LockHeld, TypeOK, Holding
  <2>3. CASE ParkParent(w) \/ WakeSelf(w)
    BY <2>3, <1>4 DEF ParkParent, WakeSelf, LockHeld, TypeOK, Goto, Holding
  <2>4. CASE Redeliver(w)
    BY <2>4, <1>4 DEF Redeliver, LockHeld, TypeOK, Goto, LockWithout, Holding
  <2> QED BY <2>1, <2>2, <2>3, <2>4
<1>6. TypeOK'
  BY <1>1, <1>2, <1>3, <1>4, <1>5 DEF TypeOK
<1>7. \A v \in Workers : \/ pc'[v] = pc[v]
                         \/ pc'[v] \notin Informed /\ pc[v] \notin Dispatching
  BY <1>4
<1> QED
  BY <1>1, <1>5, <1>6, <1>7, QuietStep

\* What leaves the runs, the ledger and the sub-goals' rows alone.
LEMMA Elsewhere ==
    ASSUME FanoutInv, ~Stalls,
           \/ Skip \/ Duplicate \/ Reap \/ DetectStuck \/ EnqueueParent \/ EnqueueFails
           \/ SweepWakes \/ CancelParent \/ ListChildren \/ AnswerCancel
           \/ \E c \in Children : ChildWakesParent(c)
    PROVE  FanoutInv'
<1> USE DEF FanoutInv
<1>1. UNCHANGED <<ledger, cstatus, entries, todo, pc, lock, overdue>>
  BY DEF Skip, Duplicate, Reap, DetectStuck, EnqueueParent, EnqueueFails, SweepWakes, CancelParent,
         ListChildren, AnswerCancel, ChildWakesParent, kids, runs, helpers
<1>2. status' \in Status /\ hb' \in BOOLEAN
  BY DEF Skip, Duplicate, Reap, DetectStuck, EnqueueParent, EnqueueFails, SweepWakes, CancelParent,
         ListChildren, AnswerCancel, ChildWakesParent, WakeParent, rows, TypeOK, Status
<1>3. msgs' \in Nat /\ enqueues' \in Nat /\ faults' \in Nat
  BY DEF Skip, Duplicate, Reap, DetectStuck, EnqueueParent, EnqueueFails, SweepWakes, CancelParent,
         ListChildren, AnswerCancel, ChildWakesParent, WakeParent, helpers, TypeOK, Fault, NoFault
<1>4. op' \in {"idle", "list", "cancel", "wake", "done"} /\ cascade' \subseteq Children
  BY DEF Skip, Duplicate, Reap, DetectStuck, EnqueueParent, EnqueueFails, SweepWakes, CancelParent,
         ListChildren, AnswerCancel, ChildWakesParent, helpers, TypeOK, ActiveChildren
<1>5. cpc' \in [Children -> {"none", "orphan", "running", "ending", "over"}]
  BY DEF Skip, Duplicate, Reap, DetectStuck, EnqueueParent, EnqueueFails, SweepWakes, CancelParent,
         ListChildren, AnswerCancel, ChildWakesParent, kids, TypeOK
<1>6. TypeOK' /\ LockHeld'
  BY <1>1, <1>2, <1>3, <1>4, <1>5 DEF TypeOK, LockHeld
<1> QED
  BY <1>1, <1>6, QuietStep

\* Sub-goals live and end, or are cancelled by sweeper or operator.
LEMMA SubGoalStep ==
    ASSUME FanoutInv, NEW c \in Children,
           \/ ChildWaits(c) \/ ChildEnds(c) \/ ChildLost(c) \/ SweepCancel(c)
           \/ CancelChild(c) \/ CancelSubGoal(c)
    PROVE  FanoutInv'
<1> USE DEF FanoutInv
<1>1. UNCHANGED <<rows, ledger, entries, todo, pc, lock, msgs, enqueues>>
  BY DEF ChildWaits, ChildEnds, ChildLost, SweepCancel, CancelChild, CancelSubGoal, runs, helpers
<1>2. \/ cstatus' = cstatus
      \/ \E s \in Status : /\ cstatus' = [cstatus EXCEPT ![c] = s]
                           /\ cstatus[c] = "complete" => s = "complete"
                           /\ cstatus[c] # "none"
      \/ cstatus' = [cstatus EXCEPT ![c] = cstatus[c]]
  BY DEF ChildWaits, ChildEnds, ChildLost, SweepCancel, CancelChild, CancelSubGoal, Written,
         allowed_predecessors, is_valid_transition, Status, ACTIVE_STATUSES, TERMINAL_STATUSES
<1>3. /\ cstatus' \in [Children -> Status \cup {"none"}]
      /\ \A d \in Children : /\ cstatus[d] = "none" <=> cstatus'[d] = "none"
                             /\ cstatus[d] = "complete" => cstatus'[d] = "complete"
  BY <1>2 DEF TypeOK, Status
<1>4. cpc' \in [Children -> {"none", "orphan", "running", "ending", "over"}] /\ faults' \in Nat
  <2>1. faults' = faults \/ faults' = faults + 1
    BY DEF ChildWaits, ChildEnds, ChildLost, SweepCancel, CancelChild, CancelSubGoal, Fault, NoFault
  <2>2. \/ cpc' = cpc
        \/ \E p \in {"ending", "over"} : cpc' = [cpc EXCEPT ![c] = p]
    BY DEF ChildWaits, ChildEnds, ChildLost, SweepCancel, CancelChild, CancelSubGoal
  <2> QED
    BY <2>1, <2>2 DEF TypeOK
<1>5. /\ overdue' \subseteq Children /\ cascade' \subseteq Children
      /\ op' \in {"idle", "list", "cancel", "wake", "done"}
  BY DEF ChildWaits, ChildEnds, ChildLost, SweepCancel, CancelChild, CancelSubGoal, TypeOK, helpers
<1>6. TypeOK'
  BY <1>1, <1>3, <1>4, <1>5 DEF TypeOK, rows
<1> QED
  BY <1>1, <1>3, <1>6, ChildrenStep

\* What the sweeper's clock and its first transaction do to the rows.
LEMMA SweptRows ==
    ASSUME FanoutInv, NEW t \in Tasks, DeadlinePasses(t) \/ SweepOverdue(t)
    PROVE  /\ ledger' \in [Tasks -> Entry]
           /\ \A u \in Tasks :
                /\ ledger'[u].child = ledger[u].child
                /\ \/ ledger'[u].status = ledger[u].status
                   \/ ledger[u].status = "dispatched" /\ ledger'[u].status = "failed"
<1> USE DEF FanoutInv
<1>2. PICK s \in {"none", "ahead", "past"} :
         \/ ledger' = [ledger EXCEPT ![t].deadline = s]
         \/ /\ ledger' = [ledger EXCEPT ![t].deadline = s, ![t].status = "failed"]
            /\ ledger[t].status = "dispatched"
  BY DEF DeadlinePasses, SweepOverdue
<1>3. ledger \in [Tasks -> Entry] /\ ledger[t] \in Entry
  BY DEF TypeOK
<1> DEFINE d == [ledger[t] EXCEPT !.deadline = s]
           f == [d EXCEPT !.status = "failed"]
<1>4. /\ d \in Entry /\ d.child = ledger[t].child /\ d.status = ledger[t].status
      /\ f \in Entry /\ f.child = ledger[t].child /\ f.status = "failed"
  BY <1>3 DEF Entry
<1>5. \/ ledger' = [ledger EXCEPT ![t] = d]
      \/ ledger' = [ledger EXCEPT ![t] = f] /\ ledger[t].status = "dispatched"
  BY <1>2, <1>3
<1> HIDE DEF d, f
<1> QED
  BY <1>3, <1>4, <1>5

\* A sub-goal's deadline passes, and the sweeper fails its row.
LEMMA DeadlineStep ==
    ASSUME FanoutInv, NEW t \in Tasks, DeadlinePasses(t) \/ SweepOverdue(t)
    PROVE  FanoutInv'
<1> USE DEF FanoutInv
<1>1. UNCHANGED <<rows, cstatus, cpc, entries, todo, pc, lock, msgs, enqueues, op, cascade, faults>>
  BY DEF DeadlinePasses, SweepOverdue, kids, runs, helpers
<1>2. /\ ledger' \in [Tasks -> Entry]
      /\ \A u \in Tasks :
           /\ ledger'[u].child = ledger[u].child
           /\ \/ ledger'[u].status = ledger[u].status
              \/ ledger[u].status = "dispatched" /\ ledger'[u].status = "failed"
  BY SweptRows
<1>3. overdue' \subseteq Children
  <2>1. CASE overdue' = overdue
    BY <2>1 DEF TypeOK
  <2>2. CASE overdue' # overdue
    <3>1. ledger[t].status = "dispatched" /\ overdue' = overdue \cup {<<t, ledger[t].child>>}
      BY <2>2 DEF DeadlinePasses, SweepOverdue, helpers
    <3>2. ledger[t].child = 1
      BY <3>1 DEF RowsNameChild
    <3> QED
      BY <3>1, <3>2, FanoutAssumption DEF TypeOK, Children
  <2> QED BY <2>1, <2>2
<1>4. TypeOK'
  BY <1>1, <1>2, <1>3 DEF TypeOK, rows
<1> QED
  BY <1>1, <1>2, <1>4, SweepStep

\* Every step but a stall keeps the invariant.
LEMMA InvStep == ~Stalls /\ FanoutInv /\ [Next]_vars => FanoutInv'
<1> SUFFICES ASSUME ~Stalls, FanoutInv, [Next]_vars PROVE FanoutInv'
  OBVIOUS
<1>1. CASE UNCHANGED vars
  <2>1. UNCHANGED <<status, hb, lock, msgs, ledger, cstatus, cpc, pc, entries, todo, enqueues,
                    overdue, op, cascade, faults>>
    BY <1>1 DEF vars, rows, kids, runs, helpers
  <2>2. (TypeOK /\ LockHeld)'
    BY <2>1 DEF FanoutInv, TypeOK, LockHeld
  <2> QED BY <2>1, <2>2, QuietStep
<1>2. ASSUME NEW w \in Workers, Take(w) \/ RunStep(w) \/ Crash(w) \/ Redeliver(w)
      PROVE  FanoutInv'
  BY <1>2, LoadStep, ReconcileStep, DispatchStep, AdvanceStep, RunEnds, RunMoves DEF RunStep
<1>3. ASSUME NEW c \in Children, ChildStep(c) \/ SweepCancel(c)
      PROVE  FanoutInv'
  BY <1>3, SubGoalStep, Elsewhere DEF ChildStep
<1>4. ASSUME NEW t \in Tasks, DeadlinePasses(t) \/ SweepOverdue(t)
      PROVE  FanoutInv'
  BY <1>4, DeadlineStep
<1>5. CASE CancelStep
  BY <1>5, SubGoalStep, Elsewhere DEF CancelStep
<1>6. CASE Skip \/ Duplicate \/ Reap \/ DetectStuck \/ EnqueueParent \/ EnqueueFails \/ SweepWakes
  BY <1>6, Elsewhere
<1> QED
  BY <1>1, <1>2, <1>3, <1>4, <1>5, <1>6 DEF Next

\* It holds in every behaviour without stalls.
LEMMA Invariance == ~Stalls => (Spec => []FanoutInv)
<1> SUFFICES ASSUME ~Stalls PROVE Spec => []FanoutInv
  OBVIOUS
<1>1. FanoutInv /\ [Next]_vars => FanoutInv'
  BY InvStep
<1> QED
  BY <1>1, InitInv, PTL DEF Spec

(***************************************************************************)
(* The properties, for any number of crashes, duplicates, failed writes    *)
(* and failed submissions, as long as a run that goes on keeps its lock.   *)
(***************************************************************************)

\* FanoutContinuation is well typed.
THEOREM FanoutTypeOK == ~Stalls => (Spec => []TypeOK)
<1>1. FanoutInv => TypeOK
  BY DEF FanoutInv
<1> QED
  BY <1>1, Invariance, PTL

\* A task's sub-goal is submitted once, whatever is delivered twice, dies or is not
\* written: _dispatch_entry looks for the sub-goal before it submits one.
THEOREM OneChild == ~Stalls => (Spec => []OneChildPerTask)
<1>1. FanoutInv => OneChildPerTask
  BY DEF FanoutInv
<1> QED
  BY <1>1, Invariance, PTL

\* The synthesis waits for every sub-goal this plan has not given up.
THEOREM SynthesisWaits == ~Stalls => (Spec => []NoEarlySynthesis)
<1>1. FanoutInv => NoEarlySynthesis
  <2> SUFFICES ASSUME FanoutInv, NEW w \in Workers, NEW c \in Children, pc[w] = "synthesizing"
               PROVE  /\ c \in ActiveChildren => entries[w][c[1]].status = "failed"
                      /\ entries[w][c[1]].status = "complete" /\ c[2] = 1
                            => cstatus[c] = "complete"
    BY DEF NoEarlySynthesis
  <2> DEFINE t == c[1]
             e == entries[w][t]
  <2>1. t \in Tasks /\ c[2] \in 1 .. MaxCopies /\ c = <<t, c[2]>>
    BY DEF Children
  <2>2. e.status \in {"absent", "complete", "failed"}
    BY <2>1 DEF FanoutInv, NothingPending, Pending, TypeOK, Entry
  <2>3. e.status = "complete" => cstatus[<<t, 1>>] = "complete"
    BY <2>1 DEF FanoutInv, RowsAreTrue
  <2>4. e.status = "absent" => cstatus[c] = "none"
    BY <2>1 DEF FanoutInv, RowsAreTrue, RowsKnown, Informed
  <2>5. c[2] # 1 => cstatus[c] = "none"
    BY <2>1, FanoutAssumption DEF FanoutInv, OneChildPerTask
  <2> QED
    BY <2>1, <2>2, <2>3, <2>4, <2>5 DEF ActiveChildren, ACTIVE_STATUSES, TERMINAL_STATUSES, Status
<1> QED
  BY <1>1, Invariance, PTL

(***************************************************************************)
(* The order of the plan is a strict total order, and FirstN(T, n) is its  *)
(* initial part of at most n tasks.                                        *)
(***************************************************************************)
\* The order in which two decompositions sort is strict.
LEMMA KeysOrdered ==
    /\ KeyOrder \in [Workers -> 1 .. Cardinality(Workers)]
    /\ \A v, w \in Workers : v # w => KeyOrder[v] # KeyOrder[w]
<1>1. ExistsBijection(Workers, 1 .. Cardinality(Workers))
  BY FanoutAssumption, FS_CardinalityType, Fun_ExistsBijSymmetric
<1>2. PICK f \in [Workers -> 1 .. Cardinality(Workers)] : \A v, w \in Workers : v # w => f[v] # f[w]
  BY <1>1 DEF ExistsBijection, Bijection, Injection, IsInjective
<1> QED
  BY <1>2 DEF KeyOrder

\* Earlier is a strict total order of the tasks.
LEMMA PlanOrder ==
    ASSUME NEW t \in Tasks, NEW u \in Tasks
    PROVE  /\ ~Earlier(t, t)
           /\ u # t => Earlier(u, t) \/ Earlier(t, u)
           /\ \A x \in Tasks : Earlier(u, t) /\ Earlier(t, x) => Earlier(u, x)
<1>1. Cardinality(Workers) \in Nat
  BY FanoutAssumption, FS_CardinalityType
<1>2. \A x \in Tasks : x[2] \in Nat /\ x[1] \in Workers /\ KeyOrder[x[1]] \in Nat /\ x = <<x[1], x[2]>>
  BY <1>1, KeysOrdered, FanoutAssumption DEF Tasks
<1>3. ~Earlier(t, t)
  BY <1>2 DEF Earlier
<1>4. u # t => Earlier(u, t) \/ Earlier(t, u)
  <2>1. u # t => u[1] # t[1] \/ u[2] # t[2]
    BY <1>2
  <2>2. u[1] # t[1] => KeyOrder[u[1]] # KeyOrder[t[1]]
    BY <1>2, KeysOrdered
  <2> QED
    BY <1>2, <2>1, <2>2 DEF Earlier
<1>5. \A x \in Tasks : Earlier(u, t) /\ Earlier(t, x) => Earlier(u, x)
  BY <1>2 DEF Earlier
<1> QED
  BY <1>3, <1>4, <1>5

\* Any set of tasks can be counted.
LEMMA TasksFinite ==
    ASSUME NEW T \in SUBSET Tasks
    PROVE  IsFiniteSet(T) /\ Cardinality(T) \in Nat
<1>1. IsFiniteSet(Tasks)
  <2>1. IsFiniteSet(1 .. Width) /\ IsFiniteSet(Workers)
    BY FanoutAssumption, FS_Interval
  <2> QED
    BY <2>1, FS_Product DEF Tasks
<1> QED
  BY <1>1, FS_Subset, FS_CardinalityType

\* A bounded, non-empty set of numbers has a largest one.
LEMMA Largest ==
    ASSUME NEW n \in Nat, NEW S \in SUBSET (0 .. n), S # {}
    PROVE  \E m \in S : \A k \in S : k <= m
<1> DEFINE P == {n - k : k \in S}
           Less == {p \in Nat \X Nat : p[1] < p[2]}
<1>1. P \subseteq Nat /\ P # {}
  <2>1. \A k \in S : n - k \in Nat
    OBVIOUS
  <2> QED
    BY <2>1
<1>2. IsWellFoundedOn(Less, Nat)
  BY NatLessThanWellFounded, Zenon DEF OpToRel
<1> HIDE DEF P, Less
<1>3. PICK x \in P : \A y \in P : <<y, x>> \notin Less
  BY <1>1, <1>2, WFMin
<1>4. \A y \in P : x <= y
  <2> SUFFICES ASSUME NEW y \in P PROVE x <= y
    OBVIOUS
  <2>1. x \in Nat /\ y \in Nat
    BY <1>1
  <2>2. ~(y < x)
    BY <1>3, <2>1 DEF Less
  <2> QED
    BY <2>1, <2>2
<1>5. PICK m \in S : x = n - m
  BY DEF P
<1>6. \A k \in S : n - k \in P
  BY DEF P
<1> QED
  BY <1>4, <1>5, <1>6

Before(T, t) == {u \in T : Earlier(u, t)}

\* Of two tasks the later one has more before it.
LEMMA BeforeGrows ==
    ASSUME NEW T \in SUBSET Tasks, NEW u \in T, NEW t \in T, Earlier(u, t)
    PROVE  Cardinality(Before(T, u)) + 1 <= Cardinality(Before(T, t))
<1>1. Before(T, u) \cup {u} \subseteq Before(T, t) /\ u \notin Before(T, u)
  BY PlanOrder DEF Before
<1>2. IsFiniteSet(Before(T, u)) /\ IsFiniteSet(Before(T, t))
  BY TasksFinite DEF Before
<1>3. /\ IsFiniteSet(Before(T, u) \cup {u})
      /\ Cardinality(Before(T, u) \cup {u}) = Cardinality(Before(T, u)) + 1
  BY <1>1, <1>2, FS_AddElement
<1> QED
  BY <1>1, <1>2, <1>3, FS_Subset

\* The slice that planned[:slots] takes is an initial segment of the plan ...
LEMMA FirstNInitial ==
    ASSUME NEW T \in SUBSET Tasks, NEW n \in Nat
    PROVE  /\ FirstN(T, n) \subseteq T
           /\ \A u \in T, t \in FirstN(T, n) : Earlier(u, t) => u \in FirstN(T, n)
<1>1. FirstN(T, n) = {t \in T : Cardinality(Before(T, t)) < n}
  BY DEF FirstN, Before
<1>2. \A t \in T : Cardinality(Before(T, t)) \in Nat
  BY TasksFinite DEF Before
<1> QED
  BY <1>1, <1>2, BeforeGrows

\* ... of at most as many tasks as there are slots.
LEMMA FirstNSize ==
    ASSUME NEW T \in SUBSET Tasks, NEW n \in Nat
    PROVE  Cardinality(FirstN(T, n)) <= n
<1> DEFINE F == FirstN(T, n)
           S == {Cardinality(Before(T, t)) : t \in F}
<1>1. F = {t \in T : Cardinality(Before(T, t)) < n} /\ F \subseteq Tasks
  BY DEF FirstN, Before
<1>2. \A t \in T : Cardinality(Before(T, t)) \in Nat /\ IsFiniteSet(Before(T, t))
  BY TasksFinite DEF Before
<1>3. CASE F = {}
  BY <1>3, FS_EmptySet
<1>4. CASE F # {}
  <2>1. S \in SUBSET (0 .. n) /\ S # {}
    BY <1>1, <1>2, <1>4
  <2> HIDE DEF S
  <2>2. PICK m \in S : \A k \in S : k <= m
    BY <2>1, Largest
  <2> USE DEF S
  <2>3. PICK last \in F : m = Cardinality(Before(T, last))
    BY <2>2
  <2> HIDE DEF F, S
  <2>4. \A t \in F : t = last \/ Earlier(t, last)
    <3> SUFFICES ASSUME NEW t \in F, t # last, ~Earlier(t, last) PROVE FALSE
      OBVIOUS
    <3>1. t \in T /\ last \in T
      BY <1>1
    <3>2. Earlier(last, t)
      BY <3>1, PlanOrder
    <3>3. Cardinality(Before(T, last)) + 1 <= Cardinality(Before(T, t))
      BY <3>1, <3>2, BeforeGrows
    <3>4. Cardinality(Before(T, t)) \in S
      BY DEF S
    <3> QED
      BY <1>2, <2>2, <2>3, <3>1, <3>3, <3>4
  <2>5. F \subseteq Before(T, last) \cup {last}
    BY <1>1, <2>4 DEF Before
  <2>6. /\ IsFiniteSet(Before(T, last) \cup {last})
        /\ Cardinality(Before(T, last) \cup {last}) <= Cardinality(Before(T, last)) + 1
    <3>1. IsFiniteSet(Before(T, last)) /\ Cardinality(Before(T, last)) \in Nat
      BY <1>1, <1>2
    <3> DEFINE B == Before(T, last)
    <3> HIDE DEF B
    <3>2. /\ IsFiniteSet(B \cup {last})
          /\ Cardinality(B \cup {last}) = Cardinality(B) \/ Cardinality(B \cup {last}) = Cardinality(B) + 1
      BY <3>1, FS_AddElement DEF B
    <3> QED
      BY <3>1, <3>2 DEF B
  <2>7. Cardinality(F) <= Cardinality(Before(T, last) \cup {last})
    BY <2>5, <2>6, FS_Subset
  <2>8. Cardinality(Before(T, last)) < n /\ Cardinality(Before(T, last)) \in Nat
    BY <1>1, <1>2
  <2>9. Cardinality(F) \in Nat /\ Cardinality(Before(T, last) \cup {last}) \in Nat
    BY <1>1, <2>6, TasksFinite, FS_CardinalityType
  <2>10. Cardinality(F) <= n
    BY <2>6, <2>7, <2>8, <2>9
  <2> QED
    BY <2>10 DEF F
<1> QED
  BY <1>3, <1>4

(***************************************************************************)
(* Room.  A run that re-enters counts the rows it finds dispatched, and    *)
(* not the sub-goals that run: a sub-goal whose dispatch was not written   *)
(* has a planned row.  The bound holds all the same, because sub-goals are *)
(* submitted in the order of the plan: whoever has a sub-goal, or is about *)
(* to get one, and everything planned before it, is what max_parallel left *)
(* room for.                                                               *)
(***************************************************************************)
InLedger(s) == With(ledger, s)
Marked(t) == cstatus[<<t, 1>>] # "none" \/ \E w \in Workers : t \in todo[w]
Frontier ==
    {u \in InLedger("planned") :
        \E t \in InLedger("planned") : Marked(t) /\ (t = u \/ Earlier(u, t))}

Room == Cardinality(Frontier \cup InLedger("dispatched")) <= MaxParallel
TodoPlanned == \A w \in Workers : todo[w] \subseteq InLedger("planned")

\* A run that reconciles knows which rows are planned, and the dispatched ones; one that
\* decomposes the goal found no row.
PlanKnown ==
    \A w \in Workers, t \in Tasks :
        /\ pc[w] = "reconciling" =>
              (entries[w][t].status = "planned" <=> ledger[t].status = "planned")
        /\ pc[w] = "reconciling" /\ ledger[t].status = "dispatched" =>
              entries[w][t].status = "dispatched"
        /\ pc[w] = "planning" => ledger[t].status = "absent"

PlanInv == Room /\ TodoPlanned /\ PlanKnown

\* What takes nothing up leaves the room there is.
LEMMA RoomShrinks ==
    ASSUME Room,
           Frontier' \cup InLedger("dispatched")' \subseteq Frontier \cup InLedger("dispatched")
    PROVE  Room'
<1>1. /\ Frontier \cup InLedger("dispatched") \in SUBSET Tasks
      /\ Frontier' \cup InLedger("dispatched")' \in SUBSET Tasks
  BY DEF Frontier, InLedger, With
<1>2. /\ Cardinality(Frontier' \cup InLedger("dispatched")')
            <= Cardinality(Frontier \cup InLedger("dispatched"))
  BY <1>1, TasksFinite, FS_Subset
<1>3. /\ Cardinality(Frontier \cup InLedger("dispatched")) \in Nat
      /\ Cardinality(Frontier' \cup InLedger("dispatched")') \in Nat
  BY <1>1, TasksFinite
<1>4. Cardinality(Frontier' \cup InLedger("dispatched")') <= MaxParallel
  BY <1>2, <1>3, FanoutAssumption DEF Room
<1> QED
  BY <1>4 DEF Room

\* Room is kept when nothing becomes planned or marked, and only the frontier dispatched.
LEMMA RoomKept ==
    ASSUME Room, \A t \in Tasks :
              /\ ledger'[t].status = "planned" => ledger[t].status = "planned"
              /\ ledger'[t].status = "dispatched" =>
                    ledger[t].status = "dispatched" \/ t \in Frontier
              /\ ledger'[t].status = "planned" /\ Marked(t)' => Marked(t)
    PROVE  Room'
<1>1. Frontier' \cup InLedger("dispatched")' \subseteq Frontier \cup InLedger("dispatched")
  BY DEF Frontier, InLedger, With
<1> QED
  BY <1>1, RoomShrinks

\* Steps that leave the ledger alone and give a sub-goal only to a marked task.
LEMMA QuietPlan ==
    ASSUME FanoutInv, PlanInv, ledger' = ledger,
           \A w \in Workers : todo'[w] \subseteq todo[w],
           \A t \in Tasks : cstatus'[<<t, 1>>] # "none" => Marked(t),
           \A w \in Workers : pc'[w] \in {"reconciling", "planning"} =>
                                 pc'[w] = pc[w] /\ entries'[w] = entries[w]
    PROVE  PlanInv'
<1>1. Room'
  <2>1. \A t \in Tasks : Marked(t)' => Marked(t)
    BY DEF Marked
  <2> QED
    BY <2>1, RoomKept DEF PlanInv
<1>2. TodoPlanned'
  BY DEF PlanInv, TodoPlanned, InLedger, With
<1>3. PlanKnown'
  BY DEF PlanInv, PlanKnown
<1> QED
  BY <1>1, <1>2, <1>3 DEF PlanInv

\* A run at work is the only one that has something to dispatch, to plan or to reconcile.
LEMMA OthersIdle ==
    ASSUME FanoutInv, NEW w \in Workers, pc[w] \in Holding, NEW v \in Workers, v # w
    PROVE  pc[v] \notin Holding /\ todo[v] = {}
  BY OnlyRun DEF FanoutInv, DispatchInOrder, Dispatching, Holding

\* A write to the row of a task that run w has just taken from what it dispatches.
LEMMA RowPlan ==
    ASSUME FanoutInv, PlanInv, NEW w \in Workers, pc[w] \in Holding, NEW t \in todo[w],
           NEW r \in Entry, ledger' = [ledger EXCEPT ![t] = r], r.status \in {"dispatched", "failed"},
           todo' = [todo EXCEPT ![w] = @ \ {t}],
           \A u \in Tasks : cstatus'[<<u, 1>>] # "none" => Marked(u),
           \A v \in Workers : v # w => pc'[v] = pc[v],
           pc'[w] \notin {"reconciling", "planning"}
    PROVE  PlanInv'
<1> USE DEF FanoutInv
<1>1. t \in Tasks /\ ledger[t].status = "planned" /\ Marked(t)
  BY DEF TypeOK, PlanInv, TodoPlanned, InLedger, With, Marked
<1>2. t \in Frontier
  BY <1>1 DEF Frontier, InLedger, With
<1>3. \A u \in Tasks : IF u = t THEN ledger'[u].status \in {"dispatched", "failed"}
                       ELSE ledger'[u] = ledger[u]
  BY DEF TypeOK
<1>4. \A v \in Workers : todo'[v] \subseteq todo[v] \ {t}
  BY OthersIdle DEF TypeOK
<1>5. \A u \in Tasks : Marked(u)' => Marked(u)
  BY <1>4 DEF Marked
<1>6. Room'
  BY <1>2, <1>3, <1>5, RoomKept DEF PlanInv
<1>7. TodoPlanned'
  BY <1>3, <1>4 DEF PlanInv, TodoPlanned, InLedger, With
<1>8. PlanKnown'
  <2>1. \A v \in Workers : pc'[v] \notin {"reconciling", "planning"}
    BY OthersIdle DEF Holding
  <2> QED
    BY <2>1 DEF PlanKnown
<1> QED
  BY <1>6, <1>7, <1>8 DEF PlanInv

\* A submission stays within the slice it was taken from; its mark only moves it.
LEMMA DispatchPlan ==
    ASSUME FanoutInv, PlanInv, NEW w \in Workers,
           FindChild(w) \/ SubmitChild(w) \/ DispatchFails(w) \/ MarkDispatched(w)
    PROVE  PlanInv'
<1> USE DEF FanoutInv
<1> DEFINE t == First(todo[w])
<1>1. pc[w] \in Dispatching /\ todo[w] # {} /\ pc[w] \in Holding
  BY DEF FindChild, SubmitChild, DispatchFails, MarkDispatched, DispatchInOrder, Dispatching, Holding
<1>2. t \in todo[w] /\ t \in Tasks /\ Marked(t) /\ ledger[t] \in Entry /\ entries[w][t] \in Entry
  BY <1>1, FirstIsIn DEF TypeOK, Marked
<1>3. \A u \in Tasks : cstatus[<<u, 1>>] # "none" => Marked(u)
  BY DEF Marked
<1>4. ASSUME NEW p, NewChild(t, p) PROVE \A u \in Tasks : cstatus'[<<u, 1>>] # "none" => Marked(u)
  <2>1. \A u \in Tasks : u # t => cstatus'[<<u, 1>>] = cstatus[<<u, 1>>]
    BY <1>2, <1>4 DEF NewChild, TypeOK
  <2> QED
    BY <1>2, <1>3, <2>1
<1>5. /\ \A u \in Tasks : cstatus'[<<u, 1>>] # "none" => Marked(u)
      /\ \A v \in Workers : v # w => pc'[v] = pc[v] /\ entries'[v] = entries[v]
      /\ pc'[w] \notin {"reconciling", "planning"}
  <2>1. CASE FindChild(w)
    BY <1>3, <2>1 DEF FindChild, Goto, TypeOK, kids
  <2>2. CASE SubmitChild(w)
    BY <1>4, <2>2 DEF SubmitChild, Goto, TypeOK
  <2>3. CASE DispatchFails(w)
    BY <1>3, <1>4, <2>3 DEF DispatchFails, Goto, TypeOK, kids
  <2>4. CASE MarkDispatched(w)
    BY <1>3, <2>4 DEF MarkDispatched, Goto, TypeOK, kids
  <2> QED
    BY <2>1, <2>2, <2>3, <2>4
<1>6. \/ ledger' = ledger /\ \A v \in Workers : todo'[v] \subseteq todo[v]
      \/ /\ \E r \in Entry : ledger' = [ledger EXCEPT ![t] = r] /\ r.status \in {"dispatched", "failed"}
         /\ todo' = [todo EXCEPT ![w] = @ \ {t}]
  <2>1. CASE FindChild(w) \/ SubmitChild(w)
    BY <2>1 DEF FindChild, SubmitChild
  <2>2. CASE DispatchFails(w)
    <3> DEFINE r == [ledger[t] EXCEPT !.status = "failed"]
    <3>1. r \in Entry /\ r.status = "failed"
      BY <1>2, EntryWith
    <3>2. ledger' = ledger \/ ledger' = [ledger EXCEPT ![t] = r]
      BY <2>2 DEF DispatchFails
    <3>3. todo' = [todo EXCEPT ![w] = @ \ {t}]
      BY <2>2 DEF DispatchFails
    <3> HIDE DEF r, t
    <3> QED
      BY <3>1, <3>2, <3>3 DEF TypeOK
  <2>3. CASE MarkDispatched(w)
    <3> DEFINE e == [entries[w][t] EXCEPT !.status = "dispatched"]
               r == [e EXCEPT !.deadline = "ahead"]
    <3>1. e \in Entry /\ e.status = "dispatched"
      BY <1>2, EntryWith
    <3>2. r \in Entry /\ r.status = "dispatched"
      BY <3>1, EntryWith
    <3>3. ledger' = ledger \/ ledger' = [ledger EXCEPT ![t] = r]
      BY <2>3 DEF MarkDispatched
    <3>4. todo' = [todo EXCEPT ![w] = @ \ {t}]
      BY <2>3 DEF MarkDispatched
    <3> HIDE DEF r, e, t
    <3> QED
      BY <3>2, <3>3, <3>4 DEF TypeOK
  <2> QED
    BY <2>1, <2>2, <2>3
<1> HIDE DEF t
<1>7. \A v \in Workers : pc'[v] \in {"reconciling", "planning"} =>
                            pc'[v] = pc[v] /\ entries'[v] = entries[v]
  BY <1>5
<1> QED
  BY <1>1, <1>2, <1>5, <1>6, <1>7, QuietPlan, RowPlan

\* FanoutLedger.load and plan: a run plans only where there is nothing.
LEMMA LoadPlan ==
    ASSUME FanoutInv, PlanInv, NEW w \in Workers, LoadLedger(w) \/ PlanTasks(w)
    PROVE  PlanInv'
<1> USE DEF FanoutInv
<1>1. /\ pc[w] \in Holding /\ ledger \in [Tasks -> Entry] /\ UNCHANGED <<todo, cstatus>>
      /\ \A v \in Workers : v # w => pc'[v] = pc[v]
  BY DEF LoadLedger, PlanTasks, TypeOK, Goto, Holding, kids
<1>2. \A v \in Workers : v # w => pc'[v] \notin {"reconciling", "planning"}
  BY <1>1, OthersIdle DEF Holding
<1>3. todo' = todo /\ \A v \in Workers : todo[v] = {}
  <2>1. todo[w] = {}
    BY DEF LoadLedger, PlanTasks, DispatchInOrder, Dispatching
  <2> QED
    BY <1>1, <2>1, OthersIdle
<1>4. ASSUME ledger' \in [Tasks -> Entry], entries' = [entries EXCEPT ![w] = Loaded(ledger')],
             pc'[w] = "planning" => \A t \in Tasks : ledger'[t].status = "absent"
      PROVE  PlanKnown'
  <2>1. \A t \in Tasks : entries'[w][t].status = ledger'[t].status
    BY <1>4, LoadedRows DEF TypeOK
  <2> QED
    BY <1>2, <1>4, <2>1 DEF PlanKnown
<1>5. CASE LoadLedger(w)
  <2>1. /\ ledger' = ledger /\ entries' = [entries EXCEPT ![w] = Loaded(ledger')]
        /\ pc'[w] = "planning" => ledger = NoEntries
    BY <1>5 DEF LoadLedger, Goto, TypeOK
  <2>2. PlanKnown'
    BY <1>1, <1>4, <2>1 DEF NoEntries, Absent
  <2>3. Room' /\ TodoPlanned'
    <3>1. \A t \in Tasks : Marked(t)' => Marked(t)
      BY <1>1 DEF Marked
    <3> QED
      BY <1>3, <2>1, <3>1, RoomKept DEF PlanInv, TodoPlanned
  <2> QED
    BY <2>2, <2>3 DEF PlanInv
<1>6. CASE PlanTasks(w)
  <2>1. \A t \in Tasks : ledger[t].status = "absent" /\ cstatus[<<t, 1>>] = "none"
    <3>1. \A t \in Tasks : ledger[t].status = "absent"
      BY <1>6 DEF PlanTasks, PlanInv, PlanKnown
    <3>2. 1 \in 1 .. MaxCopies
      BY FanoutAssumption
    <3> QED
      BY <3>1, <3>2 DEF RowsAreTrue
  <2>2. /\ ledger' = [t \in Tasks |-> IF t[1] = w /\ ledger[t] = Absent THEN Planned ELSE ledger[t]]
        /\ entries' = [entries EXCEPT ![w] = Loaded(ledger')] /\ pc'[w] = "reconciling"
    BY <1>6 DEF PlanTasks, Goto, TypeOK
  <2>3. Planned \in Entry /\ Planned.status = "planned"
    BY FanoutAssumption DEF Planned, Absent, Entry, NoChild
  <2>4. ledger' \in [Tasks -> Entry] /\ \A t \in Tasks : ledger'[t].status \in {"absent", "planned"}
    <3> HIDE DEF Planned
    <3>1. \A t \in Tasks : ledger'[t] \in {Planned, ledger[t]}
      BY <2>2
    <3>2. \A t \in Tasks : ledger'[t] \in Entry /\ ledger'[t].status \in {"absent", "planned"}
      BY <1>1, <2>1, <2>3, <3>1
    <3> QED
      BY <2>2, <3>2
  <2>5. PlanKnown'
    BY <1>4, <2>2, <2>4
  <2>6. TodoPlanned'
    BY <1>3 DEF TodoPlanned
  <2>7. Frontier' = {} /\ InLedger("dispatched")' = {}
    BY <1>1, <1>3, <2>1, <2>4 DEF Frontier, Marked, InLedger, With
  <2>8. Room'
    BY <2>7, FS_EmptySet, FanoutAssumption DEF Room
  <2> QED
    BY <2>5, <2>6, <2>8 DEF PlanInv
<1> QED
  BY <1>5, <1>6

\* reconcile_children and the choice of what is next: NextUp fills the room that the
\* dispatched rows leave, or stops before a task that has had its sub-goal all along.
LEMMA ReconcilePlan ==
    ASSUME FanoutInv, PlanInv, NEW w \in Workers, Reconcile(w)
    PROVE  PlanInv'
<1> USE DEF FanoutInv
<1>1. PICK good \in SUBSET Answerable(w) :
        /\ ledger' = Fold(ledger, Over(w), good)
        /\ entries' = [entries EXCEPT ![w] = Fold(entries[w], Over(w), good)]
        /\ todo' = [todo EXCEPT ![w] = NextUp(Fold(entries[w], Over(w), good))]
  BY DEF Reconcile
<1> DEFINE E == Fold(entries[w], Over(w), good)
           P == With(E, "planned")
           D == With(E, "dispatched")
           n == IF Cardinality(D) >= MaxParallel THEN 0 ELSE MaxParallel - Cardinality(D)
           F == FirstN(P, n)
<1>2. /\ pc[w] = "reconciling" /\ pc' = [pc EXCEPT ![w] = "dispatching"] /\ cstatus' = cstatus
  BY DEF Reconcile, Goto, kids
<1>3. ledger \in [Tasks -> Entry] /\ entries[w] \in [Tasks -> Entry] /\ good \subseteq Over(w)
  BY DEF TypeOK, Answerable
<1>4. \A t \in Tasks : /\ t \notin Over(w) => ledger'[t] = ledger[t] /\ E[t] = entries[w][t]
                       /\ t \in Over(w) => /\ ledger'[t].status \in {"complete", "failed"}
                                           /\ E[t].status = ledger'[t].status
  BY <1>1, <1>3, FoldedRows
<1>5. \A t \in Tasks :
         /\ entries[w][t].status = "planned" <=> ledger[t].status = "planned"
         /\ ledger[t].status = "dispatched" => entries[w][t].status = "dispatched"
  BY <1>2 DEF PlanInv, PlanKnown
<1>6. /\ InLedger("planned")' = P /\ P \subseteq InLedger("planned") /\ P \in SUBSET Tasks
      /\ InLedger("dispatched")' \subseteq D /\ D \in SUBSET Tasks
      /\ InLedger("dispatched")' \subseteq InLedger("dispatched")
  <2> HIDE DEF E
  <2> QED
    BY <1>4, <1>5 DEF InLedger, With
<1>7. Cardinality(D) \in Nat /\ n \in Nat /\ (n # 0 => n + Cardinality(D) = MaxParallel)
  BY <1>6, TasksFinite, FanoutAssumption
<1>8. NextUp(E) = F
  BY DEF NextUp
<1> HIDE DEF n, E, P, D
<1>9. F \subseteq P /\ \A u \in P, t \in F : Earlier(u, t) => u \in F
  BY <1>6, <1>7, FirstNInitial
<1>10. Cardinality(F) <= n
  BY <1>6, <1>7, FirstNSize
<1> HIDE DEF F
<1>11. todo'[w] = F /\ \A v \in Workers : v # w => todo'[v] = {} /\ pc'[v] \notin {"reconciling", "planning"}
  BY <1>1, <1>2, <1>8, OthersIdle DEF TypeOK, E, Holding
<1>12. \A t \in Tasks : Marked(t)' <=> cstatus[<<t, 1>>] # "none" \/ t \in F
  BY <1>2, <1>11 DEF Marked
<1>13. Room'
  <2>1. CASE \E t \in P : cstatus[<<t, 1>>] # "none" /\ t \notin F
    <3>1. PICK t \in P : cstatus[<<t, 1>>] # "none" /\ t \notin F
      BY <2>1
    <3>2. \A u \in F : Earlier(u, t)
      BY <1>6, <1>9, <3>1, PlanOrder
    <3>3. ASSUME NEW u \in Frontier' PROVE u \in Frontier
      <4>1. PICK x \in P : Marked(x)' /\ u \in P /\ (x = u \/ Earlier(u, x))
        BY <1>6, <3>3 DEF Frontier
      <4>2. CASE cstatus[<<x, 1>>] # "none"
        BY <1>6, <4>1, <4>2 DEF Frontier, Marked
      <4>3. CASE x \in F
        <5>1. Earlier(u, t)
          BY <1>6, <3>1, <3>2, <4>1, <4>3, PlanOrder
        <5> QED
          BY <1>6, <3>1, <4>1, <5>1 DEF Frontier, Marked
      <4> QED
        BY <1>6, <1>12, <4>1, <4>2, <4>3
    <3>4. Frontier' \cup InLedger("dispatched")' \subseteq Frontier \cup InLedger("dispatched")
      BY <1>6, <3>3
    <3> QED
      BY <3>4, RoomShrinks DEF PlanInv
  <2>2. CASE \A t \in P : cstatus[<<t, 1>>] # "none" => t \in F
    <3>1. Frontier' \subseteq F
      <4> SUFFICES ASSUME NEW u \in Frontier' PROVE u \in F
        OBVIOUS
      <4>1. PICK x \in P : Marked(x)' /\ u \in P /\ (x = u \/ Earlier(u, x))
        BY <1>6 DEF Frontier
      <4>2. x \in F
        BY <1>6, <1>12, <2>2, <4>1
      <4> QED
        BY <1>9, <4>1, <4>2
    <3>2. CASE n = 0
      <4>1. F = {}
        <5>1. IsFiniteSet(F) /\ Cardinality(F) \in Nat
          BY <1>6, <1>9, TasksFinite
        <5>2. Cardinality(F) = 0
          BY <1>10, <3>2, <5>1
        <5> QED
          BY <5>1, <5>2, FS_EmptySet
      <4> QED
        BY <1>6, <3>1, <4>1, RoomShrinks DEF PlanInv
    <3>3. CASE n # 0
      <4>1. Frontier' \cup InLedger("dispatched")' \subseteq F \cup D
        BY <1>6, <3>1
      <4>2. IsFiniteSet(F) /\ IsFiniteSet(D) /\ Cardinality(F) \in Nat
        BY <1>6, <1>9, TasksFinite
      <4>3. /\ IsFiniteSet(F \cup D)
            /\ Cardinality(F \cup D) = Cardinality(F) + Cardinality(D) - Cardinality(F \cap D)
        BY <4>2, FS_Union
      <4>4. Cardinality(F \cap D) \in Nat
        BY <1>6, TasksFinite
      <4>5. Cardinality(Frontier' \cup InLedger("dispatched")') <= Cardinality(F \cup D)
        BY <4>1, <4>3, FS_Subset
      <4>6. Cardinality(Frontier' \cup InLedger("dispatched")') \in Nat
        BY <4>1, <4>3, FS_Subset, FS_CardinalityType
      <4>7. Cardinality(F \cup D) <= MaxParallel
        BY <1>7, <1>10, <3>3, <4>2, <4>3, <4>4, FanoutAssumption
      <4>8. Cardinality(F \cup D) \in Nat
        BY <4>3, FS_CardinalityType
      <4>9. Cardinality(Frontier' \cup InLedger("dispatched")') <= MaxParallel
        BY <4>5, <4>6, <4>7, <4>8, FanoutAssumption
      <4> QED
        BY <4>9 DEF Room
    <3> QED
      BY <3>2, <3>3
  <2> QED
    BY <2>1, <2>2
<1>14. TodoPlanned'
  BY <1>6, <1>9, <1>11 DEF TodoPlanned
<1>15. PlanKnown'
  BY <1>2, <1>11 DEF PlanKnown, TypeOK
<1> QED
  BY <1>13, <1>14, <1>15 DEF PlanInv

\* The sweeper takes dispatched rows off, and nothing else.
LEMMA SweepPlan ==
    ASSUME FanoutInv, PlanInv, NEW t \in Tasks, DeadlinePasses(t) \/ SweepOverdue(t)
    PROVE  PlanInv'
<1> USE DEF FanoutInv
<1>1. UNCHANGED <<cstatus, entries, todo, pc>>
  BY DEF DeadlinePasses, SweepOverdue, kids, runs
<1>2. \A u \in Tasks : \/ ledger'[u].status = ledger[u].status
                       \/ ledger[u].status = "dispatched" /\ ledger'[u].status = "failed"
  BY SweptRows
<1>3. Room'
  <2>1. \A u \in Tasks : Marked(u)' => Marked(u)
    BY <1>1 DEF Marked
  <2> QED
    BY <1>2, <2>1, RoomKept DEF PlanInv
<1>4. TodoPlanned' /\ PlanKnown'
  BY <1>1, <1>2 DEF PlanInv, TodoPlanned, PlanKnown, InLedger, With
<1> QED
  BY <1>3, <1>4 DEF PlanInv

\* Every step but a stall keeps the room.
LEMMA PlanStep == ~Stalls /\ FanoutInv /\ PlanInv /\ [Next]_vars => PlanInv'
<1> SUFFICES ASSUME ~Stalls, FanoutInv, PlanInv, [Next]_vars PROVE PlanInv'
  OBVIOUS
<1> USE DEF FanoutInv
<1>0. ASSUME ledger' = ledger, \A w \in Workers : todo'[w] \subseteq todo[w],
             \A t \in Tasks : cstatus[<<t, 1>>] = "none" => cstatus'[<<t, 1>>] = "none",
             \A w \in Workers : pc'[w] \in {"reconciling", "planning"} =>
                                   pc'[w] = pc[w] /\ entries'[w] = entries[w]
      PROVE  PlanInv'
  BY <1>0, QuietPlan DEF Marked
<1>1. CASE UNCHANGED vars
  BY <1>0, <1>1 DEF vars, kids, runs
<1>2. ASSUME NEW w \in Workers, Take(w) \/ RunStep(w) \/ Crash(w) \/ Redeliver(w)
      PROVE  PlanInv'
  <2>1. CASE Take(w) \/ GoAlone(w) \/ ParkParent(w) \/ WakeSelf(w) \/ Redeliver(w)
    BY <1>0, <2>1 DEF Take, GoAlone, ParkParent, WakeSelf, Redeliver, Goto, TypeOK, kids
  <2>2. CASE FinishParent(w) \/ StopRun(w) \/ Crash(w) \/ Advance(w)
    <3>1. /\ ledger' = ledger /\ cstatus' = cstatus
          /\ \/ pc' = [pc EXCEPT ![w] = "synthesizing"] /\ UNCHANGED <<entries, todo>>
             \/ \E to \in {"idle", "dead", "parking"} : EndRun(w, to)
      BY <2>2 DEF FinishParent, StopRun, Crash, Advance, Goto, kids
    <3> QED
      BY <1>0, <3>1 DEF EndRun, Goto, TypeOK
  <2> QED
    BY <1>2, <2>1, <2>2, LoadPlan, ReconcilePlan, DispatchPlan DEF RunStep
<1>3. ASSUME NEW c \in Children, \/ ChildStep(c) \/ SweepCancel(c)
                                 \/ CancelChild(c) \/ CancelSubGoal(c)
      PROVE  PlanInv'
  <2>1. UNCHANGED <<ledger, todo, pc, entries>>
    BY <1>3 DEF ChildStep, ChildWaits, ChildEnds, ChildWakesParent, ChildLost, SweepCancel,
          CancelChild, CancelSubGoal, runs
  <2>2. \/ cstatus' = cstatus
        \/ \E s : cstatus' = [cstatus EXCEPT ![c] = s] /\ cstatus[c] # "none"
        \/ cstatus' = [cstatus EXCEPT ![c] = cstatus[c]]
    BY <1>3 DEF ChildStep, ChildWaits, ChildEnds, ChildWakesParent, ChildLost, SweepCancel,
          CancelChild, CancelSubGoal, Written, allowed_predecessors, is_valid_transition, Status,
          ACTIVE_STATUSES, TERMINAL_STATUSES
  <2>3. \A t \in Tasks : cstatus[<<t, 1>>] = "none" => cstatus'[<<t, 1>>] = "none"
    <3>1. \A t \in Tasks : <<t, 1>> \in Children
      BY FanoutAssumption DEF Children
    <3> QED
      BY <2>2, <3>1 DEF TypeOK
  <2> QED
    BY <1>0, <2>1, <2>3
<1>4. ASSUME NEW t \in Tasks, DeadlinePasses(t) \/ SweepOverdue(t)
      PROVE  PlanInv'
  BY <1>4, SweepPlan
<1>5. CASE \/ Skip \/ Duplicate \/ Reap \/ DetectStuck \/ EnqueueParent \/ EnqueueFails \/ SweepWakes
           \/ CancelParent \/ ListChildren \/ AnswerCancel
  <2>1. UNCHANGED <<ledger, todo, pc, entries, cstatus>>
    BY <1>5 DEF Skip, Duplicate, Reap, DetectStuck, EnqueueParent, EnqueueFails, SweepWakes,
          CancelParent, ListChildren, AnswerCancel, kids, runs
  <2> QED
    BY <1>0, <2>1
<1> QED
  BY <1>1, <1>2, <1>3, <1>4, <1>5 DEF Next, CancelStep

\* A parent without rows has all the room.
LEMMA InitPlan == Init => PlanInv
<1> SUFFICES ASSUME Init PROVE PlanInv
  OBVIOUS
<1>1. TodoPlanned /\ PlanKnown
  BY DEF Init, TodoPlanned, PlanKnown
<1>2. Frontier = {} /\ InLedger("dispatched") = {}
  BY DEF Init, Frontier, InLedger, With, NoEntries, Absent
<1> QED
  BY <1>1, <1>2, FS_EmptySet, FanoutAssumption DEF PlanInv, Room

\* Whatever crashes, is delivered twice or is not written, the sub-goals a parent counts on
\* are never more than max_parallel: a run may take a sub-goal that runs for one that is
\* still to be submitted, and then finds it instead of submitting another.
THEOREM ParallelismBounded == ~Stalls => (Spec => []ParallelBound)
<1> SUFFICES ASSUME ~Stalls PROVE Spec => []ParallelBound
  OBVIOUS
<1>1. Init => FanoutInv /\ PlanInv
  BY InitInv, InitPlan
<1>2. FanoutInv /\ PlanInv /\ [Next]_vars => (FanoutInv /\ PlanInv)'
  BY InvStep, PlanStep
<1>3. FanoutInv /\ PlanInv => ParallelBound
  <2> SUFFICES ASSUME FanoutInv, PlanInv PROVE ParallelBound
    OBVIOUS
  <2> DEFINE A == {c \in ActiveChildren : ledger[c[1]].status # "failed"}
             R == Frontier \cup InLedger("dispatched")
  <2>1. \A c \in A : c[1] \in R /\ c = <<c[1], 1>>
    <3> SUFFICES ASSUME NEW c \in A PROVE c[1] \in R /\ c = <<c[1], 1>>
      OBVIOUS
    <3>1. c \in Children /\ cstatus[c] \notin {"none", "complete"} /\ ledger[c[1]].status # "failed"
      BY DEF ActiveChildren, ACTIVE_STATUSES, TERMINAL_STATUSES, Status
    <3>2. c[1] \in Tasks /\ c[2] \in 1 .. MaxCopies /\ c = <<c[1], c[2]>>
      BY <3>1 DEF Children
    <3>3. c[2] = 1
      BY <3>1, <3>2, FanoutAssumption DEF FanoutInv, OneChildPerTask
    <3>4. ledger[c[1]].status \in {"planned", "dispatched"}
      BY <3>1, <3>2, <3>3 DEF FanoutInv, RowsAreTrue, TypeOK, Entry
    <3>5. Marked(c[1])
      BY <3>1, <3>2, <3>3 DEF Marked
    <3> QED
      BY <3>2, <3>3, <3>4, <3>5 DEF Frontier, InLedger, With
  <2>2. R \in SUBSET Tasks
    BY DEF Frontier, InLedger, With
  <2>3. IsFiniteSet(R) /\ Cardinality(R) \in Nat
    BY <2>2, TasksFinite
  <2> HIDE DEF A, R
  <2>4. [c \in A |-> c[1]] \in Injection(A, R)
    <3>1. \A c, d \in A : c[1] = d[1] => c = d
      BY <2>1
    <3> QED
      BY <2>1, <3>1 DEF Injection, IsInjective
  <2>5. IsFiniteSet(A) /\ Cardinality(A) <= Cardinality(R)
    BY <2>3, <2>4, FS_Injection
  <2>6. Cardinality(A) \in Nat /\ Cardinality(R) <= MaxParallel
    BY <2>5, FS_CardinalityType DEF PlanInv, Room, R
  <2>7. Cardinality(A) <= MaxParallel
    BY <2>3, <2>5, <2>6, FanoutAssumption
  <2> QED
    BY <2>7 DEF ParallelBound, A
<1>4. Spec => [](FanoutInv /\ PlanInv)
  BY <1>1, <1>2, PTL DEF Spec
<1> QED
  BY <1>3, <1>4, PTL
=============================================================================
