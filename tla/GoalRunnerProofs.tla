-------------------------- MODULE GoalRunnerProofs --------------------------
(***************************************************************************)
(* TLAPS proofs about GoalRunner, for every number of deliveries, reapers, *)
(* operators, faults, retries and requeues:                                *)
(*   TypeCorrect                every reachable state is well-formed;      *)
(*   RunnerImplementsLifecycle  the row only takes GoalLifecycle's steps;  *)
(*   LockExcludes               goal_lock and runner_token exclude a       *)
(*                              second owner of the goal;                  *)
(*   ReapersExclude             a lost runner is handled by one reaper;    *)
(*   SlotOutlivesGoal           the slot is freed only after the end;      *)
(*   ConfirmedCancelHolds       a confirmed cancel closes every step gate. *)
(***************************************************************************)
EXTENDS GoalRunner, TLAPS

(***************************************************************************)
(* Types.                                                                  *)
(***************************************************************************)

\* A conditional status write leaves a status of the table.
LEMMA WrittenType ==
    ASSUME NEW old \in Status, NEW s \in Status
    PROVE  Written(old, s) \in Status
  BY DEF Written

\* Publishing a message keeps the broker and the runs well-formed ...
LEMMA PublishType ==
    ASSUME RunsOK, NEW n \in Nat, Publish(n), UNCHANGED threads
    PROVE  RunsOK'
<1>1. deliveries + 1 \in Runs
  BY ConstantsAssumption DEF RunsOK, Publish, NewMessage, Runs
<1> QED
  BY <1>1 DEF RunsOK, Publish, NewMessage, threads, PC

\* ... also when the publisher is a run that moves on in the same step.
LEMMA PublishFromType ==
    ASSUME RunsOK, NEW r \in Runs, NEW to \in PC, NEW n \in Nat,
           PublishFrom(r, to, n), UNCHANGED threads
    PROVE  RunsOK'
<1>1. deliveries + 1 \in Runs
  BY ConstantsAssumption DEF RunsOK, PublishFrom, NewMessage, Runs
<1> QED
  BY <1>1 DEF RunsOK, PublishFrom, NewMessage, threads, PC

\* Every step preserves TypeOK: one step per action, split over the parts of TypeOK
\* where the action chooses between outcomes.
LEMMA TypeStep == TypeOK /\ [Next]_vars => TypeOK'
<1> SUFFICES ASSUME TypeOK, [Next]_vars PROVE TypeOK'
  OBVIOUS
<1> USE ConstantsAssumption, WrittenType
        DEF TypeOK, Runs, NoRun, Status, PC, Live, Setup, Working, InGraph, InStep, Over,
            Beat, Beating, row, redis, broker, threads, reapers, operator, RowButStatus,
            Fault, NoFault, At, Goto, SetStatus, WorkerWrites, Answer, Request,
            LockWithout, TERMINAL_STATUSES, ACTIVE_STATUSES, PARKED_STATUSES,
            RUNNING_STATUSES, Requests
<1>1. ASSUME NEW r \in Runs, StartBlocked(r) PROVE TypeOK'
  <2>1. RowOK'
    BY <1>1 DEF RowOK, StartBlocked
  <2>2. RedisOK'
    BY <1>1 DEF RedisOK, StartBlocked
  <2>3. RunsOK'
    BY <1>1 DEF RunsOK, StartBlocked
  <2>4. RequestsOK'
    BY <1>1 DEF RequestsOK, StartBlocked
  <2> QED BY <2>1, <2>2, <2>3, <2>4 DEF TypeOK
<1>2. ASSUME NEW r \in Runs, StartRetry(r) PROVE TypeOK'
  <2>1. RowOK'
    BY <1>2 DEF RowOK, StartRetry, NewMessage, PublishFrom
  <2>2. RedisOK'
    BY <1>2 DEF RedisOK, StartRetry, NewMessage, PublishFrom
  <2>3. RunsOK'
    <3>1. /\ PublishFrom(r, "done", attempt[r] + 1) /\ UNCHANGED threads
          /\ attempt[r] + 1 \in Nat /\ "done" \in PC
      BY <1>2 DEF RunsOK, StartRetry
    <3> QED BY <3>1, PublishFromType
  <2>4. RequestsOK'
    BY <1>2 DEF RequestsOK, StartRetry, NewMessage, PublishFrom
  <2> QED BY <2>1, <2>2, <2>3, <2>4 DEF TypeOK
<1>3. ASSUME NEW r \in Runs, AcquireLock(r) PROVE TypeOK'
  <2>1. RowOK' /\ RequestsOK'
    BY <1>3 DEF RowOK, RequestsOK, AcquireLock
  <2>2. RedisOK'
    BY <1>3 DEF RedisOK, AcquireLock
  <2>3. RunsOK'
    BY <1>3 DEF RunsOK, AcquireLock
  <2> QED BY <2>1, <2>2, <2>3 DEF TypeOK
<1>4. ASSUME NEW r \in Runs, LockUnavailable(r) PROVE TypeOK'
  BY <1>4 DEF RowOK, RedisOK, RunsOK, RequestsOK, LockUnavailable
<1>5. ASSUME NEW r \in Runs, Claim(r) PROVE TypeOK'
  BY <1>5 DEF RowOK, RedisOK, RunsOK, RequestsOK, Claim, NotClaimable
<1>6. ASSUME NEW r \in Runs, ClaimError(r) PROVE TypeOK'
  <2>1. RowOK'
    BY <1>6 DEF RowOK, ClaimError, NewMessage, PublishFrom
  <2>2. RedisOK'
    BY <1>6 DEF RedisOK, ClaimError, NewMessage, PublishFrom
  <2>3. RunsOK'
    <3>1. attempt[r] + 1 \in Nat /\ "done" \in PC /\ UNCHANGED threads
      BY <1>6 DEF RunsOK, ClaimError
    <3>2. CASE PublishFrom(r, "done", attempt[r] + 1)
      BY <3>1, <3>2, PublishFromType
    <3>3. CASE Goto(r, "done") /\ UNCHANGED broker
      BY <3>1, <3>3 DEF RunsOK
    <3> QED BY <1>6, <3>2, <3>3 DEF ClaimError
  <2>4. RequestsOK'
    BY <1>6 DEF RequestsOK, ClaimError, NewMessage, PublishFrom
  <2> QED BY <2>1, <2>2, <2>3, <2>4 DEF TypeOK
<1>7. ASSUME NEW r \in Runs, MarkStarted(r) PROVE TypeOK'
  BY <1>7 DEF RowOK, RedisOK, RunsOK, RequestsOK, MarkStarted
<1>8. ASSUME NEW r \in Runs, SetupFailed(r) PROVE TypeOK'
  BY <1>8 DEF RowOK, RedisOK, RunsOK, RequestsOK, SetupFailed
<1>9. ASSUME NEW r \in Runs, StartHeartbeat(r) PROVE TypeOK'
  BY <1>9 DEF RowOK, RedisOK, RunsOK, RequestsOK, StartHeartbeat
<1>10a. ASSUME NEW r \in Runs, EnterGraph(r) PROVE TypeOK'
  BY <1>10a DEF RowOK, RedisOK, RunsOK, RequestsOK, EnterGraph
<1>10b. ASSUME NEW r \in Runs, StepGate(r) PROVE TypeOK'
  BY <1>10b DEF RowOK, RedisOK, RunsOK, RequestsOK, StepGate
<1>10c. ASSUME NEW r \in Runs, PauseEnds(r) PROVE TypeOK'
  BY <1>10c DEF RowOK, RedisOK, RunsOK, RequestsOK, PauseEnds
<1>10d. ASSUME NEW r \in Runs, LedgerCheck(r) PROVE TypeOK'
  BY <1>10d DEF RowOK, RedisOK, RunsOK, RequestsOK, LedgerCheck
<1>10e. ASSUME NEW r \in Runs, StepEnds(r) PROVE TypeOK'
  BY <1>10e DEF RowOK, RedisOK, RunsOK, RequestsOK, StepEnds
<1>11. ASSUME NEW r \in Runs, ToolCall(r) PROVE TypeOK'
  BY <1>11 DEF RowOK, RedisOK, RunsOK, RequestsOK, ToolCall
<1>12. ASSUME NEW r \in Runs, ToolEvent(r) PROVE TypeOK'
  BY <1>12 DEF RowOK, RedisOK, RunsOK, RequestsOK, ToolEvent
<1>13. ASSUME NEW r \in Runs, ToolRecord(r) PROVE TypeOK'
  <2>1. RowOK'
    BY <1>13 DEF RowOK, ToolRecord
  <2>2. RedisOK'
    BY <1>13 DEF RedisOK, ToolRecord
  <2>3. RunsOK'
    BY <1>13 DEF RunsOK, ToolRecord
  <2>4. RequestsOK'
    BY <1>13 DEF RequestsOK, ToolRecord
  <2> QED BY <2>1, <2>2, <2>3, <2>4 DEF TypeOK
<1>14. ASSUME NEW r \in Runs, NEW s \in {"complete", "failed", "waiting_human"}, RecordEnd(r, s)
      PROVE  TypeOK'
  BY <1>14 DEF RowOK, RedisOK, RunsOK, RequestsOK, RecordEnd
<1>15. ASSUME NEW r \in Runs, MarkSuspended(r) PROVE TypeOK'
  <2>1. RowOK'
    BY <1>15 DEF RowOK, MarkSuspended
  <2>2. RedisOK'
    BY <1>15 DEF RedisOK, MarkSuspended
  <2>3. RunsOK'
    BY <1>15 DEF RunsOK, MarkSuspended
  <2>4. RequestsOK'
    BY <1>15 DEF RequestsOK, MarkSuspended
  <2> QED BY <2>1, <2>2, <2>3, <2>4 DEF TypeOK
<1>16. ASSUME NEW r \in Runs, CancelledEarly(r) PROVE TypeOK'
  BY <1>16 DEF RowOK, RedisOK, RunsOK, RequestsOK, CancelledEarly
<1>17. ASSUME NEW r \in Runs, Cancelled(r) PROVE TypeOK'
  BY <1>17 DEF RowOK, RedisOK, RunsOK, RequestsOK, Cancelled
<1>18. ASSUME NEW r \in Runs, RunError(r) PROVE TypeOK'
  BY <1>18 DEF RowOK, RedisOK, RunsOK, RequestsOK, RunError
<1>19. ASSUME NEW r \in Runs, FailRun(r) PROVE TypeOK'
  BY <1>19 DEF RowOK, RedisOK, RunsOK, RequestsOK, FailRun
<1>20. ASSUME NEW r \in Runs, RetryRun(r) PROVE TypeOK'
  <2>1. RowOK'
    BY <1>20 DEF RowOK, RetryRun, NewMessage, PublishFrom
  <2>2. RedisOK'
    BY <1>20 DEF RedisOK, RetryRun, NewMessage, PublishFrom
  <2>3. RunsOK'
    <3>1. /\ PublishFrom(r, "releasing", attempt[r] + 1) /\ UNCHANGED threads
          /\ attempt[r] + 1 \in Nat /\ "releasing" \in PC
      BY <1>20 DEF RunsOK, RetryRun
    <3> QED BY <3>1, PublishFromType
  <2>4. RequestsOK'
    BY <1>20 DEF RequestsOK, RetryRun, NewMessage, PublishFrom
  <2> QED BY <2>1, <2>2, <2>3, <2>4 DEF TypeOK
<1>21. ASSUME NEW r \in Runs, CloseRun(r) PROVE TypeOK'
  BY <1>21 DEF RowOK, RedisOK, RunsOK, RequestsOK, CloseRun
<1>22. ASSUME NEW r \in Runs, ReleaseRun(r) PROVE TypeOK'
  <2>1. RowOK'
    BY <1>22 DEF RowOK, ReleaseRun
  <2>2. RedisOK'
    BY <1>22 DEF RedisOK, ReleaseRun
  <2>3. RunsOK'
    <3>1. beat' \in [Runs -> Beat]
      BY <1>22 DEF RunsOK, ReleaseRun
    <3>2. pc' \in [Runs -> PC]
      BY <1>22 DEF RunsOK, ReleaseRun
    <3> QED BY <1>22, <3>1, <3>2 DEF RunsOK, ReleaseRun
  <2>4. RequestsOK'
    BY <1>22 DEF RequestsOK, ReleaseRun
  <2> QED BY <2>1, <2>2, <2>3, <2>4 DEF TypeOK
<1>23. ASSUME NEW r \in Runs, BeatRow(r) PROVE TypeOK'
  BY <1>23 DEF RowOK, RedisOK, RunsOK, RequestsOK, BeatRow, StillOurs, FirstBeat
<1>24. ASSUME NEW r \in Runs, Crash(r) PROVE TypeOK'
  BY <1>24 DEF RowOK, RedisOK, RunsOK, RequestsOK, Crash
<1>25. ASSUME NEW r \in Runs, Wedge(r) PROVE TypeOK'
  BY <1>25 DEF RowOK, RedisOK, RunsOK, RequestsOK, Wedge
<1>26. ASSUME NEW r \in Runs, Unwedge(r) PROVE TypeOK'
  BY <1>26 DEF RowOK, RedisOK, RunsOK, RequestsOK, Unwedge
<1>27. ASSUME NEW r \in Runs, Redeliver(r) PROVE TypeOK'
  <2>1. RowOK'
    BY <1>27 DEF RowOK, Redeliver, NewMessage, PublishFrom
  <2>2. RedisOK'
    BY <1>27 DEF RedisOK, Redeliver, NewMessage, PublishFrom
  <2>3. RunsOK'
    <3>1. CASE PublishFrom(r, "gone", attempt[r]) /\ UNCHANGED threads
      BY <3>1, PublishFromType DEF TypeOK, RunsOK, threads, PC, Over
    <3>2. CASE PublishFrom(r, pc[r], attempt[r]) /\ UNCHANGED threads
      BY <3>2, PublishFromType DEF TypeOK, RunsOK, threads
    <3> QED BY <1>27, <3>1, <3>2 DEF Redeliver, threads
  <2>4. RequestsOK'
    BY <1>27 DEF RequestsOK, Redeliver, NewMessage, PublishFrom
  <2> QED BY <2>1, <2>2, <2>3, <2>4 DEF TypeOK
<1>28. ASSUME NEW w \in Reapers, ReapClaim(w) PROVE TypeOK'
  BY <1>28 DEF RowOK, RedisOK, RunsOK, RequestsOK, ReapClaim, ForgetRunner
<1>29. ASSUME NEW w \in Reapers, ReapUnlock(w) PROVE TypeOK'
  BY <1>29 DEF RowOK, RedisOK, RunsOK, RequestsOK, ReapUnlock
<1>30. ASSUME NEW w \in Reapers, ReapRequeue(w) PROVE TypeOK'
  <2>1. RowOK'
    BY <1>30 DEF TypeOK, RowOK, RequestsOK, ReapRequeue, RequeuedStatus, Status
  <2>2. RedisOK'
    BY <1>30 DEF RedisOK, ReapRequeue, RequeuedStatus
  <2>3. RunsOK'
    BY <1>30 DEF RunsOK, ReapRequeue, RequeuedStatus
  <2>4. RequestsOK'
    BY <1>30 DEF RequestsOK, ReapRequeue, RequeuedStatus
  <2> QED BY <2>1, <2>2, <2>3, <2>4 DEF TypeOK
<1>31. ASSUME NEW w \in Reapers, ReapEnqueue(w) PROVE TypeOK'
  <2>1. RowOK'
    BY <1>31 DEF RowOK, ReapEnqueue, NewMessage, Publish
  <2>2. RedisOK'
    BY <1>31 DEF RedisOK, ReapEnqueue, NewMessage, Publish
  <2>3. RunsOK'
    BY <1>31, PublishType DEF TypeOK, RunsOK, ReapEnqueue, broker, threads
  <2>4. RequestsOK'
    BY <1>31 DEF RequestsOK, ReapEnqueue, NewMessage, Publish
  <2> QED BY <2>1, <2>2, <2>3, <2>4 DEF TypeOK
<1>32. ASSUME NEW w \in Reapers, ReapFail(w) PROVE TypeOK'
  <2>1. RowOK'
    BY <1>32 DEF RowOK, ReapFail
  <2>2. RedisOK'
    BY <1>32 DEF RedisOK, ReapFail
  <2>3. RunsOK'
    BY <1>32 DEF RunsOK, ReapFail
  <2>4. RequestsOK'
    BY <1>32 DEF RequestsOK, ReapFail
  <2> QED BY <2>1, <2>2, <2>3, <2>4 DEF TypeOK
<1>33. ASSUME NEW w \in Reapers, ReapSlot(w) PROVE TypeOK'
  BY <1>33 DEF RowOK, RedisOK, RunsOK, RequestsOK, ReapSlot
<1>34. ASSUME NEW w \in Reapers, ReaperCrash(w) PROVE TypeOK'
  BY <1>34 DEF RowOK, RedisOK, RunsOK, RequestsOK, ReaperCrash
<1>35. ASSUME NEW o \in Operators, CancelGoal(o) PROVE TypeOK'
  <2>1. RowOK'
    BY <1>35 DEF RowOK, CancelGoal
  <2>2. RedisOK'
    BY <1>35 DEF RedisOK, CancelGoal
  <2>3. RunsOK'
    BY <1>35 DEF RunsOK, CancelGoal
  <2>4. RequestsOK'
    BY <1>35 DEF RequestsOK, CancelGoal
  <2> QED BY <2>1, <2>2, <2>3, <2>4 DEF TypeOK
<1>36. ASSUME NEW o \in Operators, PersistCancel(o) PROVE TypeOK'
  <2>1. RowOK'
    <3>1. status' \in Status
      <4>1. (IF op[o] = "cancel" THEN "cancelled" ELSE "failed") \in Status
        OBVIOUS
      <4> QED BY <1>36, <4>1 DEF RowOK, PersistCancel
    <3>2. events' \subseteq {"effect", "end"}
      <4> HIDE WrittenType DEF Answer, SetStatus, TERMINAL_STATUSES, Status
      <4> QED BY <1>36 DEF RowOK, PersistCancel
    <3> QED BY <1>36, <3>1, <3>2 DEF RowOK, PersistCancel
  <2>2. RedisOK'
    BY <1>36 DEF RedisOK, PersistCancel
  <2>3. RunsOK'
    BY <1>36 DEF RunsOK, PersistCancel
  <2>4. RequestsOK'
    <3>1. confirmed' \in BOOLEAN
      BY <1>36 DEF RequestsOK, PersistCancel, Confirm
    <3>2. op' \in [Operators -> Requests] /\ faults' \in Nat /\ ops' \in Nat
      BY <1>36 DEF RequestsOK, PersistCancel
    <3> QED BY <1>36, <3>1, <3>2 DEF RequestsOK, PersistCancel
  <2> QED BY <2>1, <2>2, <2>3, <2>4 DEF TypeOK
<1>37. ASSUME NEW o \in Operators, PauseGoal(o) PROVE TypeOK'
  BY <1>37 DEF RowOK, RedisOK, RunsOK, RequestsOK, PauseGoal
<1>38. ASSUME NEW o \in Operators, PersistPause(o) PROVE TypeOK'
  <2>1. RowOK'
    BY <1>38 DEF RowOK, PersistPause
  <2>2. RedisOK'
    BY <1>38 DEF RedisOK, PersistPause
  <2>3. RunsOK'
    BY <1>38 DEF RunsOK, PersistPause
  <2>4. RequestsOK'
    BY <1>38 DEF RequestsOK, PersistPause
  <2> QED BY <2>1, <2>2, <2>3, <2>4 DEF TypeOK
<1>39. ASSUME NEW o \in Operators, ResumeGoal(o) PROVE TypeOK'
  BY <1>39 DEF RowOK, RedisOK, RunsOK, RequestsOK, ResumeGoal
<1>40. ASSUME NEW o \in Operators, PersistResume(o) PROVE TypeOK'
  <2>1. RowOK'
    BY <1>40 DEF RowOK, PersistResume
  <2>2. RedisOK'
    BY <1>40 DEF RedisOK, PersistResume
  <2>3. RunsOK'
    BY <1>40 DEF RunsOK, PersistResume
  <2>4. RequestsOK'
    BY <1>40 DEF RequestsOK, PersistResume
  <2> QED BY <2>1, <2>2, <2>3, <2>4 DEF TypeOK
<1>41. ASSUME NEW o \in Operators, RelaunchGoal(o) PROVE TypeOK'
  BY <1>41 DEF RowOK, RedisOK, RunsOK, RequestsOK, RelaunchGoal
<1>42. ASSUME NEW o \in Operators, EnqueueRelaunch(o) PROVE TypeOK'
  <2>1. RowOK'
    BY <1>42 DEF RowOK, EnqueueRelaunch, NewMessage, Publish
  <2>2. RedisOK'
    BY <1>42 DEF RedisOK, EnqueueRelaunch, NewMessage, Publish
  <2>3. RunsOK'
    BY <1>42, PublishType DEF TypeOK, RunsOK, EnqueueRelaunch, broker, threads
  <2>4. RequestsOK'
    BY <1>42 DEF RequestsOK, EnqueueRelaunch, NewMessage, Publish
  <2> QED BY <2>1, <2>2, <2>3, <2>4 DEF TypeOK
<1>43. CASE DeadLetter
  BY <1>43 DEF RowOK, RedisOK, RunsOK, RequestsOK, DeadLetter
<1>44. CASE BeatGoesStale
  BY <1>44 DEF RowOK, RedisOK, RunsOK, RequestsOK, BeatGoesStale
<1>45. CASE LockExpires
  BY <1>45 DEF RowOK, RedisOK, RunsOK, RequestsOK, LockExpires
<1>46. CASE DetectStuck
  BY <1>46 DEF RowOK, RedisOK, RunsOK, RequestsOK, DetectStuck, IsStuck
<1>47. CASE RejectSuspended
  BY <1>47 DEF RowOK, RedisOK, RunsOK, RequestsOK, RejectSuspended
<1>48. CASE LiftStop
  BY <1>48 DEF RowOK, RedisOK, RunsOK, RequestsOK, LiftStop
<1>49. CASE UNCHANGED vars
  BY <1>49 DEF TypeOK, RowOK, RedisOK, RunsOK, RequestsOK, vars, row, redis, broker,
      threads, reapers, operator
<1>50. ASSUME NEW o \in Operators, EmergencyStop(o) PROVE TypeOK'
  <2>1. RowOK'
    BY <1>50 DEF RowOK, EmergencyStop
  <2>2. RedisOK'
    BY <1>50 DEF RedisOK, EmergencyStop
  <2>3. RunsOK'
    BY <1>50 DEF RunsOK, EmergencyStop
  <2>4. RequestsOK'
    BY <1>50 DEF RequestsOK, EmergencyStop
  <2> QED BY <2>1, <2>2, <2>3, <2>4 DEF TypeOK
<1>51. ASSUME NEW o \in Operators, StopCancels(o) PROVE TypeOK'
  <2>1. RowOK'
    BY <1>51 DEF RowOK, StopCancels
  <2>2. RedisOK'
    BY <1>51 DEF RedisOK, StopCancels
  <2>3. RunsOK'
    BY <1>51 DEF RunsOK, StopCancels
  <2>4. RequestsOK'
    BY <1>51 DEF RequestsOK, StopCancels
  <2> QED BY <2>1, <2>2, <2>3, <2>4 DEF TypeOK
<1>52. ASSUME NEW o \in Operators, BatchCancel(o) PROVE TypeOK'
  <2>1. RowOK'
    BY <1>52 DEF RowOK, BatchCancel
  <2>2. RedisOK'
    BY <1>52 DEF RedisOK, BatchCancel
  <2>3. RunsOK'
    BY <1>52 DEF RunsOK, BatchCancel
  <2>4. RequestsOK'
    BY <1>52 DEF RequestsOK, BatchCancel
  <2> QED BY <2>1, <2>2, <2>3, <2>4 DEF TypeOK
<1>53. ASSUME NEW o \in Operators, PersistBatch(o) PROVE TypeOK'
  <2>1. RowOK'
    BY <1>53 DEF RowOK, PersistBatch
  <2>2. RedisOK'
    BY <1>53 DEF RedisOK, PersistBatch
  <2>3. RunsOK'
    BY <1>53 DEF RunsOK, PersistBatch
  <2>4. RequestsOK'
    BY <1>53 DEF RequestsOK, PersistBatch, Confirm
  <2> QED BY <2>1, <2>2, <2>3, <2>4 DEF TypeOK
<1> QED
  BY <1>1, <1>2, <1>3, <1>4, <1>5, <1>6, <1>7, <1>8, <1>9, <1>10a,
     <1>10b, <1>10c, <1>10d, <1>10e, <1>11, <1>12, <1>13,
      <1>14, <1>15, <1>16, <1>17, <1>18, <1>19, <1>20, <1>21, <1>22, <1>23, <1>24,
      <1>25, <1>26, <1>27, <1>28, <1>29, <1>30, <1>31, <1>32, <1>33, <1>34, <1>35,
      <1>36, <1>37, <1>38, <1>39, <1>40, <1>41, <1>42, <1>43, <1>44, <1>45, <1>46,
      <1>47, <1>48, <1>49, <1>50, <1>51, <1>52, <1>53
      DEF Next, RunStep, WorkerFault, ReapStep, OperatorStep

(***************************************************************************)
(* Exclusion.  Only lock, runner, hb, beat, pc, deliveries, rpc and rtoken *)
(* matter; the first four lemmas are the ways a step changes them.         *)
(***************************************************************************)

\* Control flags, statuses, events, slots, budgets: nothing exclusion depends on.
LEMMA ExclusionElsewhere ==
    ASSUME Exclusion,
           UNCHANGED <<lock, runner, hb, beat, pc, deliveries, rpc, rtoken>>
    PROVE  Exclusion'
  BY DEF Exclusion, LockOrDisowned, OneReaperPerRunner, ClaimedRowHasRunner,
      UnsentAreLater, FirstBeatIsNew, ReapedTokenIsDead

\* A run that goes on inside run_goal, still before or still after its heartbeat starts.
LEMMA ExclusionMoves ==
    ASSUME TypeOK, Exclusion, NEW r \in Runs, NEW to \in PC, Goto(r, to),
           \/ pc[r] \in Setup /\ to \in Setup
           \/ pc[r] \in Working /\ to \in Working,
           UNCHANGED <<lock, runner, hb, beat, deliveries, rpc, rtoken>>
    PROVE  Exclusion'
<1>1. pc' = [pc EXCEPT ![r] = to] /\ pc \in [Runs -> PC] /\ deliveries \in Nat
  BY DEF Goto, TypeOK, RunsOK, Runs
<1>2. Setup \cap Working = {} /\ Early \cap Working = {} /\ Setup \subseteq Early
      /\ "unsent" \notin Setup \cup Working
  BY DEF Setup, Working, InGraph, InStep, Early
<1>3. LockOrDisowned' /\ OneReaperPerRunner' /\ ClaimedRowHasRunner'
  BY <1>1, <1>2 DEF Exclusion, LockOrDisowned, OneReaperPerRunner, ClaimedRowHasRunner
<1>4. UnsentAreLater' /\ FirstBeatIsNew'
  BY <1>1, <1>2 DEF Exclusion, UnsentAreLater, FirstBeatIsNew
<1>5. ReapedTokenIsDead'
  BY <1>1, <1>2 DEF Exclusion, ReapedTokenIsDead
<1> QED BY <1>3, <1>4, <1>5 DEF Exclusion

\* A run that ends: it may give the lock back, and its heartbeat thread stops or is
\* abandoned in its last write.
LEMMA ExclusionLeaves ==
    ASSUME TypeOK, Exclusion, NEW r \in Runs, NEW to \in Over, NEW b \in Beat,
           Goto(r, to), pc[r] # "unsent",
           lock' \in {lock, LockWithout(r)},
           beat' = [beat EXCEPT ![r] = b], b \in FirstBeat => beat[r] \in FirstBeat,
           UNCHANGED <<runner, hb, deliveries, rpc, rtoken>>
    PROVE  Exclusion'
<1>1. /\ pc' = [pc EXCEPT ![r] = to] /\ pc \in [Runs -> PC] /\ deliveries \in Nat
      /\ beat \in [Runs -> Beat]
  BY DEF Goto, TypeOK, RunsOK, Runs
<1>2. to \notin Setup \cup Working \cup Early \cup {"unsent"}
  BY DEF Setup, Working, InGraph, InStep, Early, Over
<1>3. \A x \in Runs : lock = x /\ x # r => lock' = x
  BY DEF LockWithout
<1>4. LockOrDisowned'
  BY <1>1, <1>2, <1>3 DEF Exclusion, LockOrDisowned, LockWithout
<1>5. OneReaperPerRunner' /\ ClaimedRowHasRunner'
  BY DEF Exclusion, OneReaperPerRunner, ClaimedRowHasRunner
<1>6. UnsentAreLater' /\ FirstBeatIsNew'
  BY <1>1, <1>2 DEF Exclusion, UnsentAreLater, FirstBeatIsNew
<1>7. ReapedTokenIsDead'
  BY <1>1, <1>2 DEF Exclusion, ReapedTokenIsDead
<1> QED BY <1>4, <1>5, <1>6, <1>7 DEF Exclusion

\* A message is published while run r (if the publisher is one) goes on or ends; r may
\* take the free lock with it (StartRetry) or give its own back (ClaimError).
LEMMA ExclusionPublishes ==
    ASSUME TypeOK, Exclusion, NEW r \in Runs, NEW to \in PC, NEW n \in Nat,
           PublishFrom(r, to, n), pc[r] # "unsent",
           \/ to = pc[r] /\ UNCHANGED lock
           \/ to \in Working /\ pc[r] \in Working /\ UNCHANGED lock
           \/ to \in Over /\ \/ lock' \in {lock, LockWithout(r)}
                             \/ lock = NoRun /\ lock' = r,
           UNCHANGED <<runner, hb, beat, rpc, rtoken>>
    PROVE  Exclusion'
<1> DEFINE m == deliveries + 1
<1>1. /\ pc \in [Runs -> PC] /\ deliveries \in Nat /\ m \in Runs
      /\ deliveries' = m /\ pc' = [pc EXCEPT ![r] = to, ![m] = "queued"]
  BY ConstantsAssumption DEF TypeOK, RunsOK, Runs, PublishFrom, NewMessage
<1>2. pc[m] = "unsent" /\ m # r
  BY <1>1 DEF Exclusion, UnsentAreLater
<1> HIDE DEF m
<1>3. /\ pc'[m] = "queued" /\ pc'[r] = to
      /\ \A x \in Runs \ {m, r} : pc'[x] = pc[x]
  BY <1>1, <1>2
<1>4. /\ Setup \cap Working = {} /\ Early \cap Working = {} /\ Setup \subseteq Early
      /\ Over \cap (Early \cup Working) = {} /\ "unsent" \notin Setup \cup Working \cup Over
      /\ "queued" \notin Setup \cup Working /\ {"queued", "unsent"} \subseteq Early
  BY DEF Setup, Working, InGraph, InStep, Early, Over
<1>5. LockOrDisowned'
  <2>1. \A x \in Runs : lock = x /\ x # r => lock' = x
    BY <1>1 DEF LockWithout, NoRun, Runs
  <2>2. to \in Over => to \notin Setup \cup Working
    BY <1>4
  <2>3. ASSUME NEW x \in Runs, x # m
        PROVE  /\ pc'[x] \in Setup => lock' = x
               /\ pc'[x] \in Working /\ lock' # x => runner' # x /\ beat'[x] \notin FirstBeat
    <3>1. CASE x = r
      BY <2>2, <2>3, <3>1, <1>3, <1>4 DEF Exclusion, LockOrDisowned
    <3>2. CASE x # r
      BY <2>1, <2>3, <3>2, <1>3 DEF Exclusion, LockOrDisowned
    <3> QED BY <3>1, <3>2
  <2> QED BY <1>3, <1>4, <2>3 DEF LockOrDisowned
<1>6. OneReaperPerRunner' /\ ClaimedRowHasRunner'
  BY DEF Exclusion, OneReaperPerRunner, ClaimedRowHasRunner
<1>7. UnsentAreLater'
  BY <1>1, <1>2, <1>3 DEF Exclusion, UnsentAreLater, m, Runs
<1>8. FirstBeatIsNew'
  BY <1>1, <1>2, <1>3, <1>4 DEF Exclusion, FirstBeatIsNew
<1>9. ReapedTokenIsDead'
  BY <1>1, <1>2, <1>3, <1>4 DEF Exclusion, ReapedTokenIsDead
<1> QED BY <1>5, <1>6, <1>7, <1>8, <1>9 DEF Exclusion

\* A message published by somebody who is not a run (and whose reaper task may end).
LEMMA ExclusionQueues ==
    ASSUME TypeOK, Exclusion, NEW n \in Nat, Publish(n),
           \A w \in Reapers : rpc'[w] # "idle" => rpc[w] # "idle",
           UNCHANGED <<lock, runner, hb, beat, rtoken>>
    PROVE  Exclusion'
<1> DEFINE m == deliveries + 1
<1>1. /\ pc \in [Runs -> PC] /\ deliveries \in Nat /\ m \in Runs
      /\ deliveries' = m /\ pc' = [pc EXCEPT ![m] = "queued"]
  BY ConstantsAssumption DEF TypeOK, RunsOK, Runs, Publish, NewMessage
<1>2. pc[m] = "unsent"
  BY <1>1 DEF Exclusion, UnsentAreLater
<1>3. /\ "queued" \notin Setup \cup Working /\ {"queued", "unsent"} \subseteq Early
  BY DEF Setup, Working, InGraph, InStep, Early
<1>4. UnsentAreLater'
  BY <1>1, <1>2 DEF Exclusion, UnsentAreLater, Runs
<1> HIDE DEF m
<1>5. LockOrDisowned' /\ ClaimedRowHasRunner' /\ FirstBeatIsNew'
  BY <1>1, <1>2, <1>3 DEF Exclusion, LockOrDisowned, ClaimedRowHasRunner, FirstBeatIsNew
<1>6. OneReaperPerRunner' /\ ReapedTokenIsDead'
  BY <1>1, <1>2, <1>3 DEF Exclusion, OneReaperPerRunner, ReapedTokenIsDead
<1> QED BY <1>4, <1>5, <1>6 DEF Exclusion

\* A reaper goes on with the goal it claimed; it may delete the lock of its token.
LEMMA ExclusionReaps ==
    ASSUME TypeOK, Exclusion, NEW w \in Reapers, rpc[w] # "idle",
           NEW to, rpc' = [rpc EXCEPT ![w] = to],
           lock' \in {lock, LockWithout(rtoken[w])},
           UNCHANGED <<runner, hb, beat, pc, deliveries, rtoken>>
    PROVE  Exclusion'
<1>1. rtoken \in [Reapers -> Runs \cup {NoRun}] /\ DOMAIN rpc = Reapers
  BY DEF TypeOK, RequestsOK
<1>2. \A v \in Reapers : rpc'[v] # "idle" => rpc[v] # "idle"
  BY <1>1
<1>3. LockOrDisowned'
  BY <1>1 DEF Exclusion, LockOrDisowned, ReapedTokenIsDead, LockWithout, Early
<1>4. OneReaperPerRunner' /\ ReapedTokenIsDead'
  BY <1>2 DEF Exclusion, OneReaperPerRunner, ReapedTokenIsDead
<1>5. ClaimedRowHasRunner' /\ UnsentAreLater' /\ FirstBeatIsNew'
  BY DEF Exclusion, ClaimedRowHasRunner, UnsentAreLater, FirstBeatIsNew
<1> QED BY <1>3, <1>4, <1>5 DEF Exclusion

\* Every step preserves Exclusion.
LEMMA ExclusionStep == TypeOK /\ Exclusion /\ [Next]_vars => Exclusion'
<1> SUFFICES ASSUME TypeOK, Exclusion, [Next]_vars PROVE Exclusion'
  OBVIOUS
<1> USE DEF row, redis, broker, threads, reapers, operator, RowButStatus
<1>a. /\ \A r \in Runs : beat[r] \in Beat /\ beat = [beat EXCEPT ![r] = beat[r]]
      /\ \A r \in Runs : attempt[r] \in Nat /\ pc[r] \in PC
  BY DEF TypeOK, RunsOK
<1>1. ASSUME NEW r \in Runs, StartBlocked(r) PROVE Exclusion'
  BY <1>1, <1>a, ExclusionLeaves DEF StartBlocked, Over
<1>2. ASSUME NEW r \in Runs, StartRetry(r) PROVE Exclusion'
  <2>1. /\ PublishFrom(r, "done", attempt[r] + 1) /\ pc[r] # "unsent"
        /\ attempt[r] + 1 \in Nat /\ "done" \in PC /\ "done" \in Over
        /\ UNCHANGED <<runner, hb, beat, rpc, rtoken>>
    BY <1>2, <1>a DEF StartRetry, Over, PC
  <2>2. lock' \in {lock, LockWithout(r)} \/ (lock = NoRun /\ lock' = r)
    BY <1>2 DEF StartRetry
  <2> QED BY <2>1, <2>2, ExclusionPublishes
<1>3. ASSUME NEW r \in Runs, AcquireLock(r) PROVE Exclusion'
  <2>1. CASE lock # NoRun
    BY <1>3, <2>1, <1>a, ExclusionLeaves DEF AcquireLock, Over
  <2>2. CASE lock = NoRun
    <3>1. /\ lock' = r /\ pc' = [pc EXCEPT ![r] = "locked"] /\ pc[r] = "queued"
          /\ pc \in [Runs -> PC] /\ deliveries \in Nat
          /\ UNCHANGED <<runner, hb, beat, deliveries, rpc, rtoken>>
      BY <1>3, <2>2 DEF AcquireLock, Goto, TypeOK, RunsOK, Runs
    <3>2. /\ {"queued", "locked"} \subseteq Early /\ "locked" \in Setup
          /\ Setup \cap Working = {}
      BY DEF Early, Setup, Working, InGraph, InStep
    <3>3. \A x \in Runs : pc[x] \notin Setup
      BY <2>2 DEF Exclusion, LockOrDisowned, NoRun, Runs
    <3>4. LockOrDisowned'
      BY <3>1, <3>2, <3>3, <2>2 DEF Exclusion, LockOrDisowned, NoRun, Runs
    <3>5. OneReaperPerRunner' /\ ClaimedRowHasRunner' /\ UnsentAreLater'
      BY <3>1 DEF Exclusion, OneReaperPerRunner, ClaimedRowHasRunner, UnsentAreLater
    <3>6. FirstBeatIsNew' /\ ReapedTokenIsDead'
      BY <3>1, <3>2 DEF Exclusion, FirstBeatIsNew, ReapedTokenIsDead
    <3> QED BY <3>4, <3>5, <3>6 DEF Exclusion
  <2> QED BY <2>1, <2>2
<1>4. ASSUME NEW r \in Runs, LockUnavailable(r) PROVE Exclusion'
  BY <1>4, <1>a, ExclusionLeaves DEF LockUnavailable, Over
<1>5. ASSUME NEW r \in Runs, Claim(r) PROVE Exclusion'
  <2>1. CASE status \in NotClaimable
    BY <1>5, <2>1, <1>a, ExclusionLeaves DEF Claim, At, Over
  <2>2. CASE status \notin NotClaimable
    BY <1>5, <2>2, ExclusionMoves DEF Claim, At, PC, Live, Setup
  <2> QED BY <2>1, <2>2
<1>6. ASSUME NEW r \in Runs, ClaimError(r) PROVE Exclusion'
  <2>1. CASE PublishFrom(r, "done", attempt[r] + 1)
    BY <1>6, <2>1, <1>a, ExclusionPublishes DEF ClaimError, At, Over, PC
  <2>2. CASE Goto(r, "done") /\ UNCHANGED broker
    BY <1>6, <2>2, <1>a, ExclusionLeaves DEF ClaimError, At, Over
  <2> QED BY <1>6, <2>1, <2>2 DEF ClaimError
<1>7. ASSUME NEW r \in Runs, MarkStarted(r) PROVE Exclusion'
  BY <1>7, ExclusionMoves DEF MarkStarted, At, PC, Live, Setup
<1>8. ASSUME NEW r \in Runs, SetupFailed(r) PROVE Exclusion'
  BY <1>8, <1>a, ExclusionLeaves DEF SetupFailed, At, Over
<1>9. ASSUME NEW r \in Runs, StartHeartbeat(r) PROVE Exclusion'
  <2>1. /\ pc' = [pc EXCEPT ![r] = "begun"] /\ beat' = [beat EXCEPT ![r] = "first"]
        /\ pc[r] = "starting" /\ pc \in [Runs -> PC] /\ beat \in [Runs -> Beat]
        /\ deliveries \in Nat
        /\ UNCHANGED <<lock, runner, hb, deliveries, rpc, rtoken>>
    BY <1>9 DEF StartHeartbeat, At, Goto, TypeOK, RunsOK, Runs
  <2>2. /\ "starting" \in Setup /\ Setup \subseteq Early
        /\ "begun" \notin Early \cup Setup
    BY DEF Early, Setup
  <2>3. lock = r /\ runner # r
    BY <2>1, <2>2 DEF Exclusion, LockOrDisowned, FirstBeatIsNew
  <2>4. LockOrDisowned' /\ OneReaperPerRunner' /\ ClaimedRowHasRunner'
    BY <2>1, <2>2, <2>3 DEF Exclusion, LockOrDisowned, OneReaperPerRunner, ClaimedRowHasRunner
  <2>5. UnsentAreLater' /\ FirstBeatIsNew' /\ ReapedTokenIsDead'
    BY <2>1, <2>2, <2>3 DEF Exclusion, UnsentAreLater, FirstBeatIsNew, ReapedTokenIsDead
  <2> QED BY <2>4, <2>5 DEF Exclusion
<1>10a. ASSUME NEW r \in Runs, EnterGraph(r) PROVE Exclusion'
  BY <1>10a, ExclusionMoves DEF EnterGraph, At, PC, Live, Working, InGraph, InStep
<1>10b. ASSUME NEW r \in Runs, StepGate(r) PROVE Exclusion'
  BY <1>10b, ExclusionMoves DEF StepGate, At, PC, Live, Working, InGraph, InStep
<1>10c. ASSUME NEW r \in Runs, PauseEnds(r) PROVE Exclusion'
  BY <1>10c, ExclusionMoves DEF PauseEnds, At, PC, Live, Working, InGraph, InStep
<1>10d. ASSUME NEW r \in Runs, LedgerCheck(r) PROVE Exclusion'
  BY <1>10d, ExclusionMoves DEF LedgerCheck, At, PC, Live, Working, InGraph, InStep
<1>10e. ASSUME NEW r \in Runs, StepEnds(r) PROVE Exclusion'
  BY <1>10e, ExclusionMoves DEF StepEnds, At, PC, Live, Working, InGraph, InStep
<1>11. ASSUME NEW r \in Runs, ToolCall(r) PROVE Exclusion'
  BY <1>11, ExclusionMoves DEF ToolCall, At, PC, Live, Working, InGraph, InStep
<1>12. ASSUME NEW r \in Runs, ToolEvent(r) PROVE Exclusion'
  BY <1>12, ExclusionMoves DEF ToolEvent, At, PC, Live, Working, InGraph, InStep
<1>13. ASSUME NEW r \in Runs, ToolRecord(r) PROVE Exclusion'
  BY <1>13, ExclusionMoves DEF ToolRecord, At, PC, Live, Working, InGraph, InStep
<1>14. ASSUME NEW r \in Runs, NEW s \in {"complete", "failed", "waiting_human"},
              RecordEnd(r, s)
       PROVE  Exclusion'
  BY <1>14, ExclusionMoves DEF RecordEnd, At, PC, Live, Working, InGraph, InStep
<1>15. ASSUME NEW r \in Runs, MarkSuspended(r) PROVE Exclusion'
  BY <1>15, ExclusionMoves DEF MarkSuspended, At, PC, Live, Working, InGraph, InStep
<1>16. ASSUME NEW r \in Runs, CancelledEarly(r) PROVE Exclusion'
  BY <1>16, ExclusionMoves DEF CancelledEarly, At, PC, Live, Working, InGraph, InStep
<1>17. ASSUME NEW r \in Runs, Cancelled(r) PROVE Exclusion'
  BY <1>17, ExclusionMoves DEF Cancelled, At, PC, Live, Working, InGraph, InStep
<1>18. ASSUME NEW r \in Runs, RunError(r) PROVE Exclusion'
  BY <1>18, ExclusionMoves DEF RunError, At, PC, Live, Working, InGraph, InStep
<1>19. ASSUME NEW r \in Runs, FailRun(r) PROVE Exclusion'
  BY <1>19, ExclusionMoves DEF FailRun, At, PC, Live, Working, InGraph, InStep
<1>20. ASSUME NEW r \in Runs, RetryRun(r) PROVE Exclusion'
  <2>1. /\ PublishFrom(r, "releasing", attempt[r] + 1) /\ pc[r] = "erred"
        /\ UNCHANGED <<lock, runner, hb, beat, rpc, rtoken>>
    BY <1>20 DEF RetryRun, At
  <2>2. {"erred", "releasing"} \subseteq Working /\ "releasing" \in PC /\ attempt[r] + 1 \in Nat
    BY <1>a DEF PC, Live, Working
  <2> QED BY <2>1, <2>2, ExclusionPublishes
<1>21. ASSUME NEW r \in Runs, CloseRun(r) PROVE Exclusion'
  BY <1>21, ExclusionMoves DEF CloseRun, At, PC, Live, Working, InGraph, InStep
<1>22. ASSUME NEW r \in Runs, ReleaseRun(r) PROVE Exclusion'
  <2>1. PICK b \in Beat : /\ beat' = [beat EXCEPT ![r] = b]
                          /\ b \in FirstBeat => beat[r] \in FirstBeat
    BY <1>22 DEF ReleaseRun, Beat, Beating, FirstBeat
  <2>2. lock' \in {lock, LockWithout(r)}
    BY <1>22 DEF ReleaseRun
  <2> QED BY <1>22, <2>1, <2>2, ExclusionLeaves DEF ReleaseRun, At, Over
<1>23. ASSUME NEW r \in Runs, BeatRow(r) PROVE Exclusion'
  <2>1. /\ beat \in [Runs -> Beat] /\ beat[r] \in Beating
        /\ UNCHANGED <<lock, pc, deliveries, rpc, rtoken>>
    BY <1>23 DEF BeatRow, TypeOK, RunsOK
  <2>2. pc[r] \notin Early
    BY <2>1 DEF Exclusion, FirstBeatIsNew, Beating
  <2>3. UnsentAreLater' /\ OneReaperPerRunner'
    BY <2>1 DEF Exclusion, UnsentAreLater, OneReaperPerRunner
  <2>4. CASE StillOurs(r)
    <3>1. PICK b \in {"renew", "off"} : beat' = [beat EXCEPT ![r] = b]
      BY <1>23, <2>4 DEF BeatRow
    <3>2. runner' = r /\ b \notin FirstBeat /\ (beat[r] \in FirstBeat \/ runner = r)
      BY <1>23, <2>4, <3>1 DEF BeatRow, FirstBeat, StillOurs
    <3>3. LockOrDisowned'
      BY <2>1, <3>1, <3>2 DEF Exclusion, LockOrDisowned
    <3>4. ClaimedRowHasRunner' /\ FirstBeatIsNew'
      BY <2>1, <2>2, <3>1, <3>2 DEF Exclusion, ClaimedRowHasRunner, FirstBeatIsNew, NoRun, Runs
    <3>5. ReapedTokenIsDead'
      BY <2>1, <3>1, <3>2 DEF Exclusion, ReapedTokenIsDead
    <3> QED BY <2>3, <3>3, <3>4, <3>5 DEF Exclusion
  <2>5. CASE ~StillOurs(r)
    <3>1. beat' = [beat EXCEPT ![r] = "off"] /\ UNCHANGED <<hb, runner>>
      BY <1>23, <2>5 DEF BeatRow
    <3> QED BY <2>1, <2>3, <3>1 DEF Exclusion, LockOrDisowned, ClaimedRowHasRunner,
            FirstBeatIsNew, ReapedTokenIsDead, FirstBeat
  <2> QED BY <2>4, <2>5
<1>24. ASSUME NEW r \in Runs, Crash(r) PROVE Exclusion'
  BY <1>24, ExclusionLeaves DEF Crash, Over, Beat, FirstBeat, Live, Setup, Working, InGraph, InStep
<1>25. ASSUME NEW r \in Runs, Wedge(r) PROVE Exclusion'
  BY <1>25, ExclusionElsewhere DEF Wedge
<1>26. ASSUME NEW r \in Runs, Unwedge(r) PROVE Exclusion'
  BY <1>26, ExclusionElsewhere DEF Unwedge
<1>27. ASSUME NEW r \in Runs, Redeliver(r) PROVE Exclusion'
  <2>1. CASE PublishFrom(r, "gone", attempt[r]) /\ pc[r] = "dead"
    BY <1>27, <2>1, <1>a, ExclusionPublishes DEF Redeliver, Over, PC
  <2>2. CASE PublishFrom(r, pc[r], attempt[r]) /\ pc[r] \in Live
    BY <1>27, <2>2, <1>a, ExclusionPublishes DEF Redeliver, Live, Setup, Working, InGraph, InStep
  <2> QED BY <1>27, <2>1, <2>2 DEF Redeliver
<1>28. ASSUME NEW w \in Reapers, ReapClaim(w) PROVE Exclusion'
  <2>1. /\ runner # NoRun /\ runner \in Runs /\ runner' = NoRun /\ hb' = "null"
        /\ rpc' = [rpc EXCEPT ![w] = "claimed"] /\ rtoken' = [rtoken EXCEPT ![w] = runner]
        /\ rtoken \in [Reapers -> Runs \cup {NoRun}] /\ DOMAIN rpc = Reapers
        /\ UNCHANGED <<lock, pc, beat, deliveries>>
    BY <1>28 DEF ReapClaim, ForgetRunner, Exclusion, ClaimedRowHasRunner, TypeOK, RowOK,
        RequestsOK
  <2>2. beat[runner] \notin FirstBeat /\ pc[runner] \notin Early
    BY <2>1 DEF Exclusion, FirstBeatIsNew
  <2>3. \A v \in Reapers : v # w /\ rpc[v] # "idle" => rtoken[v] # runner
    BY <2>1 DEF Exclusion, ReapedTokenIsDead
  <2>4. LockOrDisowned' /\ ClaimedRowHasRunner' /\ UnsentAreLater' /\ FirstBeatIsNew'
    BY <2>1 DEF Exclusion, LockOrDisowned, ClaimedRowHasRunner, UnsentAreLater,
        FirstBeatIsNew, NoRun, Runs
  <2>5. OneReaperPerRunner'
    BY <2>1, <2>3 DEF Exclusion, OneReaperPerRunner
  <2>6. ReapedTokenIsDead'
    BY <2>1, <2>2 DEF Exclusion, ReapedTokenIsDead, NoRun, Runs
  <2> QED BY <2>4, <2>5, <2>6 DEF Exclusion
<1>29. ASSUME NEW w \in Reapers, ReapUnlock(w) PROVE Exclusion'
  BY <1>29, ExclusionReaps DEF ReapUnlock
<1>30. ASSUME NEW w \in Reapers, ReapRequeue(w) PROVE Exclusion'
  BY <1>30, ExclusionReaps DEF ReapRequeue
<1>31. ASSUME NEW w \in Reapers, ReapEnqueue(w) PROVE Exclusion'
  <2>1. CASE Publish(0) /\ rpc' = [rpc EXCEPT ![w] = "idle"]
    <3>1. \A v \in Reapers : rpc'[v] # "idle" => rpc[v] # "idle"
      BY <2>1 DEF TypeOK, RequestsOK
    <3> QED BY <1>31, <2>1, <3>1, ExclusionQueues DEF ReapEnqueue
  <2>2. CASE rpc' = [rpc EXCEPT ![w] = "failing"] /\ UNCHANGED <<broker, pc>>
    BY <1>31, <2>2, ExclusionReaps DEF ReapEnqueue
  <2> QED BY <1>31, <2>1, <2>2 DEF ReapEnqueue
<1>32. ASSUME NEW w \in Reapers, ReapFail(w) PROVE Exclusion'
  BY <1>32, ExclusionReaps DEF ReapFail
<1>33. ASSUME NEW w \in Reapers, ReapSlot(w) PROVE Exclusion'
  BY <1>33, ExclusionReaps DEF ReapSlot
<1>34. ASSUME NEW w \in Reapers, ReaperCrash(w) PROVE Exclusion'
  BY <1>34, ExclusionReaps DEF ReaperCrash
<1>35. ASSUME NEW o \in Operators,
              \/ CancelGoal(o) \/ PersistCancel(o) \/ PauseGoal(o) \/ PersistPause(o)
              \/ ResumeGoal(o) \/ PersistResume(o) \/ RelaunchGoal(o)
              \/ EmergencyStop(o) \/ StopCancels(o) \/ BatchCancel(o) \/ PersistBatch(o)
       PROVE  Exclusion'
  <2>1. UNCHANGED <<lock, runner, hb, beat, pc, deliveries, rpc, rtoken>>
    BY <1>35 DEF CancelGoal, PersistCancel, PauseGoal, PersistPause, ResumeGoal,
        PersistResume, RelaunchGoal, EmergencyStop, StopCancels, BatchCancel, PersistBatch
  <2> QED BY <2>1, ExclusionElsewhere
<1>36. ASSUME NEW o \in Operators, EnqueueRelaunch(o) PROVE Exclusion'
  <2>1. CASE Publish(0)
    BY <1>36, <2>1, ExclusionQueues DEF EnqueueRelaunch
  <2>2. CASE UNCHANGED <<broker, pc>>
    BY <1>36, <2>2, ExclusionElsewhere DEF EnqueueRelaunch
  <2> QED BY <1>36, <2>1, <2>2 DEF EnqueueRelaunch
<1>37. CASE BeatGoesStale
  BY <1>37 DEF BeatGoesStale, Exclusion, LockOrDisowned, OneReaperPerRunner,
      ClaimedRowHasRunner, UnsentAreLater, FirstBeatIsNew, ReapedTokenIsDead
<1>38. CASE LockExpires
  <2>1. /\ lock \in Runs /\ pc[lock] \in Over /\ lock' = NoRun
        /\ UNCHANGED <<runner, hb, beat, pc, deliveries, rpc, rtoken>>
    BY <1>38 DEF LockExpires, TypeOK, RedisOK
  <2>2. Over \cap (Setup \cup Working) = {}
    BY DEF Over, Setup, Working, InGraph, InStep
  <2>3. LockOrDisowned'
    BY <2>1, <2>2 DEF Exclusion, LockOrDisowned
  <2> QED BY <2>1, <2>3 DEF Exclusion, OneReaperPerRunner, ClaimedRowHasRunner,
          UnsentAreLater, FirstBeatIsNew, ReapedTokenIsDead
<1>39. CASE DeadLetter \/ DetectStuck \/ RejectSuspended \/ LiftStop \/ UNCHANGED vars
  <2>1. UNCHANGED <<lock, runner, hb, beat, pc, deliveries, rpc, rtoken>>
    BY <1>39 DEF DeadLetter, DetectStuck, RejectSuspended, LiftStop, vars
  <2> QED BY <2>1, ExclusionElsewhere
<1> QED
  BY <1>1, <1>2, <1>3, <1>4, <1>5, <1>6, <1>7, <1>8, <1>9, <1>10a,
     <1>10b, <1>10c, <1>10d, <1>10e, <1>11, <1>12, <1>13,
     <1>14, <1>15, <1>16, <1>17, <1>18, <1>19, <1>20, <1>21, <1>22, <1>23, <1>24,
     <1>25, <1>26, <1>27, <1>28, <1>29, <1>30, <1>31, <1>32, <1>33, <1>34, <1>35,
     <1>36, <1>37, <1>38, <1>39
     DEF Next, RunStep, WorkerFault, ReapStep, OperatorStep

(***************************************************************************)
(* The goal table: every write is one GoalLifecycle allows.                *)
(***************************************************************************)

\* The conditional UPDATE is a transition of the table, or leaves the row alone.
LEMMA WrittenStep ==
    ASSUME NEW old \in Status, NEW s \in Status, Written(old, s) # old
    PROVE  old \in ACTIVE_STATUSES /\ Written(old, s) = s
  BY DEF Written, allowed_predecessors, is_valid_transition

\* Every step leaves the status alone or moves an active goal on.
LEMMA StatusStep ==
    TypeOK /\ [Next]_vars =>
        status' = status \/ (status \in ACTIVE_STATUSES /\ status' \in Status)
<1> SUFFICES ASSUME TypeOK, [Next]_vars, status' # status
             PROVE  status \in ACTIVE_STATUSES /\ status' \in Status
  OBVIOUS
<1> USE DEF row, RowButStatus
<1>a. status \in Status /\ status' \in Status
  BY TypeStep DEF TypeOK, RowOK
<1>b. ASSUME NEW s \in Status, SetStatus(s) PROVE status \in ACTIVE_STATUSES
  BY <1>a, <1>b, WrittenStep DEF SetStatus
<1>c. \A s \in {"cancelled", "failed", "complete", "executing", "waiting_human"} : s \in Status
  BY DEF Status
<1>d. \A s \in RUNNING_STATUSES : s \in ACTIVE_STATUSES
  BY DEF RUNNING_STATUSES, ACTIVE_STATUSES, Status, TERMINAL_STATUSES
<1>1. ASSUME NEW r \in Runs, StartBlocked(r) PROVE status \in ACTIVE_STATUSES
  BY <1>1, <1>b, <1>c DEF StartBlocked
<1>2. ASSUME NEW r \in Runs, LockUnavailable(r) \/ ClaimError(r) \/ SetupFailed(r) \/ FailRun(r)
      PROVE  status \in ACTIVE_STATUSES
  BY <1>2, <1>b, <1>c DEF LockUnavailable, ClaimError, SetupFailed, FailRun, WorkerWrites
<1>3. ASSUME NEW r \in Runs, Claim(r) PROVE status \in ACTIVE_STATUSES
  BY <1>3, <1>a DEF Claim, NotClaimable, ACTIVE_STATUSES
<1>4. ASSUME NEW r \in Runs, MarkStarted(r) PROVE status \in ACTIVE_STATUSES
  BY <1>4, <1>b, <1>c DEF MarkStarted, WorkerWrites
<1>5. ASSUME NEW r \in Runs, NEW s \in {"complete", "failed", "waiting_human"}, RecordEnd(r, s)
      PROVE  status \in ACTIVE_STATUSES
  BY <1>5, <1>b, <1>c DEF RecordEnd, WorkerWrites
<1>6. ASSUME NEW r \in Runs, CancelledEarly(r) \/ Cancelled(r) PROVE status \in ACTIVE_STATUSES
  BY <1>6, <1>b, <1>c DEF CancelledEarly, Cancelled, WorkerWrites
<1>7. ASSUME NEW w \in Reapers, ReapRequeue(w) \/ ReapFail(w) PROVE status \in ACTIVE_STATUSES
  BY <1>7, <1>d DEF ReapRequeue, ReapFail
<1>8. ASSUME NEW o \in Operators, PersistCancel(o) PROVE status \in ACTIVE_STATUSES
  <2>1. (IF op[o] = "cancel" THEN "cancelled" ELSE "failed") \in Status
    BY <1>c
  <2> QED BY <1>8, <1>b, <2>1 DEF PersistCancel
<1>9. ASSUME NEW o \in Operators,
             \/ PersistPause(o) \/ PersistResume(o) \/ RelaunchGoal(o) \/ EnqueueRelaunch(o)
             \/ PersistBatch(o)
      PROVE  status \in ACTIVE_STATUSES
  BY <1>9, <1>b, <1>c DEF PersistPause, PersistResume, RelaunchGoal, EnqueueRelaunch,
      PersistBatch
<1>10. CASE DeadLetter \/ DetectStuck \/ RejectSuspended
  <2>1. CASE DeadLetter
    BY <2>1, <1>a DEF DeadLetter, ACTIVE_STATUSES, TERMINAL_STATUSES
  <2>2. CASE DetectStuck
    BY <2>2, <1>a, <1>d DEF DetectStuck, IsStuck
  <2>3. CASE RejectSuspended
    BY <2>3, <1>a, <1>b, <1>c DEF RejectSuspended
  <2> QED BY <1>10, <2>1, <2>2, <2>3
<1>11. ASSUME NEW r \in Runs,
              \/ StartRetry(r) \/ AcquireLock(r) \/ StartHeartbeat(r)
              \/ EnterGraph(r) \/ StepGate(r) \/ PauseEnds(r) \/ LedgerCheck(r)
              \/ ToolCall(r) \/ ToolEvent(r) \/ ToolRecord(r) \/ StepEnds(r)
              \/ MarkSuspended(r) \/ RunError(r) \/ RetryRun(r) \/ CloseRun(r)
              \/ ReleaseRun(r) \/ BeatRow(r) \/ WorkerFault(r)
       PROVE  FALSE
  BY <1>11 DEF StartRetry, AcquireLock, StartHeartbeat, EnterGraph, StepGate, PauseEnds,
      LedgerCheck, ToolCall, ToolEvent, ToolRecord, StepEnds, MarkSuspended, RunError,
      RetryRun, CloseRun, ReleaseRun, BeatRow,
      WorkerFault, Crash, Wedge, Unwedge, Redeliver
<1>12. ASSUME NEW w \in Reapers,
              \/ ReapClaim(w) \/ ReapUnlock(w) \/ ReapEnqueue(w) \/ ReapSlot(w)
              \/ ReaperCrash(w)
       PROVE  FALSE
  BY <1>12 DEF ReapClaim, ReapUnlock, ReapEnqueue, ReapSlot, ReaperCrash
<1>13. ASSUME NEW o \in Operators,
              \/ CancelGoal(o) \/ PauseGoal(o) \/ ResumeGoal(o)
              \/ EmergencyStop(o) \/ StopCancels(o) \/ BatchCancel(o)
       PROVE  FALSE
  BY <1>13 DEF CancelGoal, PauseGoal, ResumeGoal, EmergencyStop, StopCancels, BatchCancel
<1>14. CASE BeatGoesStale \/ LockExpires \/ LiftStop \/ UNCHANGED vars
  BY <1>14 DEF BeatGoesStale, LockExpires, LiftStop, vars
<1> QED
  BY <1>a, <1>1, <1>2, <1>3, <1>4, <1>5, <1>6, <1>7, <1>8, <1>9, <1>10, <1>11, <1>12,
     <1>13, <1>14
     DEF Next, RunStep, ReapStep, OperatorStep

(***************************************************************************)
(* The theorems.                                                           *)
(***************************************************************************)

\* A goal just submitted is well-formed.
LEMMA InitType == Init => TypeOK
<1> SUFFICES ASSUME Init PROVE TypeOK
  OBVIOUS
<1>1. RowOK /\ RedisOK /\ RunsOK
  BY ConstantsAssumption DEF Init, RowOK, RedisOK, RunsOK, Status, Runs, NoRun, PC, Beat
<1>2. RequestsOK
  BY ConstantsAssumption DEF Init, RequestsOK, NoRun, Requests
<1> QED BY <1>1, <1>2 DEF TypeOK

\* Type correctness: no worker, watchdog or operator ever writes a status outside the
\* table, a token that is no run's, or a negative counter.
THEOREM TypeCorrect == Spec => []TypeOK
<1>1. TypeOK /\ [Next]_vars => TypeOK'
  BY TypeStep
<1> QED BY <1>1, InitType, PTL DEF Spec

\* A goal just submitted has no runner yet.
LEMMA InitExclusion == Init => Exclusion
  BY DEF Init, Exclusion, LockOrDisowned, OneReaperPerRunner, ClaimedRowHasRunner,
      UnsentAreLater, FirstBeatIsNew, ReapedTokenIsDead, Early, Setup, Working, InGraph, InStep,
      FirstBeat, Runs, NoRun

\* For any number of deliveries, reapers, operators, faults and retries: a run that is
\* still working holds goal_lock or has lost the row for good.
THEOREM LockExcludes == Spec => []LockOrDisowned
<1>1. TypeOK /\ Exclusion /\ [Next]_vars => Exclusion'
  BY ExclusionStep
<1>2. Exclusion => LockOrDisowned
  BY DEF Exclusion
<1> QED BY <1>1, <1>2, InitExclusion, TypeCorrect, PTL DEF Spec

\* For any number of overlapping reap_stale_goal_runners tasks: no two of them handle the
\* same lost runner.
THEOREM ReapersExclude == Spec => []OneReaperPerRunner
<1>1. TypeOK /\ Exclusion /\ [Next]_vars => Exclusion'
  BY ExclusionStep
<1>2. Exclusion => OneReaperPerRunner
  BY DEF Exclusion
<1> QED BY <1>1, <1>2, InitExclusion, TypeCorrect, PTL DEF Spec

\* GoalRunner implements GoalLifecycle: every write to the row, by whichever of the dozen
\* UPDATE statements, is a transition of the table, and a terminal status is final.
THEOREM RunnerImplementsLifecycle == Spec => ImplementsLifecycle
<1>1. Init => Lifecycle!Init
  BY DEF Init, Lifecycle!Init
<1>2. TypeOK /\ [Next]_vars => [Lifecycle!Next]_status
  <2> SUFFICES ASSUME TypeOK, [Next]_vars, status' # status PROVE Lifecycle!Next
    OBVIOUS
  <2>1. status \in ACTIVE_STATUSES /\ status' \in Status
    BY StatusStep
  <2>2. status \in allowed_predecessors(status')
    BY <2>1 DEF allowed_predecessors, is_valid_transition, ACTIVE_STATUSES
  <2> QED BY <2>1, <2>2 DEF Lifecycle!Next, Lifecycle!Write, Lifecycle!Status, Status,
            Lifecycle!allowed_predecessors, allowed_predecessors,
            Lifecycle!is_valid_transition, is_valid_transition, Lifecycle!ACTIVE_STATUSES,
            ACTIVE_STATUSES, Lifecycle!TERMINAL_STATUSES, TERMINAL_STATUSES
<1> QED BY <1>1, <1>2, TypeCorrect, PTL DEF Spec, ImplementsLifecycle, Lifecycle!Spec

(***************************************************************************)
(* The concurrency slot.                                                   *)
(***************************************************************************)

\* An end, once recorded, stays: events are only appended, terminal statuses are final.
LEMMA EndStays ==
    TypeOK /\ [Next]_vars =>
        /\ events \subseteq events'
        /\ status \in TERMINAL_STATUSES => status' \in TERMINAL_STATUSES
<1> SUFFICES ASSUME TypeOK, [Next]_vars
             PROVE  /\ events \subseteq events'
                    /\ status \in TERMINAL_STATUSES => status' \in TERMINAL_STATUSES
  OBVIOUS
<1>1. status \in TERMINAL_STATUSES => status' \in TERMINAL_STATUSES
  BY StatusStep DEF ACTIVE_STATUSES
<1>2. events \subseteq events'
  <2>1. ASSUME NEW r \in Runs, RunStep(r) PROVE events \subseteq events'
    BY <2>1 DEF RunStep, StartBlocked, StartRetry, AcquireLock, LockUnavailable, Claim,
        ClaimError, MarkStarted, SetupFailed, StartHeartbeat, EnterGraph, StepGate,
        PauseEnds, LedgerCheck, ToolCall, ToolEvent, ToolRecord, StepEnds, RecordEnd,
        MarkSuspended, CancelledEarly, Cancelled,
        RunError, FailRun, RetryRun, CloseRun, ReleaseRun
  <2>2. ASSUME NEW r \in Runs, BeatRow(r) \/ WorkerFault(r) PROVE events \subseteq events'
    BY <2>2 DEF BeatRow, WorkerFault, Crash, Wedge, Unwedge, Redeliver
  <2>3. ASSUME NEW w \in Reapers, ReapStep(w) \/ ReaperCrash(w) PROVE events \subseteq events'
    BY <2>3 DEF ReapStep, ReapClaim, ReapUnlock, ReapRequeue, ReapEnqueue, ReapFail,
        ReapSlot, ReaperCrash
  <2>4. ASSUME NEW o \in Operators, OperatorStep(o) PROVE events \subseteq events'
    BY <2>4 DEF OperatorStep, CancelGoal, PersistCancel, PauseGoal, PersistPause,
        ResumeGoal, PersistResume, RelaunchGoal, EnqueueRelaunch, EmergencyStop,
        StopCancels, BatchCancel, PersistBatch
  <2>5. CASE \/ DeadLetter \/ BeatGoesStale \/ LockExpires \/ DetectStuck
             \/ RejectSuspended \/ LiftStop \/ UNCHANGED vars
    BY <2>5 DEF DeadLetter, BeatGoesStale, LockExpires, DetectStuck, RejectSuspended,
        LiftStop, vars
  <2> QED BY <2>1, <2>2, <2>3, <2>4, <2>5 DEF Next
<1> QED BY <1>1, <1>2

\* A terminal status that is written and not lost ends the goal, if it was not over.
LEMMA WrittenEnds ==
    ASSUME NEW old \in Status, NEW s \in TERMINAL_STATUSES
    PROVE  Written(old, s) \in TERMINAL_STATUSES
  BY DEF Written, allowed_predecessors, is_valid_transition, Status, ACTIVE_STATUSES,
      TERMINAL_STATUSES

\* As long as no status write of a worker is lost, every step preserves SlotOrder.
LEMMA SlotOrderStep ==
    ASSUME LostWrites = FALSE
    PROVE  TypeOK /\ SlotOrder /\ [Next]_vars => SlotOrder'
<1> SUFFICES ASSUME TypeOK, SlotOrder, [Next]_vars PROVE SlotOrder'
  OBVIOUS
<1> USE DEF SlotOrder, SlotWhileUnfinished, row, redis, broker, threads, reapers, operator,
            RowButStatus
<1>a. /\ events \subseteq events'
      /\ status \in TERMINAL_STATUSES => status' \in TERMINAL_STATUSES
      /\ pc \in [Runs -> PC] /\ status \in Status
      /\ rpc \in [Reapers -> {"idle", "claimed", "unlocked", "moved", "failing", "failed"}]
      /\ op \in [Operators -> Requests]
  BY EndStays DEF TypeOK, RunsOK, RowOK, RequestsOK
<1>b. ASSUME NEW r \in Runs, NEW to, NEW n, PublishFrom(r, to, n),
             to # "closing" \/ to = pc[r]
      PROVE  \A x \in Runs : pc'[x] = "closing" => pc[x] = "closing"
  BY <1>b, <1>a DEF PublishFrom
<1>c. ASSUME NEW n, Publish(n)
      PROVE  \A x \in Runs : pc'[x] = "closing" => pc[x] = "closing"
  BY <1>c, <1>a DEF Publish
<1>1. ASSUME NEW r \in Runs, StartBlocked(r) PROVE SlotOrder'
  <2>1. "slot" \in keys => "slot" \in keys' \/ status' \in TERMINAL_STATUSES
    BY <1>1, <1>a, WrittenEnds DEF StartBlocked, SetStatus, TERMINAL_STATUSES
  <2> QED BY <1>1, <1>a, <2>1 DEF StartBlocked, Goto
<1>2. ASSUME NEW r \in Runs, StartRetry(r) PROVE SlotOrder'
  BY <1>2, <1>a, <1>b DEF StartRetry
<1>3. ASSUME NEW r \in Runs, AcquireLock(r) PROVE SlotOrder'
  BY <1>3, <1>a DEF AcquireLock, Goto
<1>4. ASSUME NEW r \in Runs, LockUnavailable(r) PROVE SlotOrder'
  BY <1>4, <1>a DEF LockUnavailable, Goto
<1>5. ASSUME NEW r \in Runs, Claim(r) PROVE SlotOrder'
  BY <1>5, <1>a DEF Claim, At, Goto
<1>6. ASSUME NEW r \in Runs, ClaimError(r) PROVE SlotOrder'
  BY <1>6, <1>a, <1>b DEF ClaimError, At, Goto
<1>7. ASSUME NEW r \in Runs, MarkStarted(r) PROVE SlotOrder'
  BY <1>7, <1>a DEF MarkStarted, At, Goto
<1>8. ASSUME NEW r \in Runs, SetupFailed(r) PROVE SlotOrder'
  BY <1>8, <1>a DEF SetupFailed, At, Goto
<1>9. ASSUME NEW r \in Runs, StartHeartbeat(r) PROVE SlotOrder'
  BY <1>9, <1>a DEF StartHeartbeat, At, Goto
<1>10a. ASSUME NEW r \in Runs, EnterGraph(r) PROVE SlotOrder'
  BY <1>10a, <1>a DEF EnterGraph, At, Goto
<1>10b. ASSUME NEW r \in Runs, StepGate(r) PROVE SlotOrder'
  BY <1>10b, <1>a DEF StepGate, At, Goto
<1>10c. ASSUME NEW r \in Runs, PauseEnds(r) PROVE SlotOrder'
  BY <1>10c, <1>a DEF PauseEnds, At, Goto
<1>10d. ASSUME NEW r \in Runs, LedgerCheck(r) PROVE SlotOrder'
  BY <1>10d, <1>a DEF LedgerCheck, At, Goto
<1>10e. ASSUME NEW r \in Runs, StepEnds(r) PROVE SlotOrder'
  BY <1>10e, <1>a DEF StepEnds, At, Goto
<1>11. ASSUME NEW r \in Runs, ToolCall(r) PROVE SlotOrder'
  BY <1>11, <1>a DEF ToolCall, At, Goto
<1>12. ASSUME NEW r \in Runs, ToolEvent(r) PROVE SlotOrder'
  BY <1>12, <1>a DEF ToolEvent, At, Goto
<1>13. ASSUME NEW r \in Runs, ToolRecord(r) PROVE SlotOrder'
  BY <1>13, <1>a DEF ToolRecord, At, Goto
<1>14. ASSUME NEW r \in Runs, NEW s \in {"complete", "failed", "waiting_human"},
              RecordEnd(r, s)
       PROVE  SlotOrder'
  BY <1>14, <1>a DEF RecordEnd, At, Goto
<1>15. ASSUME NEW r \in Runs, MarkSuspended(r) PROVE SlotOrder'
  BY <1>15, <1>a DEF MarkSuspended, At, Goto
<1>16. ASSUME NEW r \in Runs, CancelledEarly(r) PROVE SlotOrder'
  <2>1. status' \in TERMINAL_STATUSES
    BY <1>16, <1>a, WrittenEnds DEF CancelledEarly, WorkerWrites, SetStatus, TERMINAL_STATUSES
  <2> QED BY <1>16, <1>a, <2>1 DEF CancelledEarly, At, Goto
<1>17. ASSUME NEW r \in Runs, Cancelled(r) PROVE SlotOrder'
  BY <1>17, <1>a DEF Cancelled, At, Goto
<1>18. ASSUME NEW r \in Runs, RunError(r) PROVE SlotOrder'
  BY <1>18, <1>a DEF RunError, At, Goto
<1>19. ASSUME NEW r \in Runs, FailRun(r) PROVE SlotOrder'
  BY <1>19, <1>a DEF FailRun, At, Goto
<1>20. ASSUME NEW r \in Runs, RetryRun(r) PROVE SlotOrder'
  BY <1>20, <1>a, <1>b DEF RetryRun, At
<1>21. ASSUME NEW r \in Runs, CloseRun(r) PROVE SlotOrder'
  BY <1>21, <1>a DEF CloseRun, At, Goto
<1>22. ASSUME NEW r \in Runs, ReleaseRun(r) PROVE SlotOrder'
  BY <1>22, <1>a DEF ReleaseRun, At, Goto
<1>23. ASSUME NEW r \in Runs, BeatRow(r) PROVE SlotOrder'
  BY <1>23, <1>a DEF BeatRow
<1>24. ASSUME NEW r \in Runs, Crash(r) PROVE SlotOrder'
  BY <1>24, <1>a DEF Crash, Goto
<1>25. ASSUME NEW r \in Runs, Wedge(r) PROVE SlotOrder'
  BY <1>25, <1>a DEF Wedge
<1>26. ASSUME NEW r \in Runs, Unwedge(r) PROVE SlotOrder'
  BY <1>26, <1>a DEF Unwedge
<1>27. ASSUME NEW r \in Runs, Redeliver(r) PROVE SlotOrder'
  BY <1>27, <1>a, <1>b DEF Redeliver
<1>28. ASSUME NEW w \in Reapers, ReapClaim(w) PROVE SlotOrder'
  BY <1>28, <1>a DEF ReapClaim
<1>29. ASSUME NEW w \in Reapers, ReapUnlock(w) PROVE SlotOrder'
  BY <1>29, <1>a DEF ReapUnlock
<1>30. ASSUME NEW w \in Reapers, ReapRequeue(w) PROVE SlotOrder'
  BY <1>30, <1>a DEF ReapRequeue
<1>31. ASSUME NEW w \in Reapers, ReapEnqueue(w) PROVE SlotOrder'
  BY <1>31, <1>a, <1>c DEF ReapEnqueue
<1>32. ASSUME NEW w \in Reapers, ReapFail(w) PROVE SlotOrder'
  <2>1. rpc'[w] = "failed" => status' \in TERMINAL_STATUSES
    BY <1>32, <1>a DEF ReapFail, TERMINAL_STATUSES
  <2> QED BY <1>32, <1>a, <2>1 DEF ReapFail
<1>33. ASSUME NEW w \in Reapers, ReapSlot(w) PROVE SlotOrder'
  BY <1>33, <1>a DEF ReapSlot
<1>34. ASSUME NEW w \in Reapers, ReaperCrash(w) PROVE SlotOrder'
  BY <1>34, <1>a DEF ReaperCrash
<1>35. ASSUME NEW o \in Operators, CancelGoal(o) PROVE SlotOrder'
  BY <1>35, <1>a DEF CancelGoal, Request
<1>36. ASSUME NEW o \in Operators, PersistCancel(o) PROVE SlotOrder'
  BY <1>36, <1>a DEF PersistCancel, Answer
<1>37. ASSUME NEW o \in Operators, PauseGoal(o) PROVE SlotOrder'
  BY <1>37, <1>a DEF PauseGoal, Request
<1>38. ASSUME NEW o \in Operators, PersistPause(o) PROVE SlotOrder'
  BY <1>38, <1>a DEF PersistPause, Answer
<1>39. ASSUME NEW o \in Operators, ResumeGoal(o) PROVE SlotOrder'
  BY <1>39, <1>a DEF ResumeGoal, Request
<1>40. ASSUME NEW o \in Operators, PersistResume(o) PROVE SlotOrder'
  BY <1>40, <1>a DEF PersistResume, Answer
<1>41. ASSUME NEW o \in Operators, RelaunchGoal(o) PROVE SlotOrder'
  BY <1>41, <1>a DEF RelaunchGoal, Request
<1>42. ASSUME NEW o \in Operators, EnqueueRelaunch(o) PROVE SlotOrder'
  BY <1>42, <1>a, <1>c DEF EnqueueRelaunch, Answer
<1>43. CASE DeadLetter
  BY <1>43, <1>a DEF DeadLetter
<1>44. CASE BeatGoesStale
  BY <1>44, <1>a DEF BeatGoesStale
<1>45. CASE LockExpires
  BY <1>45, <1>a DEF LockExpires
<1>46. CASE DetectStuck
  BY <1>46, <1>a DEF DetectStuck
<1>47. CASE RejectSuspended
  BY <1>47, <1>a DEF RejectSuspended
<1>48. CASE LiftStop
  BY <1>48, <1>a DEF LiftStop
<1>49. CASE UNCHANGED vars
  BY <1>49 DEF vars
<1>50. ASSUME NEW o \in Operators, EmergencyStop(o) PROVE SlotOrder'
  BY <1>50, <1>a DEF EmergencyStop, Request
<1>51. ASSUME NEW o \in Operators, StopCancels(o) PROVE SlotOrder'
  BY <1>51, <1>a DEF StopCancels
<1>52. ASSUME NEW o \in Operators, BatchCancel(o) PROVE SlotOrder'
  BY <1>52, <1>a DEF BatchCancel
<1>53. ASSUME NEW o \in Operators, PersistBatch(o) PROVE SlotOrder'
  BY <1>53, <1>a DEF PersistBatch, Answer
<1> QED
  BY <1>1, <1>2, <1>3, <1>4, <1>5, <1>6, <1>7, <1>8, <1>9, <1>10a,
     <1>10b, <1>10c, <1>10d, <1>10e, <1>11, <1>12,
     <1>13, <1>14, <1>15, <1>16, <1>17, <1>18, <1>19, <1>20, <1>21, <1>22, <1>23,
     <1>24, <1>25, <1>26, <1>27, <1>28, <1>29, <1>30, <1>31, <1>32, <1>33, <1>34,
     <1>35, <1>36, <1>37, <1>38, <1>39, <1>40, <1>41, <1>42, <1>43, <1>44, <1>45,
     <1>46, <1>47, <1>48, <1>49, <1>50, <1>51, <1>52, <1>53
     DEF Next, RunStep, WorkerFault, ReapStep, OperatorStep


\* A goal just submitted has its slot.
LEMMA InitSlotOrder == Init => SlotOrder
  BY DEF Init, SlotOrder, SlotWhileUnfinished

\* While no status write is lost, the tenant's slot is freed only once the goal has ended.
THEOREM SlotOutlivesGoal == ASSUME LostWrites = FALSE PROVE Spec => []SlotWhileUnfinished
<1>1. TypeOK /\ SlotOrder /\ [Next]_vars => SlotOrder'
  BY SlotOrderStep
<1>2. SlotOrder => SlotWhileUnfinished
  BY DEF SlotOrder
<1> QED BY <1>1, <1>2, InitSlotOrder, TypeCorrect, PTL DEF Spec

(***************************************************************************)
(* A confirmed cancel.                                                     *)
(***************************************************************************)

\* Only operators withdraw a cancel, and nobody but them lifts a stop: the runs, the
\* watchdogs and the dead-letter handler leave both flags and every request alone.
LEMMA OthersKeepFlags ==
    ASSUME ~StopLifted, [Next]_vars
    PROVE  \/ /\ UNCHANGED <<op, confirmed>>
              /\ keys \cap {"cancel", "stop"} \subseteq keys'
           \/ \E o \in Operators : OperatorStep(o)
<1> USE DEF row, redis, broker, threads, reapers, operator, NoFault
<1> DEFINE Quiet == /\ UNCHANGED <<op, confirmed>>
                    /\ keys \cap {"cancel", "stop"} \subseteq keys'
<1>1. ASSUME NEW r \in Runs,
             \/ StartBlocked(r) \/ StartRetry(r) \/ AcquireLock(r) \/ LockUnavailable(r)
             \/ Claim(r) \/ ClaimError(r) \/ MarkStarted(r) \/ SetupFailed(r)
             \/ StartHeartbeat(r)
      PROVE  Quiet
  BY <1>1 DEF StartBlocked, StartRetry, AcquireLock, LockUnavailable, Claim, ClaimError,
      MarkStarted, SetupFailed, StartHeartbeat
<1>2. ASSUME NEW r \in Runs,
             \/ EnterGraph(r) \/ StepGate(r) \/ PauseEnds(r) \/ LedgerCheck(r)
             \/ ToolCall(r) \/ ToolEvent(r) \/ ToolRecord(r) \/ StepEnds(r)
             \/ \E s \in {"complete", "failed", "waiting_human"} : RecordEnd(r, s)
             \/ MarkSuspended(r) \/ CancelledEarly(r) \/ Cancelled(r)
             \/ RunError(r) \/ FailRun(r) \/ RetryRun(r) \/ CloseRun(r) \/ ReleaseRun(r)
      PROVE  Quiet
  BY <1>2 DEF EnterGraph, StepGate, PauseEnds, LedgerCheck, ToolCall, ToolEvent,
      ToolRecord, StepEnds, RecordEnd, MarkSuspended,
      CancelledEarly, Cancelled, RunError, FailRun, RetryRun, CloseRun, ReleaseRun
<1>3. ASSUME NEW r \in Runs, BeatRow(r) \/ WorkerFault(r) PROVE Quiet
  BY <1>3 DEF BeatRow, WorkerFault, Crash, Wedge, Unwedge, Redeliver
<1>4. ASSUME NEW w \in Reapers, ReapStep(w) \/ ReaperCrash(w) PROVE Quiet
  BY <1>4 DEF ReapStep, ReapClaim, ReapUnlock, ReapRequeue, ReapEnqueue, ReapFail,
      ReapSlot, ReaperCrash
<1>5. CASE \/ DeadLetter \/ BeatGoesStale \/ LockExpires \/ DetectStuck
           \/ RejectSuspended \/ LiftStop \/ UNCHANGED vars
  BY <1>5 DEF DeadLetter, BeatGoesStale, LockExpires, DetectStuck, RejectSuspended,
      LiftStop, vars
<1> QED BY <1>1, <1>2, <1>3, <1>4, <1>5 DEF Next, RunStep

\* A step begins only behind the gate: at the end of a pause, or with neither flag set.
LEMMA OnlyGateSteps ==
    ASSUME TypeOK, Next, NEW r \in Runs, pc[r] \in {"running", "paused"},
           pc'[r] = "stepping"
    PROVE  GateOpen \/ (pc[r] = "paused" /\ "cancel" \notin keys)
<1> USE DEF reapers, broker, threads
<1>a. pc \in [Runs -> PC]
  BY DEF TypeOK, RunsOK
<1>b. ASSUME NEW q \in Runs, NEW to, Goto(q, to),
             to # "stepping" \/ pc[q] \notin {"running", "paused"}
      PROVE  FALSE
  BY <1>b, <1>a DEF Goto
<1>c. ASSUME NEW q \in Runs, NEW to, NEW n, PublishFrom(q, to, n), to # "stepping" \/ to = pc[q]
      PROVE  FALSE
  BY <1>c, <1>a DEF PublishFrom
<1>d. ASSUME NEW n, Publish(n) PROVE FALSE
  BY <1>d, <1>a DEF Publish
<1>e. UNCHANGED pc => FALSE
  OBVIOUS
<1>1. ASSUME NEW q \in Runs,
             \/ StartBlocked(q) \/ StartRetry(q) \/ AcquireLock(q) \/ LockUnavailable(q)
             \/ Claim(q) \/ ClaimError(q) \/ MarkStarted(q) \/ SetupFailed(q)
             \/ StartHeartbeat(q)
      PROVE  FALSE
  BY <1>1, <1>b, <1>c DEF StartBlocked, StartRetry, AcquireLock, LockUnavailable, Claim,
      ClaimError, MarkStarted, SetupFailed, StartHeartbeat
<1>2. ASSUME NEW q \in Runs,
             \/ EnterGraph(q) \/ LedgerCheck(q)
             \/ ToolCall(q) \/ ToolEvent(q) \/ ToolRecord(q) \/ StepEnds(q)
             \/ \E s \in {"complete", "failed", "waiting_human"} : RecordEnd(q, s)
             \/ MarkSuspended(q) \/ CancelledEarly(q) \/ Cancelled(q)
             \/ RunError(q) \/ FailRun(q) \/ RetryRun(q) \/ CloseRun(q) \/ ReleaseRun(q)
      PROVE  FALSE
  BY <1>2, <1>b, <1>c DEF At, EnterGraph, LedgerCheck, ToolCall, ToolEvent, ToolRecord,
      StepEnds, RecordEnd, MarkSuspended, CancelledEarly, Cancelled, RunError, FailRun,
      RetryRun, CloseRun, ReleaseRun
<1>3. ASSUME NEW q \in Runs, BeatRow(q) \/ WorkerFault(q) PROVE FALSE
  BY <1>3, <1>b, <1>c, <1>e DEF BeatRow, WorkerFault, Crash, Wedge, Unwedge, Redeliver
<1>4. ASSUME NEW w \in Reapers, ReapStep(w) \/ ReaperCrash(w) PROVE FALSE
  BY <1>4, <1>d, <1>e DEF ReapStep, ReapClaim, ReapUnlock, ReapRequeue, ReapEnqueue,
      ReapFail, ReapSlot, ReaperCrash
<1>5. ASSUME NEW o \in Operators, OperatorStep(o) PROVE FALSE
  BY <1>5, <1>d, <1>e DEF OperatorStep, CancelGoal, PersistCancel, PauseGoal, PersistPause,
      ResumeGoal, PersistResume, RelaunchGoal, EnqueueRelaunch, EmergencyStop, StopCancels,
      BatchCancel, PersistBatch
<1>6. CASE \/ DeadLetter \/ BeatGoesStale \/ LockExpires \/ DetectStuck
           \/ RejectSuspended \/ LiftStop
  BY <1>6, <1>e DEF DeadLetter, BeatGoesStale, LockExpires, DetectStuck, RejectSuspended,
      LiftStop
<1>7. ASSUME NEW q \in Runs, StepGate(q) PROVE GateOpen
  BY <1>7 DEF StepGate
<1>8. ASSUME NEW q \in Runs, PauseEnds(q) PROVE pc[r] = "paused" /\ "cancel" \notin keys
  BY <1>8, <1>a DEF PauseEnds, At, Goto
<1> QED BY <1>1, <1>2, <1>3, <1>4, <1>5, <1>6, <1>7, <1>8 DEF Next, RunStep

\* A row that may be written to "cancelled" is, by an operator's write.
LEMMA CancelWritten ==
    ASSUME NEW old \in ACTIVE_STATUSES
    PROVE  Written(old, "cancelled") = "cancelled"
  BY DEF Written, allowed_predecessors, is_valid_transition, Status, ACTIVE_STATUSES,
      TERMINAL_STATUSES

\* With one request at a time and a stop that stays, every step preserves CancelStands:
\* the only requests that withdraw a cancel flag found the goal unfinished, and there is
\* none of them left when a cancel is confirmed.
LEMMA CancelStep ==
    ASSUME \A o, p \in Operators : o = p, ~StopLifted
    PROVE  TypeOK /\ CancelStands /\ [Next]_vars => CancelStands'
<1> SUFFICES ASSUME TypeOK, CancelStands, [Next]_vars PROVE CancelStands'
  OBVIOUS
<1>a. /\ status \in Status /\ op \in [Operators -> Requests] /\ confirmed \in BOOLEAN
      /\ keys \subseteq {"cancel", "pause", "stop", "slot", "ledger"}
  BY DEF TypeOK, RowOK, RedisOK, RequestsOK
<1>b. status = "cancelled" => status' = "cancelled"
  BY StatusStep DEF ACTIVE_STATUSES, TERMINAL_STATUSES
<1>c. confirmed => status \notin ACTIVE_STATUSES
  BY DEF CancelStands, ACTIVE_STATUSES, TERMINAL_STATUSES
<1>d. "waiting_human" \in ACTIVE_STATUSES /\ RUNNING_STATUSES \subseteq ACTIVE_STATUSES
  BY DEF ACTIVE_STATUSES, TERMINAL_STATUSES, RUNNING_STATUSES, Status
<1>1. CASE UNCHANGED <<op, confirmed>> /\ keys \cap {"cancel", "stop"} \subseteq keys'
  BY <1>1, <1>b DEF CancelStands
<1>2. ASSUME NEW o \in Operators, OperatorStep(o) PROVE CancelStands'
  <2>a. \A p \in Operators : p = o
    OBVIOUS
  <2>1. CASE CancelGoal(o)
    BY <2>1, <2>a, <1>a, <1>c, <1>d DEF CancelGoal, Request, CancelStands
  <2>2. CASE PersistCancel(o)
    <3>1. ~confirmed /\ op'[o] = "idle"
      BY <2>2, <1>a DEF PersistCancel, Answer, CancelStands
    <3>2. ASSUME confirmed' PROVE status' = "cancelled" /\ "cancel" \in keys'
      <4>1. /\ op[o] = "cancel" /\ status \in ACTIVE_STATUSES
            /\ status' = Written(status, "cancelled") /\ keys \ {"slot"} \subseteq keys'
        BY <2>2, <3>1, <3>2 DEF PersistCancel, Confirm, SetStatus
      <4> QED BY <4>1, CancelWritten DEF CancelStands
    <3> QED BY <3>1, <3>2, <2>a DEF CancelStands
  <2>3. CASE PauseGoal(o)
    BY <2>3, <2>a, <1>a, <1>c, <1>d DEF PauseGoal, Request, CancelStands
  <2>4. CASE PersistPause(o)
    <3>1. ~confirmed /\ op'[o] = "idle" /\ confirmed' = confirmed
      BY <2>4, <1>a DEF PersistPause, Answer, CancelStands
    <3> QED BY <3>1, <2>a DEF CancelStands
  <2>5. CASE ResumeGoal(o)
    BY <2>5, <2>a, <1>a, <1>c, <1>d DEF ResumeGoal, Request, CancelStands
  <2>6. CASE PersistResume(o)
    <3>1. ~confirmed /\ op'[o] = "idle" /\ confirmed' = confirmed
      BY <2>6, <1>a DEF PersistResume, Answer, CancelStands
    <3> QED BY <3>1, <2>a DEF CancelStands
  <2>7. CASE RelaunchGoal(o)
    BY <2>7, <2>a, <1>a, <1>c, <1>d DEF RelaunchGoal, Request, CancelStands
  <2>8. CASE EnqueueRelaunch(o)
    <3>1. ~confirmed /\ op'[o] = "idle" /\ confirmed' = confirmed
      BY <2>8, <1>a DEF EnqueueRelaunch, Answer, CancelStands
    <3> QED BY <3>1, <2>a DEF CancelStands
  <2>9. CASE EmergencyStop(o)
    BY <2>9, <2>a, <1>a, <1>b DEF EmergencyStop, Request, CancelStands
  <2>10. CASE StopCancels(o)
    BY <2>10, <2>a, <1>a, <1>b, <1>c DEF StopCancels, CancelStands
  <2>11. CASE BatchCancel(o)
    BY <2>11, <2>a, <1>a, <1>b, <1>c DEF BatchCancel, CancelStands
  <2>12. CASE PersistBatch(o)
    <3>1. ~confirmed /\ op'[o] = "idle" /\ "stop" \in keys'
      BY <2>12, <1>a DEF PersistBatch, Answer, CancelStands, redis
    <3>2. confirmed' => status' = "cancelled"
      BY <2>12, <3>1, CancelWritten DEF PersistBatch, Confirm, SetStatus
    <3> QED BY <3>1, <3>2, <2>a DEF CancelStands
  <2> QED BY <1>2, <2>1, <2>2, <2>3, <2>4, <2>5, <2>6, <2>7, <2>8, <2>9, <2>10, <2>11,
             <2>12 DEF OperatorStep
<1> QED BY <1>1, <1>2, OthersKeepFlags

\* Nobody has asked for anything when the goal is submitted.
LEMMA InitCancel == Init => CancelStands
  BY DEF Init, CancelStands

\* For any number of deliveries, retries, faults, reapers and requests, one request at a
\* time: once a cancel or a lasting emergency stop is confirmed, no run passes a step
\* gate again, except a paused one that is under a stop without a cancel flag.
THEOREM ConfirmedCancelHolds ==
    ASSUME \A o, p \in Operators : o = p, ~StopLifted
    PROVE  Spec => NoStepAfterCancel
<1>1. TypeOK /\ CancelStands /\ [Next]_vars => CancelStands'
  BY CancelStep
<1>2. TypeOK /\ CancelStands /\ [Next]_vars =>
        [\A r \in Runs :
            pc[r] \in {"running", "paused"} /\ pc'[r] = "stepping" =>
               ~confirmed \/ (pc[r] = "paused" /\ "cancel" \notin keys)]_vars
  <2> SUFFICES ASSUME TypeOK, CancelStands, Next, NEW r \in Runs,
                      pc[r] \in {"running", "paused"}, pc'[r] = "stepping"
               PROVE  ~confirmed \/ (pc[r] = "paused" /\ "cancel" \notin keys)
    OBVIOUS
  <2>1. GateOpen \/ (pc[r] = "paused" /\ "cancel" \notin keys)
    BY OnlyGateSteps
  <2> QED BY <2>1 DEF GateOpen, CancelStands
<1> QED BY <1>1, <1>2, InitCancel, TypeCorrect, PTL DEF Spec, NoStepAfterCancel
=============================================================================
