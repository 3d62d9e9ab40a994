---------------------------- MODULE OutboxProofs ----------------------------
(***************************************************************************)
(* Proofs about CoordinationOutbox, for any number of events, dispatchers, *)
(* attempts and failures.                                                  *)
(***************************************************************************)
EXTENDS CoordinationOutbox, FiniteSetTheorems, TLAPS

\* What one dispatcher does leaves the others' hands alone.
OthersKeep(d) ==
    \A e \in Dispatchers \ {d} :
        /\ pc'[e] = pc[e] /\ batch'[e] = batch[e] /\ current'[e] = current[e]

\* The steps of a dispatcher on its row, and the end of its batch.
Dropping(d) == DeadLetterTwice(d) \/ Finish(d) \/ MarkFails(d) \/ Die(d)
Marking(d) == MarkPublished(d) \/ MarkRetry(d) \/ DeadLetter(d)

\* XADD adds one entry of the row in hand, or none.
LEMMA AddCopies ==
    ASSUME TypeOK, NEW d \in Dispatchers, Add(d)
    PROVE  /\ copies' \in [Rows -> Nat] /\ length' \in Nat
           /\ \A r \in Rows : copies'[r] = copies[r] \/ (r = current[d] /\ copies'[r] = copies[r] + 1)
           /\ current[d] \in Rows /\ pc'[d] = "accepted" => copies'[current[d]] = copies[current[d]] + 1
<1>1. copies \in [Rows -> Nat] /\ length \in Nat /\ pc \in [Dispatchers -> {"idle", "next", "adding", "accepted", "failed"}]
  BY DEF TypeOK
<1>2. CASE Accept(d)
  <2>1. copies' = [copies EXCEPT ![current[d]] = copies[current[d]] + 1] /\ length' = length + 1
    BY <1>2 DEF Accept
  <2>2. \A r \in Rows : copies[r] \in Nat /\ copies'[r] = IF r = current[d] THEN copies[r] + 1 ELSE copies[r]
    BY <1>1, <2>1
  <2>3. copies' \in [Rows -> Nat]
    <3>1. copies' = [r \in Rows |-> copies'[r]]
      BY <1>1, <2>1
    <3>2. \A r \in Rows : copies'[r] \in Nat
      BY <2>2
    <3> QED BY <3>1, <3>2
  <2> QED BY <1>1, <2>1, <2>2, <2>3
<1>3. CASE UNCHANGED stream /\ Goto(d, "failed")
  BY <1>1, <1>3 DEF stream, Goto
<1> QED BY <1>2, <1>3 DEF Add

(***************************************************************************)
(* Types.                                                                  *)
(***************************************************************************)
\* Every step keeps the table, the stream and the dispatchers well-formed.
LEMMA TypeStep ==
    ASSUME TypeOK, Hands, [Next]_vars
    PROVE  TypeOK'
<1> USE OutboxAssumption
<1>1. ASSUME NEW r \in Rows, Append(r) \/ Ripen(r)
      PROVE  TypeOK'
  <2>1. CASE Append(r)
    BY <2>1 DEF Append, TypeOK, RowState, stream, locals
  <2>2. CASE Ripen(r)
    <3>1. ripe' \in [Rows -> BOOLEAN] /\ outlived' \subseteq Rows
      BY <2>2 DEF Ripen, TypeOK
    <3>2. faults' \in Nat
      BY <2>2 DEF Ripen, TypeOK, Fault, NoFault
    <3> QED
      BY <2>2, <3>1, <3>2 DEF Ripen, TypeOK, stream, locals
  <2> QED BY <1>1, <2>1, <2>2
<1>2. ASSUME NEW d \in Dispatchers, NEW S \in SUBSET Rows, Claim(d, S)
      PROVE  TypeOK'
  <2>1. state' \in [Rows -> RowState] /\ ripe' \in [Rows -> BOOLEAN]
    BY <1>2 DEF Claim, Take, TypeOK, RowState
  <2>2. /\ pc' \in [Dispatchers -> {"idle", "next", "adding", "accepted", "failed"}]
        /\ batch' \in [Dispatchers -> SUBSET Rows]
        /\ known' \in [Dispatchers -> [Rows -> 0 .. MaxAttempts - 1]]
    BY <1>2 DEF Claim, TypeOK
  <2> QED
    BY <1>2, <2>1, <2>2 DEF Claim, TypeOK, stream
<1>3. ASSUME NEW d \in Dispatchers, NEW r \in Rows, Publish(d, r)
      PROVE  TypeOK'
  <2>1. /\ pc' \in [Dispatchers -> {"idle", "next", "adding", "accepted", "failed"}]
        /\ batch' \in [Dispatchers -> SUBSET Rows]
        /\ current' \in [Dispatchers -> Rows \cup {NoRow}]
        /\ faults' \in Nat
    BY <1>3 DEF Publish, TypeOK, Fault, NoFault
  <2> QED
    BY <1>3, <2>1 DEF Publish, TypeOK, table, stream
<1>4. ASSUME NEW d \in Dispatchers, Add(d)
      PROVE  TypeOK'
  <2>1. current[d] \in Rows
    BY <1>4 DEF Add, TypeOK, Hands
  <2>2. pc' \in [Dispatchers -> {"idle", "next", "adding", "accepted", "failed"}]
    BY <1>4 DEF Add, Goto, TypeOK
  <2>3. copies' \in [Rows -> Nat] /\ length' \in Nat
    BY <1>4, AddCopies
  <2>4. faults' \in Nat
    BY <1>4 DEF Add, TypeOK, Fault, NoFault
  <2> QED
    BY <1>4, <2>2, <2>3, <2>4 DEF Add, Goto, TypeOK, table
<1>5. ASSUME NEW d \in Dispatchers, Marking(d)
      PROVE  TypeOK'
  <2>1. current[d] \in Rows
    BY <1>5 DEF Marking, MarkPublished, MarkRetry, DeadLetter, TypeOK, Hands
  <2>2. /\ pc' \in [Dispatchers -> {"idle", "next", "adding", "accepted", "failed"}]
        /\ current' \in [Dispatchers -> Rows \cup {NoRow}]
    <3>1. Advance(d)
      BY <1>5 DEF Marking, MarkPublished, MarkRetry, DeadLetter
    <3> QED
      BY <3>1 DEF Advance, TypeOK
  <2>3. state' \in [Rows -> RowState] /\ ripe' \in [Rows -> BOOLEAN] /\ dead' \subseteq Rows
    BY <1>5, <2>1 DEF Marking, MarkPublished, MarkRetry, DeadLetter, TypeOK, RowState
  <2>4. attempts' \in [Rows -> 0 .. MaxAttempts - 1]
    <3>1. CASE MarkRetry(d)
      <4>1. Attempt(d) \in 0 .. MaxAttempts - 1
        BY <2>1, <3>1 DEF MarkRetry, Exhausted, Attempt, TypeOK
      <4> QED
        BY <3>1, <4>1 DEF MarkRetry, TypeOK
    <3>2. CASE MarkPublished(d) \/ DeadLetter(d)
      BY <3>2 DEF MarkPublished, DeadLetter, TypeOK
    <3> QED BY <1>5, <3>1, <3>2 DEF Marking
  <2> QED
    BY <1>5, <2>2, <2>3, <2>4 DEF Marking, MarkPublished, MarkRetry, DeadLetter, Advance, TypeOK,
                                  stream
<1>6. ASSUME NEW d \in Dispatchers, Dropping(d)
      PROVE  TypeOK'
  <2>1. Drop(d) /\ UNCHANGED <<table, stream>> /\ faults' \in Nat
    BY <1>6 DEF Dropping, DeadLetterTwice, Finish, MarkFails, Die, Fault, TypeOK
  <2> QED
    BY <2>1 DEF Drop, TypeOK, table, stream
<1>7. CASE UNCHANGED vars
  BY <1>7 DEF vars, table, stream, locals, TypeOK
<1> QED
  BY <1>1, <1>2, <1>3, <1>4, <1>5, <1>6, <1>7 DEF Next, Deliver, Marking, Dropping

(***************************************************************************)
(* Hands and outcomes.                                                     *)
(***************************************************************************)

\* A dispatcher's step touches its own hands only; the stream and the dead letters only grow.
LEMMA OwnHands ==
    ASSUME TypeOK, NEW d \in Dispatchers,
           \/ Deliver(d) \/ MarkFails(d) \/ Die(d) \/ \E S \in SUBSET Rows : Claim(d, S)
    PROVE  /\ OthersKeep(d) /\ UNCHANGED outlived
           /\ \A r \in Rows : copies[r] <= copies'[r]
           /\ dead \subseteq dead'
<1> USE DEF OthersKeep, TypeOK
<1>1. CASE \E S \in SUBSET Rows : Claim(d, S)
  BY <1>1 DEF Claim, stream
<1>2. CASE \E r \in Rows : Publish(d, r)
  BY <1>2 DEF Publish, table, stream
<1>3. CASE Add(d)
  <2>1. OthersKeep(d) /\ UNCHANGED <<outlived, dead>>
    BY <1>3 DEF Add, Goto, table
  <2> QED BY <1>3, <2>1, AddCopies
<1>4. CASE Marking(d)
  BY <1>4 DEF Marking, MarkPublished, MarkRetry, DeadLetter, Advance, stream
<1>5. CASE Dropping(d)
  BY <1>5 DEF Dropping, DeadLetterTwice, Finish, MarkFails, Die, Drop, table, stream
<1> QED
  BY <1>1, <1>2, <1>3, <1>4, <1>5 DEF Deliver, Marking, Dropping

\* A dispatcher has a row in hand exactly between taking it and its outcome.
LEMMA HandsStep ==
    ASSUME TypeOK, Hands, [Next]_vars
    PROVE  Hands'
<1>1. ASSUME NEW r \in Rows, Append(r) \/ Ripen(r)
      PROVE  Hands'
  BY <1>1 DEF Append, Ripen, Hands, stream, locals
<1>2. ASSUME NEW d \in Dispatchers,
             \/ Deliver(d) \/ MarkFails(d) \/ Die(d) \/ \E S \in SUBSET Rows : Claim(d, S)
      PROVE  Hands'
  <2> USE OutboxAssumption DEF TypeOK, Hands
  <2>1. OthersKeep(d) /\ \A r \in Rows : copies[r] <= copies'[r]
    BY <1>2, OwnHands
  <2>2. /\ current'[d] = NoRow <=> pc'[d] \in {"idle", "next"}
        /\ pc'[d] = "idle" => batch'[d] = {}
        /\ current'[d] \notin batch'[d]
        /\ pc'[d] = "accepted" => copies'[current'[d]] > 0
    <3>1. CASE \E S \in SUBSET Rows : Claim(d, S)
      BY <3>1 DEF Claim
    <3>2. CASE \E r \in Rows : Publish(d, r)
      BY <3>2 DEF Publish
    <3>3. CASE Add(d)
      <4>1. current[d] \in Rows /\ pc'[d] \in {"accepted", "failed"} /\ UNCHANGED <<batch, current>>
        BY <3>3 DEF Add, Goto
      <4> QED BY <3>3, <4>1, AddCopies
    <3>4. CASE Marking(d)
      BY <3>4 DEF Marking, MarkPublished, MarkRetry, DeadLetter, Advance
    <3>5. CASE Dropping(d)
      BY <3>5 DEF Dropping, DeadLetterTwice, Finish, MarkFails, Die, Drop
    <3> QED
      BY <1>2, <3>1, <3>2, <3>3, <3>4, <3>5 DEF Deliver, Marking, Dropping
  <2>3. ASSUME NEW e \in Dispatchers \ {d}, pc[e] = "accepted" PROVE copies'[current[e]] > 0
    <3>1. current[e] \in Rows
      BY <2>3
    <3>2. copies[current[e]] \in Nat /\ copies'[current[e]] \in Nat
      BY <3>1, TypeStep
    <3>3. copies[current[e]] > 0 /\ copies[current[e]] <= copies'[current[e]]
      BY <2>1, <2>3, <3>1
    <3> QED BY <3>2, <3>3
  <2> QED
    BY <2>1, <2>2, <2>3 DEF OthersKeep
<1>3. CASE UNCHANGED vars
  BY <1>3 DEF vars, stream, locals, Hands
<1> QED
  BY <1>1, <1>2, <1>3 DEF Next

\* An outcome is written after what it says has happened.
LEMMA OutcomeStep ==
    ASSUME TypeOK, Hands, NothingLost, [Next]_vars
    PROVE  NothingLost'
<1>1. ASSUME NEW r \in Rows, Append(r) \/ Ripen(r)
      PROVE  NothingLost'
  BY <1>1 DEF Append, Ripen, NothingLost, TypeOK, stream
<1>2. ASSUME NEW d \in Dispatchers,
             \/ Deliver(d) \/ MarkFails(d) \/ Die(d) \/ \E S \in SUBSET Rows : Claim(d, S)
      PROVE  NothingLost'
  <2> USE DEF TypeOK, NothingLost
  <2>1. (\A r \in Rows : copies[r] <= copies'[r]) /\ dead \subseteq dead'
    BY <1>2, OwnHands
  <2>2. \A r \in Rows :
            \/ state'[r] = state[r] \/ state'[r] \in {"pending", "claimed"}
            \/ state'[r] = "published" /\ copies[r] > 0
            \/ state'[r] = "dead_letter" /\ r \in dead'
    <3>1. CASE \E S \in SUBSET Rows : Claim(d, S)
      BY <3>1 DEF Claim, Take
    <3>2. CASE \/ \E r \in Rows : Publish(d, r)
               \/ Add(d) \/ Dropping(d)
      BY <3>2 DEF Publish, Add, Dropping, DeadLetterTwice, Finish, MarkFails, Die, table
    <3>3. CASE Marking(d)
      BY <3>3 DEF Marking, MarkPublished, MarkRetry, DeadLetter, Hands
    <3> QED
      BY <1>2, <3>1, <3>2, <3>3 DEF Deliver, Marking, Dropping
  <2>3. \A r \in Rows : copies[r] > 0 => copies'[r] > 0
    <3>1. \A r \in Rows : copies[r] \in Nat /\ copies'[r] \in Nat
      BY TypeStep
    <3> QED BY <2>1, <3>1
  <2> QED
    BY <2>1, <2>2, <2>3
<1>3. CASE UNCHANGED vars
  BY <1>3 DEF vars, table, stream, NothingLost
<1> QED
  BY <1>1, <1>2, <1>3 DEF Next

(***************************************************************************)
(* Claims.                                                                 *)
(***************************************************************************)

\* Who takes a due row takes it from nobody, or it was outlived.
LEMMA DueIsFree ==
    ASSUME TypeOK, ClaimHolds, NEW r \in Rows, Due(r), r \notin outlived
    PROVE  \A d \in Dispatchers : r \notin Carried(d)
BY DEF ClaimHolds, Due

\* A row in hand stays claimed and fresh until it is outlived.
LEMMA ClaimStep ==
    ASSUME TypeOK, Hands, ClaimHolds, ClaimExcludes, [Next]_vars
    PROVE  ClaimHolds' /\ ClaimExcludes'
<1> USE OutboxAssumption
<1>1. ASSUME NEW r \in Rows, Append(r) \/ Ripen(r)
      PROVE  ClaimHolds' /\ ClaimExcludes'
  <2>1. /\ \A d \in Dispatchers : Carried(d)' = Carried(d)
        /\ outlived \subseteq outlived'
    BY <1>1 DEF Append, Ripen, Carried, locals
  <2>2. \A s \in Rows : s # r => state'[s] = state[s] /\ ripe'[s] = ripe[s]
    BY <1>1 DEF Append, Ripen, TypeOK
  <2>3. (\A d \in Dispatchers : r \notin Carried(d)) \/ r \in outlived'
    BY <1>1 DEF Append, Ripen, ClaimHolds, locals
  <2>4. \A d \in Dispatchers : Carried(d) \subseteq Rows
    BY DEF Carried, TypeOK
  <2> QED
    BY <2>1, <2>2, <2>3, <2>4 DEF ClaimHolds, ClaimExcludes
<1>2. ASSUME NEW d \in Dispatchers, NEW S \in SUBSET Rows, Claim(d, S)
      PROVE  ClaimHolds' /\ ClaimExcludes'
  <2>1. Carried(d)' = S
    BY <1>2 DEF Claim, Carried, Hands, TypeOK
  <2>2. /\ \A e \in Dispatchers \ {d} : Carried(e)' = Carried(e)
        /\ outlived' = outlived
    BY <1>2 DEF Claim, Carried, TypeOK
  <2>3. \A e \in Dispatchers : Carried(e) \cap S \subseteq outlived
    BY <1>2, DueIsFree DEF Claim
  <2>4. \A r \in Rows : IF r \in S THEN state'[r] = "claimed" /\ ~ripe'[r]
                        ELSE state'[r] = state[r] /\ ripe'[r] = ripe[r]
    BY <1>2 DEF Claim, Take, TypeOK
  <2>5. \A e \in Dispatchers : Carried(e) \subseteq Rows
    BY DEF Carried, TypeOK
  <2>6. ClaimHolds'
    BY <2>1, <2>2, <2>4, <2>5 DEF ClaimHolds
  <2>7. ClaimExcludes'
    BY <2>1, <2>2, <2>3 DEF ClaimExcludes
  <2> QED BY <2>6, <2>7
<1>3. ASSUME NEW d \in Dispatchers, Deliver(d) \/ MarkFails(d) \/ Die(d)
      PROVE  ClaimHolds' /\ ClaimExcludes'
  <2>1. OthersKeep(d) /\ outlived' = outlived
    BY <1>3, OwnHands
  <2>2. \A e \in Dispatchers \ {d} : Carried(e)' = Carried(e)
    BY <2>1 DEF OthersKeep, Carried
  <2>3. /\ Carried(d)' \subseteq Carried(d)
        /\ \A r \in Rows :
              \/ state'[r] = state[r] /\ ripe'[r] = ripe[r]
              \/ r \in Carried(d) /\ r \notin Carried(d)'
    <3>1. CASE \E r \in Rows : Publish(d, r)
      BY <3>1 DEF Publish, Carried, TypeOK, table
    <3>2. CASE Add(d)
      BY <3>2 DEF Add, Goto, Carried, table
    <3>3. CASE Marking(d)
      <4>1. /\ current[d] \in Rows /\ current[d] \notin batch[d]
            /\ batch'[d] = batch[d] /\ current'[d] = NoRow
        BY <3>3 DEF Marking, MarkPublished, MarkRetry, DeadLetter, Advance, Hands, TypeOK
      <4>2. \A r \in Rows \ {current[d]} : state'[r] = state[r] /\ ripe'[r] = ripe[r]
        BY <3>3 DEF Marking, MarkPublished, MarkRetry, DeadLetter, TypeOK
      <4> QED
        BY <4>1, <4>2 DEF Carried
    <3>4. CASE Dropping(d)
      <4>1. Drop(d) /\ UNCHANGED table
        BY <3>4 DEF Dropping, DeadLetterTwice, Finish, MarkFails, Die
      <4> QED
        BY <4>1 DEF Drop, Carried, TypeOK, table
    <3> QED
      BY <1>3, <3>1, <3>2, <3>3, <3>4 DEF Deliver, Marking, Dropping
  <2>4. \A e \in Dispatchers : Carried(e) \subseteq Rows
    BY DEF Carried, TypeOK
  <2>5. ClaimHolds'
    BY <2>1, <2>2, <2>3, <2>4 DEF ClaimHolds, ClaimExcludes
  <2>6. ClaimExcludes'
    BY <2>1, <2>2, <2>3 DEF ClaimExcludes
  <2> QED BY <2>5, <2>6
<1>4. CASE UNCHANGED vars
  BY <1>4 DEF vars, table, locals, Carried, ClaimHolds, ClaimExcludes
<1> QED
  BY <1>1, <1>2, <1>3, <1>4 DEF Next

(***************************************************************************)
(* The stream.                                                             *)
(***************************************************************************)
\* How the number of dispatchers about to add grows and shrinks by one.
LEMMA CountAdding ==
    ASSUME NEW A \in SUBSET Dispatchers, NEW d \in Dispatchers
    PROVE  /\ Cardinality(A) \in Nat /\ Cardinality(Dispatchers) \in Nat
           /\ Cardinality(A \cup {d}) \in Nat /\ Cardinality(A \cup {d}) <= Cardinality(Dispatchers)
           /\ Cardinality(A \ {d}) \in Nat
           /\ Cardinality(A \ {d}) <= Cardinality(A)
           /\ d \in A => Cardinality(A \ {d}) = Cardinality(A) - 1
<1>1. IsFiniteSet(Dispatchers) /\ IsFiniteSet(A) /\ IsFiniteSet(A \cup {d})
  BY OutboxAssumption, FS_Subset
<1> QED
  BY <1>1, FS_Subset, FS_CardinalityType, FS_RemoveElement

\* Whoever passes the check of the length saw room for itself.
LEMMA RoomStep ==
    ASSUME TypeOK, RoomForAll, [Next]_vars
    PROVE  RoomForAll'
<1> USE OutboxAssumption
<1>0. Adding \in SUBSET Dispatchers /\ length \in Nat
  BY DEF Adding, TypeOK
<1>1. CASE \E r \in Rows : Append(r) \/ Ripen(r)
  BY <1>1 DEF Append, Ripen, RoomForAll, Adding, stream, locals
<1>2. ASSUME NEW d \in Dispatchers, NEW r \in Rows, Publish(d, r)
      PROVE  RoomForAll'
  <2>1. CASE pc'[d] = "adding"
    <3>1. Adding' = Adding \cup {d} /\ length' = length /\ length < MaxLength
      BY <1>2, <2>1 DEF Publish, Adding, Saturated, stream, TypeOK
    <3>2. Cardinality(Adding \cup {d}) <= Cardinality(Dispatchers)
          /\ Cardinality(Adding \cup {d}) \in Nat /\ Cardinality(Dispatchers) \in Nat
      BY <1>0, CountAdding
    <3> QED
      BY <1>0, <3>1, <3>2 DEF RoomForAll
  <2>2. CASE pc'[d] # "adding"
    <3>1. Adding' = Adding /\ length' = length
      BY <1>2, <2>2 DEF Publish, Adding, stream, TypeOK
    <3> QED
      BY <3>1 DEF RoomForAll
  <2> QED BY <2>1, <2>2
<1>3. ASSUME NEW d \in Dispatchers, Add(d)
      PROVE  RoomForAll'
  <2>1. d \in Adding /\ Adding' = Adding \ {d} /\ length' \in {length, length + 1}
    BY <1>3 DEF Add, Accept, Goto, Adding, stream, TypeOK
  <2> QED
    BY <1>0, <2>1, CountAdding DEF RoomForAll
<1>4. ASSUME NEW d \in Dispatchers,
             Marking(d) \/ Dropping(d) \/ \E S \in SUBSET Rows : Claim(d, S)
      PROVE  RoomForAll'
  <2>1. Adding' = Adding \ {d} /\ length' = length
    BY <1>4 DEF Marking, MarkPublished, MarkRetry, DeadLetter, Advance, Dropping, DeadLetterTwice,
                Finish, MarkFails, Die, Drop, Claim, Adding, stream, TypeOK
  <2>2. /\ Cardinality(Adding \ {d}) <= Cardinality(Adding)
        /\ Cardinality(Adding \ {d}) \in Nat /\ Cardinality(Adding) \in Nat
        /\ Cardinality(Dispatchers) \in Nat
    BY <1>0, CountAdding
  <2> QED
    BY <1>0, <2>1, <2>2 DEF RoomForAll
<1>5. CASE UNCHANGED vars
  BY <1>5 DEF vars, stream, locals, RoomForAll, Adding
<1> QED
  BY <1>1, <1>2, <1>3, <1>4, <1>5 DEF Next, Deliver, Marking, Dropping

(***************************************************************************)
(* The properties.                                                         *)
(***************************************************************************)
\* An empty table and idle dispatchers.
LEMMA OutboxInitially == Init => OutboxInv
<1> SUFFICES ASSUME Init PROVE OutboxInv
  OBVIOUS
<1> USE OutboxAssumption
<1>1. TypeOK
  BY DEF Init, TypeOK, RowState
<1>2. Hands /\ NothingLost /\ ClaimHolds /\ ClaimExcludes
  BY DEF Init, Hands, NothingLost, ClaimHolds, ClaimExcludes, Carried
<1>3. RoomForAll
  <2>1. Adding = {} /\ length = 0
    BY DEF Init, Adding
  <2>2. Cardinality({}) = 0 /\ Cardinality(Dispatchers) \in Nat
    BY FS_EmptySet, FS_CardinalityType
  <2> QED
    BY <2>1, <2>2 DEF RoomForAll
<1> QED BY <1>1, <1>2, <1>3 DEF OutboxInv

\* The five parts are invariant together.
LEMMA OutboxInvariance == Spec => []OutboxInv
<1>1. OutboxInv /\ [Next]_vars => OutboxInv'
  BY TypeStep, HandsStep, OutcomeStep, ClaimStep, RoomStep DEF OutboxInv
<1> QED
  BY <1>1, OutboxInitially, PTL DEF Spec

\* CoordinationOutbox is well typed; in particular attempt_count stays below the budget.
THEOREM OutboxTypeOK == Spec => []TypeOK
<1>1. OutboxInv => TypeOK
  BY DEF OutboxInv
<1> QED
  BY <1>1, OutboxInvariance, PTL

\* No event is lost (OutboxDelivery, dead_letter): a row leaves the queue with its event in
\* the stream or among the dead letters.
THEOREM OutboxLosesNothing == Spec => []NothingLost
<1>1. OutboxInv => NothingLost
  BY DEF OutboxInv
<1> QED
  BY <1>1, OutboxInvariance, PTL

\* A claim that is not outlived excludes every other dispatcher (PostgresOutboxRepository.claim).
THEOREM OutboxClaimExcludes == Spec => []ClaimExcludes
<1>1. OutboxInv => ClaimExcludes
  BY DEF OutboxInv
<1> QED
  BY <1>1, OutboxInvariance, PTL

\* The stream exceeds max_stream_length by less than the number of dispatchers
\* (CoordinationStreams.publish).
THEOREM OutboxStreamBound == Spec => []StreamBound
<1>1. OutboxInv => StreamBound
  <2> SUFFICES ASSUME OutboxInv PROVE StreamBound
    OBVIOUS
  <2>1. PICK d \in Dispatchers : TRUE
    BY OutboxAssumption
  <2>2. Cardinality(Adding) \in Nat /\ Cardinality(Dispatchers) \in Nat
    BY <2>1, CountAdding DEF Adding
  <2> QED
    BY <2>2, OutboxAssumption DEF OutboxInv, TypeOK, RoomForAll, StreamBound
<1> QED
  BY <1>1, OutboxInvariance, PTL

\* A recorded outcome is final while no claim on the row was outlived (_update and
\* dead_letter, which write by row id alone).
THEOREM OutboxSettles == Spec => SettledIsFinal
<1>1. OutboxInv /\ [Next]_vars =>
        [\A r \in Rows \ outlived :
            state[r] \in {"published", "dead_letter"} => state'[r] = state[r]]_vars
  <2> SUFFICES ASSUME OutboxInv, Next, NEW r \in Rows \ outlived,
                      state[r] \in {"published", "dead_letter"}
               PROVE  state'[r] = state[r]
    BY DEF vars, table
  <2> USE DEF OutboxInv, TypeOK
  <2>1. CASE \E s \in Rows : Append(s) \/ Ripen(s)
    BY <2>1 DEF Append, Ripen
  <2>2. ASSUME NEW d \in Dispatchers, NEW S \in SUBSET Rows, Claim(d, S)
        PROVE  state'[r] = state[r]
    BY <2>2 DEF Claim, Take, Due
  <2>3. ASSUME NEW d \in Dispatchers, Marking(d)
        PROVE  state'[r] = state[r]
    <3>1. current[d] \in Carried(d) /\ current[d] \in Rows
      BY <2>3 DEF Marking, MarkPublished, MarkRetry, DeadLetter, Hands, Carried
    <3>2. r # current[d]
      BY <3>1 DEF ClaimHolds
    <3> QED
      BY <2>3, <3>2 DEF Marking, MarkPublished, MarkRetry, DeadLetter
  <2>4. ASSUME NEW d \in Dispatchers,
               \/ \E s \in Rows : Publish(d, s)
               \/ Add(d) \/ Dropping(d)
        PROVE  state'[r] = state[r]
    BY <2>4 DEF Publish, Add, Dropping, DeadLetterTwice, Finish, MarkFails, Die, table
  <2> QED
    BY <2>1, <2>2, <2>3, <2>4 DEF Next, Deliver, Marking, Dropping
<1> QED
  BY <1>1, OutboxInvariance, PTL DEF Spec, SettledIsFinal

(***************************************************************************)
(* The budget of publications.                                             *)
(***************************************************************************)

\* When only d's hands change, the holders of a row change by d at the most.
LEMMA Counting ==
    ASSUME NEW d \in Dispatchers, NEW r \in Rows,
           \A e \in Dispatchers \ {d} : Holds(e, r)' <=> Holds(e, r)
    PROVE  /\ Cardinality(Holders(r)) \in Nat /\ Cardinality(Holders(r)') \in Nat
           /\ ~Holds(d, r) /\ Holds(d, r)' =>
                 Cardinality(Holders(r)') = Cardinality(Holders(r)) + 1
           /\ Holds(d, r) /\ ~Holds(d, r)' =>
                 Cardinality(Holders(r)) = Cardinality(Holders(r)') + 1
           /\ (Holds(d, r)' <=> Holds(d, r)) =>
                 Cardinality(Holders(r)') = Cardinality(Holders(r))
<1> DEFINE H == Holders(r)
           I == Holders(r)'
<1>1. /\ \A e \in Dispatchers : e \in H <=> Holds(e, r)
      /\ \A e \in Dispatchers : e \in I <=> Holds(e, r)'
      /\ H \subseteq Dispatchers /\ I \subseteq Dispatchers
  BY DEF Holders
<1> HIDE DEF H, I
<1>2. IsFiniteSet(H) /\ IsFiniteSet(I) /\ Cardinality(H) \in Nat /\ Cardinality(I) \in Nat
  BY <1>1, OutboxAssumption, FS_Subset, FS_CardinalityType
<1>3. CASE ~Holds(d, r) /\ Holds(d, r)'
  <2>1. I = H \cup {d} /\ d \notin H
    BY <1>1, <1>3
  <2>2. Cardinality(I) = Cardinality(H) + 1
    BY <1>2, <2>1, FS_AddElement
  <2> QED BY <1>2, <1>3, <2>2 DEF H, I
<1>4. CASE Holds(d, r) /\ ~Holds(d, r)'
  <2>1. H = I \cup {d} /\ d \notin I
    BY <1>1, <1>4
  <2>2. Cardinality(H) = Cardinality(I) + 1
    BY <1>2, <2>1, FS_AddElement
  <2> QED BY <1>2, <1>4, <2>2 DEF H, I
<1>5. CASE Holds(d, r)' <=> Holds(d, r)
  <2>1. I = H
    BY <1>1, <1>5
  <2> QED BY <1>2, <1>5, <2>1 DEF H, I
<1> QED BY <1>3, <1>4, <1>5

\* The others carry and hold what they did.
LEMMA OthersHold ==
    ASSUME NEW d \in Dispatchers, OthersKeep(d)
    PROVE  \A e \in Dispatchers \ {d}, r \in Rows :
              Carried(e)' = Carried(e) /\ (Holds(e, r)' <=> Holds(e, r))
  BY DEF OthersKeep, Carried, Holds

\* A row that d leaves as it is stays as claimable as it was.
LEMMA SpareKept ==
    ASSUME NEW d \in Dispatchers, NEW r \in Rows, OthersKeep(d),
           state'[r] = state[r], ripe'[r] = ripe[r],
           r \in Carried(d)' <=> r \in Carried(d)
    PROVE  Spare(r)' = Spare(r)
<1>1. (\A e \in Dispatchers : r \notin Carried(e)') <=> (\A e \in Dispatchers : r \notin Carried(e))
  BY OthersHold
<1>2. Claimable(r)' <=> Claimable(r)
  BY <1>1 DEF Claimable
<1> QED BY <1>2 DEF Spare

\* A claim to come is one or none.
LEMMA SpareRange ==
    ASSUME NEW r \in Rows PROVE Spare(r) \in {0, 1} /\ Spare(r)' \in {0, 1}
  BY DEF Spare

\* The steps of a dispatcher on its batch keep the budget of every row.
LEMMA DispatcherBudget ==
    ASSUME TypeOK, Hands, Budget, TypeOK', NEW d \in Dispatchers, NEW r \in Rows,
           \/ Deliver(d) \/ MarkFails(d) \/ Die(d) \/ \E S \in SUBSET Rows : Claim(d, S)
    PROVE  copies'[r] + Cardinality(Holders(r)') + Spare(r)' <= 1 + faults'
<1>a. OthersKeep(d)
  BY OwnHands
<1>b. \A e \in Dispatchers \ {d} : Holds(e, r)' <=> Holds(e, r)
  BY <1>a, OthersHold
<1>c. /\ copies[r] \in Nat /\ copies'[r] \in Nat /\ faults \in Nat /\ faults' \in Nat
      /\ copies[r] + Cardinality(Holders(r)) + Spare(r) <= 1 + faults
      /\ Spare(r) \in {0, 1} /\ Spare(r)' \in {0, 1}
  BY SpareRange DEF TypeOK, Budget
<1>d. /\ Cardinality(Holders(r)) \in Nat /\ Cardinality(Holders(r)') \in Nat
      /\ ~Holds(d, r) /\ Holds(d, r)' =>
            Cardinality(Holders(r)') = Cardinality(Holders(r)) + 1
      /\ Holds(d, r) /\ ~Holds(d, r)' =>
            Cardinality(Holders(r)) = Cardinality(Holders(r)') + 1
      /\ (Holds(d, r)' <=> Holds(d, r)) =>
            Cardinality(Holders(r)') = Cardinality(Holders(r))
  BY <1>b, Counting
<1>e. /\ r # NoRow /\ current[d] \notin batch[d]
      /\ current[d] = NoRow <=> pc[d] \in {"idle", "next"}
      /\ pc[d] = "idle" => batch[d] = {}
      /\ pc \in [Dispatchers -> {"idle", "next", "adding", "accepted", "failed"}]
      /\ batch \in [Dispatchers -> SUBSET Rows]
      /\ current \in [Dispatchers -> Rows \cup {NoRow}]
      /\ state \in [Rows -> RowState] /\ ripe \in [Rows -> BOOLEAN]
  BY OutboxAssumption DEF TypeOK, Hands
<1>1. ASSUME NEW S \in SUBSET Rows, Claim(d, S)
      PROVE  copies'[r] + Cardinality(Holders(r)') + Spare(r)' <= 1 + faults'
  <2>1. /\ pc[d] = "idle" /\ pc'[d] = "next" /\ batch'[d] = S /\ current'[d] = current[d]
        /\ UNCHANGED <<copies, faults>>
    BY <1>1, <1>e DEF Claim, stream
  <2>2. Carried(d) = {} /\ Carried(d)' = S /\ ~Holds(d, r) /\ (Holds(d, r)' <=> r \in S)
    BY <1>e, <2>1 DEF Carried, Holds
  <2>3. CASE r \in S
    <3>1. Due(r) /\ state'[r] = "claimed" /\ ~ripe'[r]
      BY <1>1, <2>3 DEF Claim, Take
    <3>2. Spare(r) = 1 /\ Spare(r)' = 0
      BY <2>2, <2>3, <3>1 DEF Spare, Claimable, Due
    <3> QED BY <1>c, <1>d, <2>1, <2>2, <2>3, <3>2
  <2>4. CASE r \notin S
    <3>1. state'[r] = state[r] /\ ripe'[r] = ripe[r]
      BY <1>1, <2>4 DEF Claim, Take
    <3>2. Spare(r)' = Spare(r)
      BY <1>a, <2>2, <2>4, <3>1, SpareKept
    <3> QED BY <1>c, <1>d, <2>1, <2>2, <2>4, <3>2
  <2> QED BY <2>3, <2>4
<1>2. ASSUME NEW q \in Rows, Publish(d, q)
      PROVE  copies'[r] + Cardinality(Holders(r)') + Spare(r)' <= 1 + faults'
  <2>1. /\ pc[d] = "next" /\ pc'[d] \in {"adding", "failed"} /\ q \in batch[d]
        /\ batch'[d] = batch[d] \ {q} /\ current'[d] = q
        /\ UNCHANGED <<state, ripe, copies>> /\ faults' \in {faults, faults + 1}
    BY <1>2, <1>e DEF Publish, Fault, NoFault, table, stream
  <2>2. Carried(d)' = Carried(d) /\ (Holds(d, r)' <=> Holds(d, r))
    BY <1>e, <2>1, OutboxAssumption DEF Carried, Holds
  <2>3. Spare(r)' = Spare(r)
    BY <1>a, <2>1, <2>2, SpareKept
  <2> QED BY <1>c, <1>d, <2>1, <2>2, <2>3
<1>3. CASE Add(d)
  <2>1. /\ pc[d] = "adding" /\ UNCHANGED <<batch, current, state, ripe>>
        /\ \/ pc'[d] = "accepted" /\ faults' = faults
           \/ pc'[d] = "failed" /\ faults' = faults + 1
    BY <1>3, <1>e DEF Add, Goto, Fault, NoFault, table
  <2>2. Carried(d)' = Carried(d)
    BY <2>1 DEF Carried
  <2>3. Spare(r)' = Spare(r)
    BY <1>a, <2>1, <2>2, SpareKept
  <2>4. \/ copies'[r] = copies[r] /\ (current[d] = r => pc'[d] # "accepted")
        \/ current[d] = r /\ copies'[r] = copies[r] + 1
    BY <1>3, <1>c, AddCopies
  <2>5. CASE current[d] = r
    <3>1. Holds(d, r) /\ (Holds(d, r)' <=> pc'[d] # "accepted")
      BY <1>e, <2>1, <2>2, <2>5 DEF Holds, Carried
    <3> QED BY <1>c, <1>d, <2>1, <2>3, <2>4, <2>5, <3>1
  <2>6. CASE current[d] # r
    <3>1. Holds(d, r)' <=> Holds(d, r)
      BY <2>1, <2>2, <2>6 DEF Holds
    <3> QED BY <1>c, <1>d, <2>1, <2>3, <2>4, <2>6, <3>1
  <2> QED BY <2>5, <2>6
<1>4. CASE Marking(d)
  <2>1. /\ pc[d] \in {"accepted", "failed"} /\ pc'[d] = "next" /\ current'[d] = NoRow
        /\ UNCHANGED <<batch, copies, faults>>
    BY <1>4, <1>e DEF Marking, MarkPublished, MarkRetry, DeadLetter, Advance, stream
  <2>2. CASE current[d] = r
    <3>1. ~Holds(d, r)' /\ (Holds(d, r) <=> pc[d] = "failed")
      BY <1>e, <2>1, <2>2 DEF Holds, Carried
    <3>2. pc[d] = "accepted" => state'[r] = "published"
      BY <1>4, <1>e, <2>2 DEF Marking, MarkPublished, MarkRetry, DeadLetter
    <3>3. pc[d] = "accepted" => Spare(r)' = 0
      BY <3>2 DEF Spare, Claimable
    <3> QED BY <1>c, <1>d, <2>1, <3>1, <3>3
  <2>3. CASE current[d] # r
    <3>1. state'[r] = state[r] /\ ripe'[r] = ripe[r]
      BY <1>4, <1>e, <2>3 DEF Marking, MarkPublished, MarkRetry, DeadLetter
    <3>2. (r \in Carried(d)' <=> r \in Carried(d)) /\ (Holds(d, r)' <=> Holds(d, r))
      BY <1>e, <2>1, <2>3 DEF Holds, Carried
    <3>3. Spare(r)' = Spare(r)
      BY <1>a, <3>1, <3>2, SpareKept
    <3> QED BY <1>c, <1>d, <2>1, <3>2, <3>3
  <2> QED BY <2>2, <2>3
<1>5. CASE Dropping(d)
  <2>1. /\ pc'[d] = "idle" /\ batch'[d] = {} /\ current'[d] = NoRow
        /\ UNCHANGED <<state, ripe, copies>> /\ faults' \in {faults, faults + 1}
        /\ pc[d] = "accepted" => faults' = faults + 1
    BY <1>5, <1>e DEF Dropping, DeadLetterTwice, Finish, MarkFails, Die, Drop, Fault, table, stream
  <2>2. r \notin Carried(d)' /\ ~Holds(d, r)'
    BY <1>e, <2>1 DEF Carried, Holds
  <2>3. CASE Holds(d, r)
    BY <1>c, <1>d, <2>1, <2>2, <2>3
  <2>4. CASE ~Holds(d, r) /\ r \in Carried(d)
    <3>1. faults' = faults + 1
      BY <2>1, <2>4 DEF Holds
    <3> QED BY <1>c, <1>d, <2>1, <2>2, <2>4, <3>1
  <2>5. CASE r \notin Carried(d)
    <3>1. ~Holds(d, r)
      BY <2>5 DEF Holds
    <3>2. Spare(r)' = Spare(r)
      BY <1>a, <2>1, <2>2, <2>5, SpareKept
    <3> QED BY <1>c, <1>d, <2>1, <2>2, <3>1, <3>2
  <2> QED BY <2>3, <2>4, <2>5
<1> QED BY <1>1, <1>2, <1>3, <1>4, <1>5 DEF Deliver, Marking, Dropping

\* An insert, or the passing of time: no dispatcher moves.
LEMMA TableBudget ==
    ASSUME TypeOK, Budget, TypeOK', NEW q \in Rows, Append(q) \/ Ripen(q) PROVE Budget'
<1>a. UNCHANGED <<copies, pc, batch, current>>
  BY DEF Append, Ripen, stream, locals
<1>b. /\ \A d \in Dispatchers : Carried(d)' = Carried(d)
      /\ \A r \in Rows : Holders(r)' = Holders(r)
  BY <1>a DEF Carried, Holders, Holds
<1>c. ASSUME NEW r \in Rows
      PROVE  /\ copies[r] \in Nat /\ Cardinality(Holders(r)) \in Nat
             /\ copies[r] + Cardinality(Holders(r)) + Spare(r) <= 1 + faults
             /\ Spare(r) \in {0, 1} /\ Spare(r)' \in {0, 1}
             /\ faults \in Nat /\ faults' \in Nat
  <2>1. Cardinality(Holders(r)) \in Nat
    <3>1. IsFiniteSet(Holders(r))
      BY OutboxAssumption, FS_Subset DEF Holders
    <3> QED BY <3>1, FS_CardinalityType
  <2> QED BY <2>1, SpareRange DEF TypeOK, Budget
<1>1. ASSUME NEW r \in Rows
      PROVE  \/ faults' = faults /\ Spare(r)' = Spare(r)
             \/ faults' = faults + 1
  <2>1. CASE Append(q)
    <3>1. faults' = faults /\ (Claimable(r)' <=> Claimable(r))
      BY <2>1, <1>b DEF Append, Claimable, TypeOK
    <3> QED BY <3>1 DEF Spare
  <2>2. CASE Ripen(q) /\ faults' # faults
    BY <2>2 DEF Ripen, Fault, NoFault
  <2>3. CASE Ripen(q) /\ faults' = faults
    <3>1. /\ state' = state /\ ripe' = [ripe EXCEPT ![q] = TRUE]
          /\ \A d \in Dispatchers : q \notin Carried(d)
      BY <2>3 DEF Ripen, Fault, NoFault, TypeOK
    <3>2. Claimable(r)' <=> Claimable(r)
      BY <3>1, <1>b DEF Claimable, TypeOK
    <3> QED BY <2>3, <3>2 DEF Spare
  <2> QED BY <2>1, <2>2, <2>3
<1>2. ASSUME NEW r \in Rows
      PROVE  copies'[r] + Cardinality(Holders(r)') + Spare(r)' <= 1 + faults'
  <2>1. copies'[r] = copies[r] /\ Holders(r)' = Holders(r)
    BY <1>a, <1>b
  <2> QED BY <1>1, <1>c, <2>1
<1> QED BY <1>2 DEF Budget

\* Nothing is published and every row still to be inserted.
LEMMA InitBudget == Init => Budget
<1> SUFFICES ASSUME Init, NEW r \in Rows
             PROVE  copies[r] + Cardinality(Holders(r)) + Spare(r) <= 1 + faults
  BY DEF Budget
<1>1. Holders(r) = {} /\ Spare(r) = 1 /\ copies[r] = 0 /\ faults = 0
  BY OutboxAssumption DEF Init, Holders, Holds, Carried, Spare, Claimable
<1> QED BY <1>1, FS_EmptySet

\* An event is in the stream at most once more than things have failed: a retry, a reclaim
\* or the late outcome of an outlived dispatcher (OutboxDelivery.deliver, claim) never
\* publishes it again for nothing.
THEOREM OutboxPublishesOnce == Spec => []PublishedOnce
<1>1. OutboxInv /\ OutboxInv' /\ Budget /\ [Next]_vars => Budget'
  <2> SUFFICES ASSUME OutboxInv, OutboxInv', Budget, [Next]_vars PROVE Budget'
    OBVIOUS
  <2> USE DEF OutboxInv
  <2>1. ASSUME NEW d \in Dispatchers,
               \/ Deliver(d) \/ MarkFails(d) \/ Die(d) \/ \E S \in SUBSET Rows : Claim(d, S)
        PROVE  Budget'
    <3>1. \A r \in Rows : copies'[r] + Cardinality(Holders(r)') + Spare(r)' <= 1 + faults'
      BY <2>1, DispatcherBudget
    <3> QED BY <3>1 DEF Budget
  <2>2. CASE UNCHANGED vars
    BY <2>2 DEF vars, table, stream, locals, Budget, Holders, Holds, Carried, Spare, Claimable
  <2> QED BY <2>1, <2>2, TableBudget DEF Next
<1>2. OutboxInv /\ Budget => PublishedOnce
  <2> SUFFICES ASSUME OutboxInv, Budget, NEW r \in Rows PROVE copies[r] <= 1 + faults
    BY DEF PublishedOnce
  <2>1. IsFiniteSet(Holders(r))
    BY OutboxAssumption, FS_Subset DEF Holders
  <2>2. /\ Cardinality(Holders(r)) \in Nat /\ Spare(r) \in {0, 1}
        /\ copies[r] \in Nat /\ faults \in Nat
    BY <2>1, FS_CardinalityType, SpareRange DEF OutboxInv, TypeOK
  <2> QED BY <2>2 DEF Budget
<1> QED
  BY <1>1, <1>2, InitBudget, OutboxInvariance, PTL DEF Spec
=============================================================================
