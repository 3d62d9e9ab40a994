------------------------- MODULE CoordinationOutbox -------------------------
(***************************************************************************)
(* The coordination outbox (app/coordination/outbox.py and                 *)
(* outbox_dispatcher.py): a transaction that changes coordination state    *)
(* inserts an event, and dispatchers, one per tick of the beat and free to *)
(* overlap, claim due rows in batches, publish each to the session's Redis *)
(* stream and record the outcome.  One tenant and one session: claims and  *)
(* streams of others share nothing with it.                                *)
(*                                                                         *)
(* An action is one transaction or one Redis command.  claim_owner is not  *)
(* a variable because no statement reads it: a claim is the state and the  *)
(* time it was taken, and every outcome is written by row id alone.        *)
(***************************************************************************)
EXTENDS Naturals, FiniteSets

CONSTANTS
    Rows,           \* events that may be inserted
    Dispatchers,    \* ticks that may be running at once
    NoRow,          \* a dispatcher between two rows
    MaxAttempts,    \* OutboxDelivery(max_attempts)
    MaxLength,      \* CoordinationStreams(max_stream_length)
    MaxFaults       \* bound: failed calls, deaths, and dispatchers that outlive their claim

ASSUME OutboxAssumption ==
    /\ NoRow \notin Rows /\ IsFiniteSet(Dispatchers) /\ Dispatchers # {}
    /\ MaxAttempts \in Nat \ {0} /\ MaxLength \in Nat \ {0}
    /\ MaxFaults \in Nat

VARIABLES
    state,          \* coordination_outbox.state ("absent": not inserted)
    attempts,       \* its attempt_count
    ripe,           \* pending: available_at has come; otherwise: claimed_at is older than the TTL
    dead,           \* rows of coordination_dead_letters
    outlived,       \* history: rows whose claim ended under a dispatcher still at work
    copies, length, \* the stream: the entries of each event in it, and XLEN
    pc, batch,      \* each dispatcher: where it is, the claimed rows still before it
    current,        \* the row in its hands
    known,          \* the attempt_count its claim returned
    faults

table  == <<state, attempts, ripe, dead, outlived>>
stream == <<copies, length>>
locals == <<pc, batch, current, known>>
vars == <<table, stream, locals, faults>>

RowState == {"absent", "pending", "claimed", "published", "dead_letter"}

TypeOK ==
    /\ state \in [Rows -> RowState] /\ attempts \in [Rows -> 0 .. MaxAttempts - 1]
    /\ ripe \in [Rows -> BOOLEAN]
    /\ dead \subseteq Rows /\ outlived \subseteq Rows
    /\ copies \in [Rows -> Nat] /\ length \in Nat
    /\ pc \in [Dispatchers -> {"idle", "next", "adding", "accepted", "failed"}]
    /\ batch \in [Dispatchers -> SUBSET Rows]
    /\ current \in [Dispatchers -> Rows \cup {NoRow}]
    /\ known \in [Dispatchers -> [Rows -> 0 .. MaxAttempts - 1]]
    /\ faults \in Nat

Init ==
    /\ state = [r \in Rows |-> "absent"] /\ attempts = [r \in Rows |-> 0]
    /\ ripe = [r \in Rows |-> FALSE] /\ dead = {} /\ outlived = {}
    /\ copies = [r \in Rows |-> 0] /\ length = 0
    /\ pc = [d \in Dispatchers |-> "idle"] /\ batch = [d \in Dispatchers |-> {}]
    /\ current = [d \in Dispatchers |-> NoRow]
    /\ known = [d \in Dispatchers |-> [r \in Rows |-> 0]]
    /\ faults = 0

Fault == faults < MaxFaults /\ faults' = faults + 1
NoFault == UNCHANGED faults

\* The rows a dispatcher has claimed and not dealt with.
Carried(d) == batch[d] \cup ({current[d]} \ {NoRow})

(***************************************************************************)
(* The table.                                                              *)
(***************************************************************************)

\* A transition, handoff, cancellation or transcript entry inserts its event.
Append(r) ==
    /\ state[r] = "absent"
    /\ state' = [state EXCEPT ![r] = "pending"] /\ ripe' = [ripe EXCEPT ![r] = TRUE]
    /\ UNCHANGED <<attempts, dead, outlived, stream, locals, faults>>

\* Time passes: a retry's delay, or a claim's TTL (60 s, for a batch of up to 100 rows).
Ripen(r) ==
    /\ state[r] # "absent" /\ ~ripe[r] /\ ripe' = [ripe EXCEPT ![r] = TRUE]
    /\ IF \E d \in Dispatchers : r \in Carried(d)
       THEN Fault /\ outlived' = outlived \cup {r}
       ELSE NoFault /\ UNCHANGED outlived
    /\ UNCHANGED <<state, attempts, dead, stream, locals>>

\* The WHERE of the claim: pending and available, or claimed by a worker gone for long.
MutantForgetsStale(r) == ripe[r] /\ state[r] = "pending"
MutantAnyState(r) == ripe[r] /\ state[r] # "absent"
Due(r) == ripe[r] /\ state[r] \in {"pending", "claimed"}

\* claim: due rows, as many as the limit allows and without those that another
\* transaction has locked.
MutantKeepsClaimTime(S) == state' = [r \in Rows |-> IF r \in S THEN "claimed" ELSE state[r]]
                           /\ UNCHANGED ripe
Take(S) ==
    /\ state' = [r \in Rows |-> IF r \in S THEN "claimed" ELSE state[r]]
    /\ ripe' = [r \in Rows |-> IF r \in S THEN FALSE ELSE ripe[r]]

Claim(d, S) ==
    /\ pc[d] = "idle" /\ S # {} /\ \A r \in S : Due(r)
    /\ Take(S)
    /\ pc' = [pc EXCEPT ![d] = "next"] /\ batch' = [batch EXCEPT ![d] = S]
    /\ known' = [known EXCEPT ![d] = attempts]
    /\ UNCHANGED <<attempts, dead, outlived, stream, current, faults>>

(***************************************************************************)
(* OutboxDelivery.deliver.                                                 *)
(***************************************************************************)
Goto(d, to) == pc' = [pc EXCEPT ![d] = to] /\ UNCHANGED <<batch, current, known>>

\* The dispatcher lets go of everything it had: it is done, it died, or an exception left
\* deliver and the rest of the batch stays claimed.
Drop(d) ==
    /\ pc' = [pc EXCEPT ![d] = "idle"] /\ batch' = [batch EXCEPT ![d] = {}]
    /\ current' = [current EXCEPT ![d] = NoRow] /\ UNCHANGED known

\* publish, first command: XLEN, and BackpressureError.
MutantOffByOne == length > MaxLength
Saturated == length >= MaxLength

Publish(d, r) ==
    /\ pc[d] = "next" /\ r \in batch[d]
    /\ batch' = [batch EXCEPT ![d] = @ \ {r}] /\ current' = [current EXCEPT ![d] = r]
    /\ \/ pc' = [pc EXCEPT ![d] = IF Saturated THEN "failed" ELSE "adding"] /\ NoFault
       \/ pc' = [pc EXCEPT ![d] = "failed"] /\ Fault
    /\ UNCHANGED <<table, stream, known>>

\* publish, second command: XADD.  It may fail for the caller and still have been carried out.
Accept(d) == copies' = [copies EXCEPT ![current[d]] = @ + 1] /\ length' = length + 1

MutantTrustsTransport(d) ==
    /\ pc[d] = "adding" /\ Goto(d, "accepted")
    /\ \/ Accept(d) /\ NoFault
       \/ UNCHANGED stream /\ Fault
    /\ UNCHANGED table
Add(d) ==
    /\ pc[d] = "adding"
    /\ \/ Accept(d) /\ Goto(d, "accepted") /\ NoFault
       \/ (Accept(d) \/ UNCHANGED stream) /\ Goto(d, "failed") /\ Fault
    /\ UNCHANGED table

\* The next row, after an outcome was recorded.
Advance(d) ==
    /\ pc' = [pc EXCEPT ![d] = "next"] /\ current' = [current EXCEPT ![d] = NoRow]
    /\ UNCHANGED <<batch, known>>

MutantUncommitted(d) ==
    /\ pc[d] = "accepted" /\ Advance(d)
    /\ UNCHANGED <<table, stream, faults>>
MarkPublished(d) ==
    /\ pc[d] = "accepted" /\ Advance(d)
    /\ state' = [state EXCEPT ![current[d]] = "published"]
    /\ UNCHANGED <<attempts, ripe, dead, outlived, stream, faults>>

\* The attempt that just failed; the budget counts from the claim's attempt_count.
Attempt(d) == known[d][current[d]] + 1
MutantNeverGivesUp(d) == FALSE
Exhausted(d) == Attempt(d) >= MaxAttempts

MarkRetry(d) ==
    /\ pc[d] = "failed" /\ ~Exhausted(d) /\ Advance(d)
    /\ state' = [state EXCEPT ![current[d]] = "pending"]
    /\ attempts' = [attempts EXCEPT ![current[d]] = Attempt(d)]
    /\ ripe' = [ripe EXCEPT ![current[d]] = FALSE]
    /\ UNCHANGED <<dead, outlived, stream, faults>>

DeadLetter(d) ==
    /\ pc[d] = "failed" /\ Exhausted(d) /\ current[d] \notin dead /\ Advance(d)
    /\ dead' = dead \cup {current[d]}
    /\ state' = [state EXCEPT ![current[d]] = "dead_letter"]
    /\ UNCHANGED <<attempts, ripe, outlived, stream, faults>>

\* The dead letter's id is a hash of the row's: the second INSERT breaks the primary key and
\* the exception ends the batch.
DeadLetterTwice(d) ==
    /\ pc[d] = "failed" /\ Exhausted(d) /\ current[d] \in dead /\ Drop(d)
    /\ UNCHANGED <<table, stream, faults>>

Finish(d) ==
    /\ pc[d] = "next" /\ batch[d] = {} /\ Drop(d)
    /\ UNCHANGED <<table, stream, faults>>

\* The database fails the write of an outcome.
MarkFails(d) ==
    /\ pc[d] \in {"accepted", "failed"} /\ Fault /\ Drop(d)
    /\ UNCHANGED <<table, stream>>

\* ... or the dispatcher dies, also between the commit of an outcome and the next row.
Die(d) ==
    /\ pc[d] # "idle" /\ Fault /\ Drop(d)
    /\ UNCHANGED <<table, stream>>

(***************************************************************************)
(* The specification.                                                      *)
(***************************************************************************)
Deliver(d) ==
    \/ \E r \in Rows : Publish(d, r)
    \/ Add(d) \/ MarkPublished(d) \/ MarkRetry(d) \/ DeadLetter(d) \/ DeadLetterTwice(d)
    \/ Finish(d)

Next ==
    \/ \E r \in Rows : Append(r) \/ Ripen(r)
    \/ \E d \in Dispatchers :
          Deliver(d) \/ MarkFails(d) \/ Die(d) \/ \E S \in SUBSET Rows : Claim(d, S)

Spec == Init /\ [][Next]_vars

\* A dispatcher at work goes on, time passes, and the beat's next tick takes a row that
\* stays due (the claim is ordered by available_at).
FairSpec ==
    /\ Spec
    /\ \A d \in Dispatchers : WF_vars(Deliver(d))
    /\ \A r \in Rows :
          /\ WF_vars(Ripen(r))
          /\ WF_vars(\E d \in Dispatchers, S \in SUBSET Rows : r \in S /\ Claim(d, S))

(***************************************************************************)
(* Properties.                                                             *)
(***************************************************************************)

\* No event is lost, whoever crashes and however many dispatchers write the same row: a row
\* leaves the queue only with its event in the stream or among the dead letters.
NothingLost ==
    \A r \in Rows :
        /\ state[r] = "published" => copies[r] > 0
        /\ state[r] = "dead_letter" => r \in dead

\* A claim excludes: unless its TTL ends under a dispatcher still at work, nobody else has
\* the row.  One slow batch does not open the rows of another.
ClaimExcludes ==
    \A d, e \in Dispatchers : d # e => Carried(d) \cap Carried(e) \subseteq outlived

\* A recorded outcome stays: no late write of another dispatcher reopens the row, which
\* would publish a published event again or revive a dead letter.
SettledIsFinal ==
    [][\A r \in Rows \ outlived :
         state[r] \in {"published", "dead_letter"} => state'[r] = state[r]]_vars

\* An event enters the stream once, and again only for something that failed: each failed
\* call, death or outlived claim costs at most one more entry, however the retries,
\* reclaims and late outcomes of overlapping dispatchers meet.
PublishedOnce == \A r \in Rows : copies[r] <= 1 + faults

\* XLEN and XADD are two commands: the stream exceeds its bound by less than one entry for
\* each dispatcher.
StreamBound == length <= MaxLength + Cardinality(Dispatchers) - 1

\* Every event is published or dead-lettered in the end, whatever fails or dies, as long as
\* no claim is outlived: a row that a dispatcher left claimed is taken up again.
EventSettles ==
    \A r \in Rows :
        state[r] # "absent" ~> state[r] \in {"published", "dead_letter"} \/ outlived # {}

(***************************************************************************)
(* The invariants behind the proofs (OutboxProofs).                        *)
(***************************************************************************)

\* What a dispatcher has in hand goes with where it is.
Hands ==
    \A d \in Dispatchers :
        /\ current[d] = NoRow <=> pc[d] \in {"idle", "next"}
        /\ pc[d] = "idle" => batch[d] = {}
        /\ current[d] \notin batch[d]
        /\ pc[d] = "accepted" => copies[current[d]] > 0

\* A row in a dispatcher's hands is claimed and its claim fresh, unless it was outlived.
ClaimHolds ==
    \A d \in Dispatchers : \A r \in Carried(d) \ outlived : state[r] = "claimed" /\ ~ripe[r]

\* A dispatcher that has passed the check of the length will add one entry.
Adding == {d \in Dispatchers : pc[d] = "adding"}
RoomForAll == length + Cardinality(Adding) <= MaxLength + Cardinality(Dispatchers) - 1

\* Who may still publish r: a dispatcher that carries it and has not heard that it was
\* accepted, and the next one to claim it, if the row is or will be due with nobody at it.
Holds(d, r) == r \in Carried(d) /\ ~(pc[d] = "accepted" /\ current[d] = r)
Holders(r) == {d \in Dispatchers : Holds(d, r)}
Claimable(r) ==
    \/ state[r] \in {"absent", "pending"}
    \/ state[r] = "claimed" /\ (ripe[r] \/ \A d \in Dispatchers : r \notin Carried(d))
Spare(r) == IF Claimable(r) THEN 1 ELSE 0

\* An entry, a holder and a claim to come each stand for the row's one publication or for
\* a fault.
Budget == \A r \in Rows : copies[r] + Cardinality(Holders(r)) + Spare(r) <= 1 + faults

OutboxInv == TypeOK /\ Hands /\ NothingLost /\ ClaimHolds /\ ClaimExcludes /\ RoomForAll
=============================================================================
