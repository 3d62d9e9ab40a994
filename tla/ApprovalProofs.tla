--------------------------- MODULE ApprovalProofs ---------------------------
(***************************************************************************)
(* Proofs about ApprovalGate, for any number of approvers, required votes, *)
(* calls and faults.                                                       *)
(***************************************************************************)
EXTENDS ApprovalGate, FiniteSetTheorems, TLAPS

(***************************************************************************)
(* The row and the votes.                                                  *)
(***************************************************************************)

\* Votes are never taken back, so a quorum stays one.
LEMMA MoreVotes ==
    ASSUME NEW U \in SUBSET Approvers, NEW V \in SUBSET U
    PROVE  /\ Cardinality(U) \in Nat /\ Cardinality(V) \in Nat
           /\ Cardinality(V) <= Cardinality(U)
<1>1. IsFiniteSet(U)
  BY ApprovalAssumption, FS_Subset
<1> QED
  BY <1>1, FS_Subset, FS_CardinalityType

\* No votes are no quorum.
LEMMA NoVotes == Cardinality({}) = 0
  BY FS_EmptySet

\* Nothing has been filed, read or told.
LEMMA InitInv == Init => ApprovalInv
<1> SUFFICES ASSUME Init PROVE ApprovalInv
  OBVIOUS
<1>1. TypeOK
  BY DEF Init, TypeOK, RowStatus, Status, Pending
<1>2. SeenIsTrue /\ CarriedIsTrue /\ Unfiled /\ Calm /\ AnswersAreTrue /\ AbandonedIsDenied
  BY DEF Init, SeenIsTrue, CarriedIsTrue, Unfiled, Calm, AnswersAreTrue, AbandonedIsDenied, Pending
<1>3. VotesBehind /\ QuorumInHand
  BY NoVotes DEF Init, VotesBehind, QuorumInHand
<1> QED
  BY <1>1, <1>2, <1>3 DEF ApprovalInv

(***************************************************************************)
(* Steps of the agent, the beat and the sweep leave the calls alone; the   *)
(* row only moves from pending to a resolution that is not an approval.    *)
(***************************************************************************)
\* A step of the agent or the beat writes the row only while it is pending, and no vote.
LEMMA NotAnApprover ==
    ASSUME ApprovalInv, UNCHANGED <<request, votes>>, TypeOK',
           \/ row' = row
           \/ agent = "start" /\ row' = "pending"
           \/ row = "pending" /\ row' \in {"timed_out", "expired"},
           (Unfiled /\ Calm /\ AbandonedIsDenied)', faults <= faults',
           obj' \in {"approved", "rejected"} => row' = obj',
           list' \in {"approved", "rejected"} => row' = list',
           agent' = "granted" => row' = "approved"
    PROVE  ApprovalInv'
<1> USE DEF ApprovalInv, request
<1>1. SeenIsTrue'
  BY DEF SeenIsTrue, Unfiled
<1>2. CarriedIsTrue' /\ AnswersAreTrue'
  <2>1. \A a \in Approvers : verb[a] \in {"approved", "rejected"}
    BY DEF TypeOK
  <2>2. row # row' => row \notin {"approved", "rejected"}
    BY DEF Unfiled
  <2> QED
    BY <2>1, <2>2 DEF CarriedIsTrue, AnswersAreTrue
<1>3. VotesBehind'
  BY DEF VotesBehind, Unfiled
<1>4. QuorumInHand'
  <2>1. row = "none" /\ Required > 1 => ~(Cardinality(votes) >= Required)
    BY NoVotes, ApprovalAssumption DEF VotesBehind
  <2>2. faults' = 0 => faults = 0
    BY DEF TypeOK
  <2> QED
    BY <2>1, <2>2 DEF QuorumInHand, Unfiled
<1> QED
  BY <1>1, <1>2, <1>3, <1>4

\* The agent, its goal and the expiry tasks.
LEMMA AgentSteps ==
    ASSUME ApprovalInv,
           AgentStep \/ GoalEnds \/ ExpireRow \/ ReleaseWaiters \/ ExpirePhantom
    PROVE  ApprovalInv'
<1> USE DEF ApprovalInv, Pending, Decisions
<1>1. UNCHANGED <<request, votes>>
  BY DEF AgentStep, GoalEnds, ExpireRow, ReleaseWaiters, ExpirePhantom, FileRequest, FileFails,
         WaitForApproval, RedisFails, DeadlinePasses, Route, Suspend, Resume, Decided, WakeByEvent,
         PopResult, PollRow, ExpireOwn, ExpiryLost, Honour
<1>2. /\ \/ row' = row
         \/ agent = "start" /\ row' = "pending"
         \/ row = "pending" /\ row' \in {"timed_out", "expired"}
      /\ faults' \in {faults, faults + 1}
  BY DEF AgentStep, GoalEnds, ExpireRow, ReleaseWaiters, ExpirePhantom, FileRequest, FileFails,
         WaitForApproval, RedisFails, DeadlinePasses, Route, Suspend, Resume, Decided, WakeByEvent,
         PopResult, PollRow, ExpireOwn, ExpiryLost, Honour, Won, WriteRow, Fault, NoFault
<1>3. TypeOK'
  <2>1. row' \in RowStatus /\ faults' \in Nat /\ votes' \subseteq Approvers
    BY <1>1, <1>2 DEF TypeOK, RowStatus
  <2>2. goal' \in Status
    BY DEF TypeOK, AgentStep, GoalEnds, ExpireRow, ReleaseWaiters, ExpirePhantom, FileRequest,
         FileFails, WaitForApproval, RedisFails, DeadlinePasses, Route, Suspend, Resume, Decided,
         WakeByEvent, PopResult, PollRow, ExpireOwn, ExpiryLost, Honour, Status, Written
  <2>3. list' \in {"empty", "approved", "rejected", "timed_out"} /\ release' \in BOOLEAN
    BY DEF TypeOK, AgentStep, GoalEnds, ExpireRow, ReleaseWaiters, ExpirePhantom, FileRequest,
         FileFails, WaitForApproval, RedisFails, DeadlinePasses, Route, Suspend, Resume, Decided,
         WakeByEvent, PopResult, PollRow, ExpireOwn, ExpiryLost, Honour
  <2>4. obj' \in Decisions \cup {Pending}
    BY DEF TypeOK, AgentStep, GoalEnds, ExpireRow, ReleaseWaiters, ExpirePhantom, FileRequest,
         FileFails, WaitForApproval, RedisFails, DeadlinePasses, Route, Suspend, Resume, Decided,
         WakeByEvent, PopResult, PollRow, ExpireOwn, ExpiryLost, Honour, Mapped, Settled, object
  <2>5. event' \in BOOLEAN /\ cached' \in BOOLEAN
    BY DEF TypeOK, AgentStep, GoalEnds, ExpireRow, ReleaseWaiters, ExpirePhantom, FileRequest,
         FileFails, WaitForApproval, RedisFails, DeadlinePasses, Route, Suspend, Resume, Decided,
         WakeByEvent, PopResult, PollRow, ExpireOwn, ExpiryLost, Honour, object, AfterWait, Return
  <2>6. agent' \in {"start", "filed", "waiting", "polling", "expiring", "reading", "suspending",
                    "parked", "done", "granted", "refused", "gone"}
    BY DEF TypeOK, AgentStep, GoalEnds, ExpireRow, ReleaseWaiters, ExpirePhantom, FileRequest,
         FileFails, WaitForApproval, RedisFails, DeadlinePasses, Route, Suspend, Resume, Decided,
         WakeByEvent, PopResult, PollRow, ExpireOwn, ExpiryLost, Honour, AfterWait, Return
  <2> QED
    BY <1>1, <2>1, <2>2, <2>3, <2>4, <2>5, <2>6 DEF TypeOK, request
<1>4. /\ obj' \in {"approved", "rejected"} => row' = obj'
      /\ list' \in {"approved", "rejected"} => row' = list'
      /\ agent' = "granted" => row' = "approved"
  <2> DEFINE Goal == /\ obj' \in {"approved", "rejected"} => row' = obj'
                     /\ list' \in {"approved", "rejected"} => row' = list'
                     /\ agent' = "granted" => row' = "approved"
  <2> USE DEF CarriedIsTrue, Return, AfterWait, object
  <2>1. CASE FileRequest \/ FileFails \/ WaitForApproval \/ RedisFails \/ DeadlinePasses
    BY <2>1 DEF FileRequest, FileFails, WaitForApproval, RedisFails, DeadlinePasses, Unfiled
  <2>2. CASE Route \/ Suspend \/ Resume \/ GoalEnds \/ WakeByEvent \/ ExpiryLost
    BY <2>2 DEF Route, Suspend, Resume, GoalEnds, WakeByEvent, ExpiryLost
  <2>3. CASE PopResult \/ PollRow \/ ExpireOwn \/ Honour
    BY <2>3 DEF PopResult, PollRow, ExpireOwn, Honour, Won, WriteRow, Mapped, Settled, TypeOK
  <2>4. CASE ExpireRow \/ ReleaseWaiters \/ ExpirePhantom
    BY <2>4 DEF ExpireRow, ReleaseWaiters, ExpirePhantom
  <2> QED
    BY <2>1, <2>2, <2>3, <2>4 DEF AgentStep, Decided
<1>5. (Unfiled /\ Calm /\ AbandonedIsDenied)'
  <2> USE DEF Unfiled, Calm, AbandonedIsDenied, Return, AfterWait, object, Mapped, Fault, NoFault
  <2>0. faults \in Nat /\ obj \in Decisions \cup {Pending} /\ row \in RowStatus
        /\ list \in {"empty", "approved", "rejected", "timed_out"}
    BY DEF TypeOK
  <2>1. CASE FileRequest \/ FileFails \/ WaitForApproval \/ RedisFails \/ DeadlinePasses
    BY <2>0, <2>1 DEF FileRequest, FileFails, WaitForApproval, RedisFails, DeadlinePasses
  <2>2. CASE Route \/ Suspend \/ Resume \/ GoalEnds \/ WakeByEvent \/ ExpiryLost
    BY <2>0, <2>2 DEF Route, Suspend, Resume, GoalEnds, WakeByEvent, ExpiryLost, Won
  <2>3. CASE PopResult \/ PollRow
    BY <2>0, <2>3 DEF PopResult, PollRow
  <2>4. CASE ExpireOwn
    BY <2>0, <2>4 DEF ExpireOwn, Won, WriteRow, Settled
  <2>5. CASE Honour
    BY <2>0, <2>5 DEF Honour, Settled, RowStatus
  <2>6. CASE ExpireRow \/ ReleaseWaiters \/ ExpirePhantom
    BY <2>0, <2>6 DEF ExpireRow, ReleaseWaiters, ExpirePhantom
  <2> QED
    BY <2>1, <2>2, <2>3, <2>4, <2>5, <2>6 DEF AgentStep, Decided
<1>6. faults <= faults'
  BY <1>2 DEF TypeOK
<1> QED
  BY <1>1, <1>2, <1>3, <1>4, <1>5, <1>6, NotAnApprover

(***************************************************************************)
(* Steps of the calls.                                                     *)
(***************************************************************************)


\* A step of one call: what the others have read, carry or were told stays true because
\* only a pending row changes; the rest is about the call itself.
LEMMA CallerStep ==
    ASSUME ApprovalInv, TypeOK', NEW a \in Approvers,
           \A b \in Approvers \ {a} :
               /\ pc'[b] = pc[b] /\ verb'[b] = verb[b]
               /\ answer'[b] = answer[b] /\ seen'[b] = seen[b],
           UNCHANGED <<agent, release>>, faults <= faults',
           row' = row \/ (row = "pending" /\ row' \in {"approved", "rejected"}),
           votes \subseteq votes', Cardinality(votes) <= Cardinality(votes'),
           seen'[a] # "none" => row' # "none" /\ (seen'[a] # "pending" => row' = seen'[a]),
           answer'[a] \in {"approved", "rejected"} => row' = answer'[a],
           pc'[a] \in {"applying", "publishing"} => row' = verb'[a],
           obj' \in {"approved", "rejected"} => row' = obj',
           list' \in {"approved", "rejected"} => row' = list',
           agent = "start" => obj' = Pending,
           Required > 1 =>
               /\ row' = "approved" => Cardinality(votes') >= Required
               /\ pc'[a] = "resolving" /\ verb'[a] = "approved" => Cardinality(votes') >= Required
               /\ pc'[a] = "voting" => verb'[a] = "approved" /\ row' # "none"
               /\ row' = "none" => votes' = {},
           Calm', QuorumInHand'
    PROVE  ApprovalInv'
<1> USE DEF ApprovalInv
<1>0. Cardinality(votes) \in Nat /\ Cardinality(votes') \in Nat /\ Required \in Nat
  BY MoreVotes, ApprovalAssumption DEF TypeOK
<1>1. SeenIsTrue'
  BY DEF SeenIsTrue
<1>2. CarriedIsTrue'
  <2>1. \A b \in Approvers : verb[b] \in {"approved", "rejected"}
    BY DEF TypeOK
  <2> QED
    BY <2>1 DEF CarriedIsTrue
<1>3. VotesBehind'
  BY <1>0 DEF VotesBehind
<1>4. Unfiled' /\ AnswersAreTrue' /\ AbandonedIsDenied'
  <2>1. faults' = 0 => faults = 0
    BY DEF TypeOK
  <2> QED
    BY <2>1 DEF Unfiled, AnswersAreTrue, AbandonedIsDenied
<1> QED
  BY <1>1, <1>2, <1>3, <1>4

\* An approver's call, up to its answer, its error or its death.
LEMMA Serving ==
    ASSUME ApprovalInv, NEW a \in Approvers,
           \/ Serve(a) \/ CallFails(a) \/ CallDies(a)
           \/ \E v \in {"approved", "rejected"}, h \in BOOLEAN : Call(a, v, h)
    PROVE  ApprovalInv'
<1> USE DEF ApprovalInv
<1> DEFINE Started == \E v \in {"approved", "rejected"}, h \in BOOLEAN : Call(a, v, h)
<1>1. /\ \A b \in Approvers \ {a} : /\ pc'[b] = pc[b] /\ verb'[b] = verb[b]
                                    /\ answer'[b] = answer[b] /\ seen'[b] = seen[b]
      /\ UNCHANGED <<goal, agent, release>> /\ faults' \in {faults, faults + 1}
      /\ row' = row \/ (row = "pending" /\ row' = verb[a])
      /\ votes' = votes \/ (pc[a] = "voting" /\ votes' = votes \cup {a})
  <2> USE DEF TypeOK, Goto, Answer, Proceed, Fault, NoFault, WriteRow, Won
  <2>1. CASE Started
    BY <2>1 DEF Call
  <2>2. CASE Merge(a) \/ CastVote(a) \/ Resolve(a)
    BY <2>2 DEF Merge, CastVote, Resolve
  <2>3. CASE Heal(a) \/ Apply(a) \/ Publish(a)
    BY <2>3 DEF Heal, Apply, Publish
  <2>4. CASE CallFails(a) \/ CallDies(a)
    BY <2>4 DEF CallFails, CallDies
  <2> QED BY <2>1, <2>2, <2>3, <2>4 DEF Serve
<1>2. TypeOK'
  <2>1. row' \in RowStatus /\ votes' \subseteq Approvers /\ goal' \in Status /\ release' \in BOOLEAN
        /\ faults' \in Nat
    BY <1>1 DEF TypeOK, RowStatus
  <2>2. /\ pc' \in [Approvers -> {"idle", "merging", "voting", "resolving", "healing", "applying",
                                  "publishing"}]
        /\ answer' \in [Approvers -> {"none", "approved", "rejected", "vote_recorded", "not_found",
                                      "unavailable"}]
    BY DEF TypeOK, Serve, Call, Merge, CastVote, Resolve, Heal, Apply, Publish, CallFails, CallDies,
           Goto, Answer, Proceed
  <2>3. /\ verb' \in [Approvers -> {"approved", "rejected"}] /\ shared' \in [Approvers -> BOOLEAN]
        /\ seen' \in [Approvers -> RowStatus]
        /\ calls' \in Nat
    <3>1. CASE Started
      BY <3>1 DEF TypeOK, Call
    <3>2. CASE ~Started
      BY <3>2 DEF TypeOK, Serve, Merge, CastVote, Resolve, Heal, Apply, Publish, CallFails, CallDies
    <3> QED BY <3>1, <3>2
  <2>4. /\ list' \in {"empty", "approved", "rejected", "timed_out"}
        /\ obj' \in Decisions \cup {Pending} /\ event' \in BOOLEAN /\ cached' \in BOOLEAN
    BY DEF TypeOK, Serve, Call, Merge, CastVote, Resolve, Heal, Apply, Publish, CallFails, CallDies,
           SetObject, Mapped, Decisions, object
  <2> QED
    BY <1>1, <2>1, <2>2, <2>3, <2>4 DEF TypeOK
<1>3. votes \subseteq votes' /\ Cardinality(votes) <= Cardinality(votes') /\ faults <= faults'
  BY <1>1, <1>2, MoreVotes DEF TypeOK
<1>4. /\ row' = row \/ (row = "pending" /\ row' \in {"approved", "rejected"})
      /\ seen'[a] # "none" => row' # "none" /\ (seen'[a] # "pending" => row' = seen'[a])
  <2>1. seen'[a] = seen[a] \/ (seen'[a] = row /\ row' = row)
    BY DEF TypeOK, Serve, Call, Merge, CastVote, Resolve, Heal, Apply, Publish, CallFails, CallDies
  <2> QED
    BY <1>1, <2>1 DEF TypeOK, SeenIsTrue
<1>5. /\ answer'[a] \in {"approved", "rejected"} => row' = answer'[a]
      /\ pc'[a] \in {"applying", "publishing"} => row' = verb'[a]
  <2> USE DEF TypeOK, Goto, Answer, Proceed, WriteRow, Won, CarriedIsTrue, AnswersAreTrue
  <2>1. CASE Started
    BY <2>1 DEF Call
  <2>2. CASE Merge(a) \/ CastVote(a) \/ Resolve(a)
    BY <2>2 DEF Merge, CastVote, Resolve
  <2>3. CASE Heal(a) \/ Apply(a) \/ Publish(a)
    BY <2>3 DEF Heal, Apply, Publish
  <2>4. CASE CallFails(a) \/ CallDies(a)
    BY <2>4 DEF CallFails, CallDies
  <2> QED BY <2>1, <2>2, <2>3, <2>4 DEF Serve
<1>6. /\ obj' \in {"approved", "rejected"} => row' = obj'
      /\ list' \in {"approved", "rejected"} => row' = list'
      /\ agent = "start" => obj' = Pending
  <2>1. obj' = obj \/ (row' = row /\ row # "none" /\ obj' \in {Pending, Mapped(row), row})
    <3>1. CASE Merge(a)
      BY <3>1 DEF Merge, SetObject, SeenIsTrue, TypeOK, Mapped, RowStatus, object, Pending, Decisions
    <3>2. CASE Heal(a)
      BY <3>2 DEF Heal, SetObject, Mapped, object, Pending, Decisions
    <3>3. CASE Apply(a)
      BY <3>3 DEF Apply, SetObject, object, CarriedIsTrue, TypeOK
    <3>4. CASE ~(Merge(a) \/ Heal(a) \/ Apply(a))
      BY <3>4 DEF Serve, Call, CastVote, Resolve, Publish, CallFails, CallDies, object
    <3> QED BY <3>1, <3>2, <3>3, <3>4
  <2>2. list' = list \/ (row' = row /\ list' = row)
    <3>1. CASE Publish(a)
      BY <3>1 DEF Publish, CarriedIsTrue
    <3>2. CASE ~Publish(a)
      BY <3>2 DEF Serve, Call, Merge, CastVote, Resolve, Heal, Apply, CallFails, CallDies
    <3> QED BY <3>1, <3>2
  <2> QED
    BY <1>4, <2>1, <2>2 DEF CarriedIsTrue, Mapped, Pending, Decisions, Unfiled
<1>7. Required > 1 =>
        /\ row' = "approved" => Cardinality(votes') >= Required
        /\ pc'[a] = "resolving" /\ verb'[a] = "approved" => Cardinality(votes') >= Required
        /\ pc'[a] = "voting" => verb'[a] = "approved" /\ row' # "none"
        /\ row' = "none" => votes' = {}
  <2> SUFFICES ASSUME Required > 1
               PROVE  /\ row' = "approved" => Cardinality(votes') >= Required
                      /\ pc'[a] = "resolving" /\ verb'[a] = "approved"
                            => Cardinality(votes') >= Required
                      /\ pc'[a] = "voting" => verb'[a] = "approved" /\ row' # "none"
                      /\ row' = "none" => votes' = {}
    OBVIOUS
  <2>0. Cardinality(votes) \in Nat /\ Cardinality(votes') \in Nat /\ Required \in Nat
    BY <1>2, MoreVotes, ApprovalAssumption DEF TypeOK
  <2>1. row' = "none" => votes' = {}
    BY <1>1 DEF VotesBehind, TypeOK
  <2>2. row' = "approved" => Cardinality(votes') >= Required
    <3>1. row' # row => row' = verb[a] /\ pc[a] = "resolving"
      BY DEF Serve, Call, Merge, CastVote, Resolve, Heal, Apply, Publish, CallFails, CallDies,
             WriteRow, Won
    <3> QED
      BY <1>3, <2>0, <3>1 DEF VotesBehind
  <2>3. pc'[a] = "voting" => verb'[a] = "approved" /\ row' # "none"
    <3> USE DEF TypeOK, Goto, Answer, Proceed
    <3>1. CASE Started
      BY <3>1 DEF Call
    <3>2. CASE Merge(a)
      BY <3>2 DEF Merge, SeenIsTrue
    <3>3. CASE ~(Started \/ Merge(a))
      BY <3>3 DEF Serve, CastVote, Resolve, Heal, Apply, Publish, CallFails, CallDies
    <3> QED BY <3>1, <3>2, <3>3
  <2>4. pc'[a] = "resolving" /\ verb'[a] = "approved" => Cardinality(votes') >= Required
    <3> USE DEF TypeOK, Goto, Answer, Proceed
    <3>1. CASE Started
      BY <3>1 DEF Call
    <3>2. CASE Merge(a)
      BY <3>2 DEF Merge
    <3>3. CASE CastVote(a)
      BY <3>3 DEF CastVote, Quorum
    <3>4. CASE ~(Started \/ Merge(a) \/ CastVote(a))
      BY <3>4 DEF Serve, Resolve, Heal, Apply, Publish, CallFails, CallDies
    <3> QED BY <3>1, <3>2, <3>3, <3>4
  <2> QED BY <2>1, <2>2, <2>3, <2>4
<1>8. Calm'
  <2> SUFFICES ASSUME faults' = 0, faults = 0
               PROVE  /\ agent # "start" => row' # "none"
                      /\ obj' # Pending => Mapped(row') = obj'
                      /\ list' # "empty" => Mapped(row') = list'
                      /\ release => row' = "timed_out"
                      /\ agent = "reading" => row' # "pending"
    BY <1>1 DEF Calm, TypeOK
  <2>1. obj' = obj \/ (row' = row /\ obj' \in {Pending, Mapped(row)})
    <3>1. CASE Merge(a)
      BY <3>1 DEF Merge, SetObject, SeenIsTrue, TypeOK, Mapped, RowStatus, object, Decisions
    <3>2. CASE Heal(a)
      BY <3>2 DEF Heal, SetObject, object
    <3>3. CASE Apply(a)
      BY <3>3 DEF Apply, SetObject, object, CarriedIsTrue, TypeOK, Mapped, Decisions
    <3>4. CASE ~(Merge(a) \/ Heal(a) \/ Apply(a))
      BY <3>4 DEF Serve, Call, CastVote, Resolve, Publish, CallFails, CallDies, object
    <3> QED BY <3>1, <3>2, <3>3, <3>4
  <2>2. list' = list \/ (row' = row /\ list' = Mapped(row))
    <3>1. CASE Publish(a)
      BY <3>1 DEF Publish, CarriedIsTrue, TypeOK, Mapped, Decisions
    <3>2. CASE ~Publish(a)
      BY <3>2 DEF Serve, Call, Merge, CastVote, Resolve, Heal, Apply, CallFails, CallDies
    <3> QED BY <3>1, <3>2
  <2> QED
    BY <1>4, <2>1, <2>2 DEF Calm, Mapped, Pending, Decisions, TypeOK
<1>9. QuorumInHand'
  <2> SUFFICES ASSUME faults' = 0, faults = 0, Required > 1, Cardinality(votes') >= Required,
                      row' = "pending", row = "pending"
               PROVE  \E b \in Approvers : pc'[b] = "resolving" /\ verb'[b] = "approved"
    BY <1>1, <1>4 DEF QuorumInHand, TypeOK
  <2>1. CASE CastVote(a)
    BY <2>1 DEF CastVote, Quorum, Goto, Answer, TypeOK, VotesBehind
  <2>2. CASE ~CastVote(a)
    <3>1. pc[a] # "resolving" /\ votes' = votes
      <4>1. ~(CallFails(a) \/ CallDies(a))
        BY DEF CallFails, CallDies, Fault
      <4>2. ~Resolve(a)
        BY DEF Resolve, WriteRow, Won, TypeOK
      <4> QED
        BY <2>2, <4>1, <4>2 DEF Serve, Call, Merge, Heal, Apply, Publish
    <3>2. PICK b \in Approvers : pc[b] = "resolving" /\ verb[b] = "approved"
      BY <3>1 DEF QuorumInHand
    <3> QED
      BY <1>1, <3>1, <3>2
  <2> QED BY <2>1, <2>2
<1> QED
  BY <1>1, <1>2, <1>3, <1>4, <1>5, <1>6, <1>7, <1>8, <1>9, CallerStep

\* The agent's process dies.
LEMMA HomeGone ==
    ASSUME ApprovalInv, HomeDies
    PROVE  ApprovalInv'
<1> USE DEF ApprovalInv
<1>1. faults' # 0 /\ TypeOK'
  <2>1. faults' # 0 /\ faults' \in Nat
    BY DEF HomeDies, Fault, TypeOK
  <2>2. pc' \in [Approvers -> {"idle", "merging", "voting", "resolving", "healing", "applying",
                              "publishing"}]
    BY DEF HomeDies, TypeOK
  <2> QED
    BY <2>1, <2>2 DEF HomeDies, TypeOK
<1>2. \A a \in Approvers : pc'[a] \in {"idle", pc[a]}
  BY DEF HomeDies
<1>3. SeenIsTrue' /\ CarriedIsTrue' /\ VotesBehind' /\ AnswersAreTrue'
  BY <1>2 DEF HomeDies, SeenIsTrue, CarriedIsTrue, VotesBehind, AnswersAreTrue
<1>4. Unfiled' /\ Calm' /\ AbandonedIsDenied' /\ QuorumInHand'
  BY <1>1 DEF HomeDies, Unfiled, Calm, AbandonedIsDenied, QuorumInHand
<1> QED
  BY <1>1, <1>3, <1>4

\* Every step is one of the two kinds.
LEMMA Invariance == Spec => []ApprovalInv
<1>1. ApprovalInv /\ [Next]_vars => ApprovalInv'
  <2> SUFFICES ASSUME ApprovalInv, [Next]_vars PROVE ApprovalInv'
    OBVIOUS
  <2>1. CASE UNCHANGED vars
    BY <2>1 DEF ApprovalInv, vars, object, request, TypeOK, SeenIsTrue, CarriedIsTrue, VotesBehind,
        Unfiled, Calm, AnswersAreTrue, AbandonedIsDenied, QuorumInHand
  <2>2. CASE Next
    BY <2>2, AgentSteps, Serving, HomeGone DEF Next
  <2> QED BY <2>1, <2>2
<1> QED
  BY <1>1, InitInv, PTL DEF Spec

(***************************************************************************)
(* The properties.                                                         *)
(***************************************************************************)

\* ApprovalGate is well typed.
THEOREM ApprovalTypeOK == Spec => []TypeOK
<1>1. ApprovalInv => TypeOK
  BY DEF ApprovalInv
<1> QED
  BY <1>1, Invariance, PTL

\* No gated action runs without an approval in the database and its quorum, whichever
\* of event, Redis list and poll told the agent, and whatever failed.
THEOREM GrantsAreApproved == Spec => []GrantedIsApproved
<1>1. ApprovalInv => GrantedIsApproved
  BY DEF ApprovalInv, GrantedIsApproved, CarriedIsTrue, VotesBehind
<1> QED
  BY <1>1, Invariance, PTL

\* What a caller was told is what the row says.
THEOREM TrueAnswers == Spec => []AnswersAreTrue
<1>1. ApprovalInv => AnswersAreTrue
  BY DEF ApprovalInv
<1> QED
  BY <1>1, Invariance, PTL

\* Without failures the agent abandons only what the row denies.
THEOREM NothingAbandoned == Spec => []AbandonedIsDenied
<1>1. ApprovalInv => AbandonedIsDenied
  BY DEF ApprovalInv
<1> QED
  BY <1>1, Invariance, PTL

\* Without failures the vote that completes the quorum resolves the request.
THEOREM QuorumsResolve == Spec => []QuorumResolves
<1>1. ApprovalInv => QuorumResolves
  BY DEF ApprovalInv, QuorumResolves, QuorumInHand
<1> QED
  BY <1>1, Invariance, PTL

(***************************************************************************)
(* The abstract specification.                                             *)
(***************************************************************************)

\* Every step preserves ToldNeverVotes: a call that votes has read "pending", and nobody
\* had been told a decision by then.
LEMMA ToldStep ==
    ASSUME ApprovalInv, ToldNeverVotes, [Next]_vars PROVE ToldNeverVotes'
<1> USE DEF ApprovalInv, request
<1>a. /\ pc \in [Approvers -> {"idle", "merging", "voting", "resolving", "healing", "applying",
                                "publishing"}]
      /\ answer \in [Approvers -> {"none", "approved", "rejected", "vote_recorded", "not_found",
                                    "unavailable"}]
      /\ seen \in [Approvers -> RowStatus]
  BY DEF TypeOK
<1>1. CASE UNCHANGED <<pc, answer, seen>>
  BY <1>1 DEF ToldNeverVotes
<1>2. CASE HomeDies
  BY <1>2, <1>a DEF HomeDies, ToldNeverVotes
<1>3. ASSUME NEW a \in Approvers, Serve(a) \/ CallFails(a) \/ CallDies(a)
      PROVE  ToldNeverVotes'
  <2>1. CASE Merge(a)
    BY <2>1, <1>a DEF Merge, Proceed, Goto, Answer, ToldNeverVotes
  <2>2. CASE CastVote(a) \/ Resolve(a) \/ Heal(a) \/ Apply(a)
    BY <2>2, <1>a DEF CastVote, Resolve, Heal, Apply, Goto, Answer, ToldNeverVotes
  <2>3. CASE Publish(a) \/ CallFails(a) \/ CallDies(a)
    BY <2>3, <1>a DEF Publish, CallFails, CallDies, Answer, ToldNeverVotes
  <2> QED BY <1>3, <2>1, <2>2, <2>3 DEF Serve
<1>4. ASSUME NEW a \in Approvers, NEW v \in {"approved", "rejected"}, NEW h \in BOOLEAN,
             Call(a, v, h)
      PROVE  ToldNeverVotes'
  <2>1. CASE v = "rejected" /\ h /\ cached
    BY <1>4, <2>1, <1>a DEF Call, Proceed, Goto, Answer, ToldNeverVotes
  <2>2. CASE ~(v = "rejected" /\ h /\ cached)
    <3>1. /\ pc' = [pc EXCEPT ![a] = "merging"] /\ seen' = [seen EXCEPT ![a] = row]
          /\ UNCHANGED answer
      BY <1>4, <2>2 DEF Call, Goto
    <3>2. row = "pending" => answer[a] \notin {"approved", "rejected"}
      BY DEF AnswersAreTrue
    <3> QED BY <3>1, <3>2, <1>a DEF ToldNeverVotes
  <2> QED BY <2>1, <2>2
<1>5. CASE AgentStep \/ GoalEnds \/ ExpireRow \/ ReleaseWaiters \/ ExpirePhantom
  <2>1. UNCHANGED request
    BY <1>5 DEF AgentStep, GoalEnds, ExpireRow, ReleaseWaiters, ExpirePhantom, FileRequest,
        FileFails, WaitForApproval, RedisFails, DeadlinePasses, Route, Suspend, Resume,
        Decided, WakeByEvent, PopResult, PollRow, ExpireOwn, ExpiryLost, Honour
  <2> QED BY <1>1, <2>1
<1>6. CASE UNCHANGED vars
  BY <1>1, <1>6 DEF vars
<1> QED BY <1>2, <1>3, <1>4, <1>5, <1>6 DEF Next

\* What one step of the gateway is for ApprovalDecision: a step, or nothing.
AbstractStep == [Decision!Next]_<<DecisionOf(row), votes, Told, Outcome>>

\* A step outside the calls: the request lapses, or the agent takes a decision or goes.
LEMMA OutsideCalls ==
    ASSUME TypeOK, UNCHANGED <<answer, votes>>,
           \/ row' = row
           \/ row = "none" /\ row' = "pending"
           \/ row = "pending" /\ row' \in {"timed_out", "expired"},
           \/ Outcome' = Outcome
           \/ Outcome = "open" /\ Outcome' = "granted" /\ row' = "approved"
           \/ Outcome = "open" /\ Outcome' = "refused"
           \/ Outcome # "gone" /\ Outcome' = "gone" /\ row' = row
    PROVE  AbstractStep
<1>1. Told' = Told
  BY DEF Told
<1>2. DecisionOf(row)' = DecisionOf(row')
  BY DEF DecisionOf
<1>3. \/ DecisionOf(row') = DecisionOf(row)
      \/ DecisionOf(row) = "open" /\ DecisionOf(row') = "lapsed"
  BY DEF DecisionOf
<1>4. CASE Outcome' = Outcome
  BY <1>1, <1>2, <1>3, <1>4 DEF AbstractStep, Decision!Next, Decision!Decide
<1>5. CASE Outcome = "open" /\ Outcome' = "granted" /\ row' = "approved"
  <2>1. DecisionOf(row) = "approved" /\ DecisionOf(row') = "approved"
    BY <1>5 DEF DecisionOf
  <2> QED BY <1>1, <1>2, <1>5, <2>1 DEF AbstractStep, Decision!Next, Decision!Grant
<1>6. CASE Outcome = "open" /\ Outcome' = "refused"
  BY <1>1, <1>2, <1>3, <1>6 DEF AbstractStep, Decision!Next, Decision!GiveUp
<1>7. CASE Outcome # "gone" /\ Outcome' = "gone" /\ row' = row
  BY <1>1, <1>2, <1>7 DEF AbstractStep, Decision!Next, Decision!Vanish
<1> QED BY <1>4, <1>5, <1>6, <1>7

\* A step that nobody outside the gateway can notice.
LEMMA Unheard ==
    ASSUME UNCHANGED <<row, votes, agent, answer>> PROVE AbstractStep
  BY DEF AbstractStep, DecisionOf, Told, Outcome

\* An approver's call ends and changes nothing else.
LEMMA Telling ==
    ASSUME TypeOK, NEW a \in Approvers, NEW s, UNCHANGED <<row, votes, agent>>,
           answer' = [answer EXCEPT ![a] = s],
           s \in {"approved", "rejected"} => row = s
    PROVE  AbstractStep
<1> DEFINE t == IF s \in {"approved", "rejected"} THEN s ELSE "nothing"
<1>1. Told' = [Told EXCEPT ![a] = t]
  BY DEF Told, TypeOK
<1>2. t \in {"nothing", DecisionOf(row)} \ {"open", "lapsed"} /\ t \in {"nothing", "approved", "rejected"}
  BY DEF DecisionOf
<1>3. UNCHANGED <<DecisionOf(row), Outcome>>
  BY DEF DecisionOf, Outcome
<1>4. Decision!Tell(a, t)
  BY <1>1, <1>2, <1>3 DEF Decision!Tell
<1> QED BY <1>2, <1>4 DEF AbstractStep, Decision!Next

\* A vote is recorded, for somebody who has not been told anything.
LEMMA Voting ==
    ASSUME TypeOK, NEW a \in Approvers, UNCHANGED <<row, agent, Told>>,
           votes' \in {votes, votes \cup {a}}
    PROVE  AbstractStep
<1>1. UNCHANGED <<DecisionOf(row), Outcome>>
  BY DEF DecisionOf, Outcome
<1> QED BY <1>1 DEF AbstractStep, Decision!Next, Decision!Vote

\* The deciding write of a call that has its votes.
LEMMA Deciding ==
    ASSUME TypeOK, NEW a \in Approvers, UNCHANGED <<votes, agent, Told>>,
           row' = row \/ (row = "pending" /\ row' = verb[a]),
           verb[a] = "approved" /\ Required > 1 => Cardinality(votes) >= Required
    PROVE  AbstractStep
<1>1. UNCHANGED Outcome /\ DecisionOf(row)' = DecisionOf(row')
  BY DEF DecisionOf, Outcome
<1>2. CASE row' = row
  BY <1>1, <1>2 DEF AbstractStep
<1>3. CASE row = "pending" /\ row' = verb[a]
  <2>1. verb[a] \in {"approved", "rejected"}
    BY DEF TypeOK
  <2>2. DecisionOf(row) = "open" /\ DecisionOf(row') = verb[a]
    BY <1>3, <2>1 DEF DecisionOf
  <2>3. Decision!Decide(verb[a])
    BY <1>1, <2>2 DEF Decision!Decide, Quorums, TypeOK
  <2> QED BY <2>1, <2>3 DEF AbstractStep, Decision!Next
<1> QED BY <1>2, <1>3

\* Every step of the gateway is a step of ApprovalDecision or changes nothing of it.
LEMMA DecisionStep ==
    ASSUME ApprovalInv, ApprovalInv', ToldNeverVotes, [Next]_vars PROVE AbstractStep
<1> USE DEF ApprovalInv
<1>1. CASE AgentStep \/ GoalEnds \/ ExpireRow \/ ReleaseWaiters \/ ExpirePhantom \/ HomeDies
  <2>1. UNCHANGED <<answer, votes>>
    BY <1>1 DEF AgentStep, GoalEnds, ExpireRow, ReleaseWaiters, ExpirePhantom, HomeDies,
        FileRequest, FileFails, WaitForApproval, RedisFails, DeadlinePasses, Route, Suspend,
        Resume, Decided, WakeByEvent, PopResult, PollRow, ExpireOwn, ExpiryLost, Honour, request
  <2>2. /\ \/ row' = row
           \/ row = "none" /\ row' = "pending"
           \/ row = "pending" /\ row' \in {"timed_out", "expired"}
        /\ agent # "gone" /\ agent' = "gone" => row' = row
    <3>1. CASE AgentStep
      <4>1. CASE FileRequest \/ FileFails \/ RedisFails \/ Route \/ Suspend \/ Resume
        BY <4>1 DEF FileRequest, FileFails, RedisFails, Route, Suspend, Resume, Unfiled
      <4>2. CASE WaitForApproval \/ DeadlinePasses \/ WakeByEvent \/ PopResult \/ PollRow
                 \/ ExpiryLost \/ Honour
        BY <4>2 DEF WaitForApproval, DeadlinePasses, WakeByEvent, PopResult, PollRow,
            ExpiryLost, Honour
      <4>3. CASE ExpireOwn
        BY <4>3 DEF ExpireOwn, Won, WriteRow, Return
      <4> QED BY <3>1, <4>1, <4>2, <4>3 DEF AgentStep, Decided
    <3>2. CASE GoalEnds \/ ReleaseWaiters \/ HomeDies
      BY <3>2 DEF GoalEnds, ReleaseWaiters, HomeDies
    <3>3. CASE ExpireRow \/ ExpirePhantom
      BY <3>3 DEF ExpireRow, ExpirePhantom
    <3> QED BY <1>1, <3>1, <3>2, <3>3
  <2>3. \/ agent' = agent
        \/ agent \notin {"granted", "refused", "gone"}
        \/ agent # "gone" /\ agent' = "gone"
    BY <1>1 DEF AgentStep, GoalEnds, ExpireRow, ReleaseWaiters, ExpirePhantom, HomeDies,
        FileRequest, FileFails, WaitForApproval, RedisFails, DeadlinePasses, Route, Suspend,
        Resume, Decided, WakeByEvent, PopResult, PollRow, ExpireOwn, ExpiryLost, Honour
  <2>4. agent' = "granted" => row' = "approved"
    BY DEF CarriedIsTrue
  <2>5. \/ Outcome' = Outcome
        \/ Outcome = "open" /\ Outcome' = "granted" /\ row' = "approved"
        \/ Outcome = "open" /\ Outcome' = "refused"
        \/ Outcome # "gone" /\ Outcome' = "gone" /\ row' = row
    BY <2>2, <2>3, <2>4 DEF Outcome
  <2> QED BY <2>1, <2>2, <2>5, OutsideCalls
<1>2. ASSUME NEW a \in Approvers, NEW v \in {"approved", "rejected"}, NEW h \in BOOLEAN,
             Call(a, v, h)
      PROVE  AbstractStep
  <2>1. /\ UNCHANGED <<row, votes, agent>>
        /\ answer' \in {answer, [answer EXCEPT ![a] = "not_found"]}
    BY <1>2 DEF Call, Proceed, Goto, Answer
  <2> QED BY <2>1, Unheard, Telling
<1>3. ASSUME NEW a \in Approvers, Serve(a) \/ CallFails(a) \/ CallDies(a)
      PROVE  AbstractStep
  <2>1. CASE Merge(a) \/ Heal(a) \/ Apply(a) \/ Publish(a) \/ CallDies(a)
    <3>1. /\ UNCHANGED <<row, votes, agent>>
          /\ \/ answer' \in {answer, [answer EXCEPT ![a] = "not_found"],
                              [answer EXCEPT ![a] = "none"]}
             \/ answer' = [answer EXCEPT ![a] = verb[a]] /\ row = verb[a]
      BY <2>1 DEF Merge, Heal, Apply, Publish, CallDies, Proceed, Goto, Answer, CarriedIsTrue
    <3> QED BY <3>1, Unheard, Telling
  <2>2. CASE CastVote(a)
    <3>1. /\ UNCHANGED <<row, agent>> /\ votes' = votes \cup {a} /\ pc[a] = "voting"
          /\ answer' \in {answer, [answer EXCEPT ![a] = "vote_recorded"]}
      BY <2>2 DEF CastVote, Goto, Answer
    <3>2. Told' = Told
      BY <3>1 DEF Told, ToldNeverVotes, TypeOK
    <3> QED BY <3>1, <3>2, Voting
  <2>3. CASE Resolve(a)
    <3>1. UNCHANGED <<votes, agent>> /\ pc[a] = "resolving"
      BY <2>3 DEF Resolve
    <3>2. CASE row = "pending"
      <4>1. row' = verb[a] /\ UNCHANGED answer
        BY <2>3, <3>2 DEF Resolve, WriteRow, Won, Goto
      <4>2. Told' = Told
        BY <4>1 DEF Told
      <4> QED BY <3>1, <3>2, <4>1, <4>2, Deciding DEF VotesBehind
    <3>3. CASE row # "pending"
      <4>1. row' = row /\ answer' \in {answer, [answer EXCEPT ![a] = "not_found"]}
        BY <2>3, <3>3 DEF Resolve, WriteRow, Won, Goto, Answer
      <4> QED BY <3>1, <4>1, Unheard, Telling
    <3> QED BY <3>2, <3>3
  <2>4. CASE CallFails(a)
    <3>1. UNCHANGED agent /\ answer' = [answer EXCEPT ![a] = "unavailable"]
      BY <2>4 DEF CallFails, Answer
    <3>2. CASE pc[a] = "merging" /\ UNCHANGED <<row, votes>>
      BY <3>1, <3>2, Telling
    <3>3. CASE pc[a] = "voting" /\ votes' \in {votes, votes \cup {a}} /\ UNCHANGED row
      <4>1. Told' = Told
        BY <3>1, <3>3 DEF Told, ToldNeverVotes, TypeOK
      <4> QED BY <3>1, <3>3, <4>1, Voting
    <3>4. CASE pc[a] = "resolving" /\ (UNCHANGED row \/ WriteRow(verb[a])) /\ UNCHANGED votes
      <4>1. CASE row' = row
        BY <3>1, <3>4, <4>1, Telling
      <4>2. CASE row = "pending" /\ row' = verb[a]
        <5>1. answer[a] \notin {"approved", "rejected"}
          BY <4>2 DEF AnswersAreTrue
        <5>2. Told' = Told
          BY <3>1, <5>1 DEF Told, TypeOK
        <5> QED BY <3>1, <3>4, <4>2, <5>2, Deciding DEF VotesBehind
      <4> QED BY <3>4, <4>1, <4>2 DEF WriteRow, Won
    <3> QED BY <2>4, <3>2, <3>3, <3>4 DEF CallFails
  <2> QED BY <1>3, <2>1, <2>2, <2>3, <2>4 DEF Serve
<1>4. CASE UNCHANGED vars
  BY <1>4, Unheard DEF vars, request
<1> QED BY <1>1, <1>2, <1>3, <1>4 DEF Next

\* ApprovalGate implements ApprovalDecision: through any interleaving of calls, channels,
\* expiries and failures, there is one decision, taken once and with its votes, and the
\* agent acts at most once, and only after an approval.
THEOREM GateIsOneDecision == Spec => ImplementsDecision
<1>1. Init => Decision!Init
  BY DEF Init, Decision!Init, DecisionOf, Told, Outcome
<1>2. Init => ToldNeverVotes
  BY DEF Init, ToldNeverVotes
<1>3. ApprovalInv /\ ToldNeverVotes /\ [Next]_vars => ToldNeverVotes'
  BY ToldStep
<1>4. ApprovalInv /\ ApprovalInv' /\ ToldNeverVotes /\ [Next]_vars =>
         [Decision!Next]_<<DecisionOf(row), votes, Told, Outcome>>
  BY DecisionStep DEF AbstractStep
<1> QED
  BY <1>1, <1>2, <1>3, <1>4, Invariance, PTL DEF Spec, ImplementsDecision, Decision!Spec
=============================================================================
