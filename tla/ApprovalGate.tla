---------------------------- MODULE ApprovalGate ----------------------------
(***************************************************************************)
(* One approval request (app/governance/hitl.py with a database behind     *)
(* it): an agent files it and blocks, or ends its graph and parks the goal *)
(* for a human; approvers decide it on any replica; the beat expires it.   *)
(* The row of approval_requests arbitrates, but the agent learns of the    *)
(* decision through the request object that its process caches, through a  *)
(* Redis list, or from the row when those fail.                            *)
(*                                                                         *)
(* "Home" is the agent's process.  A call served there works on the        *)
(* agent's own object, a call elsewhere on a copy of the row.  An action   *)
(* is one transaction or call with the local work up to the next await.    *)
(***************************************************************************)
EXTENDS GoalStatus, Naturals, FiniteSets

CONSTANTS
    Approvers,      \* people with the approver role; each makes one call at a time
    Required,       \* required_approvers of the request
    MaxCalls,       \* bound: approve and reject calls
    MaxFaults       \* bound: failed calls to Postgres or Redis, deaths

ASSUME ApprovalAssumption ==
    /\ IsFiniteSet(Approvers)
    /\ Required \in Nat \ {0} /\ MaxCalls \in Nat /\ MaxFaults \in Nat

VARIABLES
    row,            \* approval_requests.status ("none": not inserted)
    votes,          \* approval_votes: who voted
    goal,           \* goals.status of the agent's goal
    list,           \* the Redis list hitl_result:{id}
    obj, event,     \* the request object at home: its status, and its asyncio.Event
    cached,         \* is it in home's request cache?
    agent,          \* where the agent is
    pc, verb,       \* each approver's call: where it is, what it asks
    shared,         \* does it work on the agent's object?
    seen,           \* the status its SELECT returned
    answer,         \* what its last call was told
    release,        \* the beat has expired the row and not told the agent yet
    calls, faults

object  == <<obj, event, cached>>
request == <<pc, verb, shared, seen, answer, calls>>
vars == <<row, votes, goal, list, object, agent, request, release, faults>>

Pending == "pending"
RowStatus == {"none", "pending", "approved", "rejected", "timed_out", "expired"}
Decisions == {"approved", "rejected", "timed_out"}

\* _STATUS_BY_DB_VALUE; an unknown status reads as pending.
MutantUnmapped(s) == IF s = "none" THEN Pending ELSE s
Mapped(s) == IF s = "expired" THEN "timed_out" ELSE IF s \in Decisions THEN s ELSE Pending

TypeOK ==
    /\ row \in RowStatus /\ votes \subseteq Approvers /\ goal \in Status
    /\ list \in {"empty", "approved", "rejected", "timed_out"}
    /\ obj \in Decisions \cup {Pending} /\ event \in BOOLEAN /\ cached \in BOOLEAN
    /\ agent \in {"start", "filed", "waiting", "polling", "expiring", "reading", "suspending",
                  "parked", "done", "granted", "refused", "gone"}
    /\ pc \in [Approvers -> {"idle", "merging", "voting", "resolving", "healing", "applying",
                             "publishing"}]
    /\ verb \in [Approvers -> {"approved", "rejected"}]
    /\ shared \in [Approvers -> BOOLEAN] /\ seen \in [Approvers -> RowStatus]
    /\ answer \in [Approvers -> {"none", "approved", "rejected", "vote_recorded", "not_found",
                                 "unavailable"}]
    /\ release \in BOOLEAN /\ calls \in Nat /\ faults \in Nat

Init ==
    /\ row = "none" /\ votes = {} /\ goal = "executing" /\ list = "empty"
    /\ obj = Pending /\ event = FALSE /\ cached = FALSE /\ agent = "start"
    /\ pc = [a \in Approvers |-> "idle"] /\ verb = [a \in Approvers |-> "approved"]
    /\ shared = [a \in Approvers |-> FALSE] /\ seen = [a \in Approvers |-> "none"]
    /\ answer = [a \in Approvers |-> "none"]
    /\ release = FALSE /\ calls = 0 /\ faults = 0

(***************************************************************************)
(* Building blocks.                                                        *)
(***************************************************************************)
Fault == faults < MaxFaults /\ faults' = faults + 1
NoFault == UNCHANGED faults

\* The object takes status s and its event is set (req.status = s; req._event.set()).
SetObject(s) == obj' = s /\ event' = TRUE /\ UNCHANGED cached

\* _db_update_resolution: UPDATE ... WHERE status = 'pending'.
MutantDecidesAgain == row # "none"
Won == row = "pending"
WriteRow(s) == row' = IF Won THEN s ELSE row

(***************************************************************************)
(* The agent.                                                              *)
(***************************************************************************)

\* request_approval_async: the row is written before anybody waits.
FileRequest ==
    /\ agent = "start" /\ agent' = "filed" /\ cached' = TRUE
    /\ row' = "pending"
    /\ UNCHANGED <<votes, goal, list, obj, event, request, release, faults>>

\* It cannot be written: with require_persisted the request is dropped and the action
\* refused, without it the agent waits for a request nobody can see.
FileFails ==
    /\ agent = "start" /\ Fault
    /\ \/ agent' = "refused" /\ UNCHANGED cached
       \/ agent' = "filed" /\ cached' = TRUE
    /\ UNCHANGED <<row, votes, goal, list, obj, event, request, release>>

\* A pending object takes the outcome of the agent's own expiry.
Settled(final) == IF obj = Pending THEN final ELSE obj

\* wait_for_approval returns status s, and the decided request leaves the cache.
Return(s) == agent' = (IF s = "approved" THEN "granted" ELSE "refused") /\ cached' = FALSE

\* After the wait: whatever woke the agent, a request that still reads pending expires.
AfterWait ==
    IF obj = Pending THEN agent' = "expiring" /\ UNCHANGED cached ELSE Return(obj)

WaitForApproval ==
    /\ agent = "filed"
    /\ IF obj = Pending THEN agent' = "waiting" /\ UNCHANGED cached ELSE Return(obj)
    /\ UNCHANGED <<row, votes, goal, list, obj, event, request, release, faults>>

\* The event ends the wait, also when BLPOP took the result meanwhile.
WakeByEvent ==
    /\ agent \in {"waiting", "polling"} /\ event
    /\ list' \in {list, IF agent = "waiting" THEN "empty" ELSE list}
    /\ AfterWait
    /\ UNCHANGED <<row, votes, goal, obj, event, request, release, faults>>

\* BLPOP returns a decision.
PopResult ==
    /\ agent = "waiting" /\ ~event /\ list # "empty" /\ list' = "empty"
    /\ obj' = IF obj = Pending THEN list ELSE obj
    /\ event' = TRUE /\ Return(obj')
    /\ UNCHANGED <<row, votes, goal, request, release, faults>>

\* BLPOP fails: poll the row instead.
RedisFails ==
    /\ agent = "waiting" /\ ~event /\ Fault /\ agent' = "polling"
    /\ UNCHANGED <<row, votes, goal, list, object, request, release>>

PollRow ==
    /\ agent = "polling" /\ Mapped(row) # Pending
    /\ obj' = Mapped(row) /\ event' = TRUE /\ Return(obj')
    /\ UNCHANGED <<row, votes, goal, list, request, release, faults>>

\* The wait's own deadline.
DeadlinePasses ==
    /\ agent \in {"waiting", "polling"} /\ AfterWait
    /\ UNCHANGED <<row, votes, goal, list, obj, event, request, release, faults>>

\* The timeout is written to the row like any other decision; an error is logged and
\* the agent gives up (the write may have gone through).
MutantExpiresLocally ==
    /\ agent = "expiring" /\ obj' = Settled("timed_out") /\ event' = TRUE /\ Return(obj')
    /\ UNCHANGED <<row, votes, goal, list, request, release, faults>>
ExpireOwn ==
    /\ agent = "expiring"
    /\ \/ Won /\ row' = "expired" /\ NoFault
       \/ Fault /\ (UNCHANGED row \/ WriteRow("expired"))
    /\ obj' = Settled("timed_out") /\ event' = TRUE /\ Return(obj')
    /\ UNCHANGED <<votes, goal, list, request, release>>

ExpiryLost ==
    /\ agent = "expiring" /\ ~Won /\ agent' = "reading"
    /\ UNCHANGED <<row, votes, goal, list, object, request, release, faults>>

\* ... and a decision that came first is honoured, if it can be read.
Honour ==
    /\ agent = "reading"
    /\ \/ obj' = Settled(IF Mapped(row) = Pending THEN "timed_out" ELSE Mapped(row)) /\ NoFault
       \/ obj' = Settled("timed_out") /\ Fault
    /\ event' = TRUE /\ Return(obj')
    /\ UNCHANGED <<row, votes, goal, list, request, release>>

\* A supervised graph does not wait: its router looks for pending requests of the goal in
\* this process's cache, and the graph ends there or goes on without the answer ...
Route ==
    /\ agent = "filed"
    /\ agent' = IF cached /\ obj = Pending THEN "suspending" ELSE "done"
    /\ UNCHANGED <<row, votes, goal, list, object, request, release, faults>>

\* ... and _suspend_for_approval parks the goal, if it has not ended.
Suspend ==
    /\ agent = "suspending"
    /\ agent' = "parked" /\ goal' = Written(goal, "waiting_human")
    /\ UNCHANGED <<row, votes, list, object, request, release, faults>>

\* resume_goal relaunches a parked goal, whatever became of its request.
Resume ==
    /\ agent = "parked" /\ goal = "waiting_human"
    /\ agent' = "done" /\ goal' = "executing"
    /\ UNCHANGED <<row, votes, list, object, request, release, faults>>

\* The goal ends, or operator or watchdog end it; the wait of its run may be cancelled.
GoalEnds ==
    /\ goal \in ACTIVE_STATUSES
    /\ \/ agent \in {"done", "granted", "refused"} /\ goal' = "complete"
       \/ goal' \in {"failed", "cancelled"}
    /\ agent' \in {agent, IF agent \in {"waiting", "polling"} THEN "gone" ELSE agent}
    /\ UNCHANGED <<row, votes, list, object, request, release, faults>>

\* The agent's process dies, with its cache and the calls it serves.
HomeDies ==
    /\ agent \notin {"start", "gone"} /\ Fault /\ agent' = "gone" /\ cached' = FALSE
    /\ pc' = [a \in Approvers |-> IF shared[a] THEN "idle" ELSE pc[a]]
    /\ UNCHANGED <<row, votes, goal, list, obj, event, verb, shared, seen, answer, calls,
                   release>>

(***************************************************************************)
(* approve_async_outcome and reject.                                       *)
(***************************************************************************)
Goto(a, to) == pc' = [pc EXCEPT ![a] = to] /\ UNCHANGED answer
Answer(a, s) == pc' = [pc EXCEPT ![a] = "idle"] /\ answer' = [answer EXCEPT ![a] = s]

\* A vote is cast only where more than one is required.
Proceed(a, v) ==
    Goto(a, IF v = "approved" /\ Required > 1 THEN "voting" ELSE "resolving")

\* The call arrives, at home (h) or elsewhere.  aget_request looks into the cache and then reads the row; reject
\* takes a cached request as it is.
Call(a, v, h) ==
    /\ pc[a] = "idle" /\ calls < MaxCalls /\ calls' = calls + 1
    /\ verb' = [verb EXCEPT ![a] = v] /\ shared' = [shared EXCEPT ![a] = h /\ cached]
    /\ IF v = "rejected" /\ h /\ cached
       THEN /\ UNCHANGED seen
            /\ IF obj = Pending THEN Proceed(a, v) ELSE Answer(a, "not_found")
       ELSE Goto(a, "merging") /\ seen' = [seen EXCEPT ![a] = row]
    /\ UNCHANGED <<row, votes, goal, list, object, agent, release, faults>>

\* _merge_row: the row, as it was read, overwrites the cached object.
Merge(a) ==
    /\ pc[a] = "merging"
    /\ IF shared[a] /\ seen[a] # "none" /\ obj # Mapped(seen[a])
       THEN SetObject(Mapped(seen[a]))
       ELSE UNCHANGED object
    /\ IF seen[a] = "pending" THEN Proceed(a, verb[a]) ELSE Answer(a, "not_found")
    /\ UNCHANGED <<row, votes, goal, list, agent, verb, shared, seen, calls, release, faults>>

\* _db_cast_vote: one vote per approver, counted under the row's lock.
MutantCountsTwice(a) == Cardinality(votes) + 1 >= Required
MutantCountsFirst(a) == Cardinality(votes) >= Required
Quorum(a) == Cardinality(votes \cup {a}) >= Required

CastVote(a) ==
    /\ pc[a] = "voting" /\ votes' = votes \cup {a}
    /\ IF Quorum(a) THEN Goto(a, "resolving") ELSE Answer(a, "vote_recorded")
    /\ UNCHANGED <<row, goal, list, object, agent, verb, shared, seen, calls, release, faults>>

\* The deciding write.  What follows its commit is a step of its own.
MutantIgnoresLoss(a) ==
    /\ pc[a] = "resolving" /\ WriteRow(verb[a]) /\ Goto(a, "applying")
    /\ UNCHANGED <<votes, goal, list, object, agent, verb, shared, seen, calls, release, faults>>
Resolve(a) ==
    /\ pc[a] = "resolving" /\ WriteRow(verb[a])
    /\ IF Won THEN Goto(a, "applying")
       ELSE IF verb[a] = "approved" THEN Goto(a, "healing") ELSE Answer(a, "not_found")
    /\ UNCHANGED <<votes, goal, list, object, agent, verb, shared, seen, calls, release, faults>>

\* _heal_from_db: the loser shows the real decision to the agent.
Heal(a) ==
    /\ pc[a] = "healing" /\ Answer(a, "not_found")
    /\ IF shared[a] /\ Mapped(row) \notin {Pending, obj}
       THEN SetObject(Mapped(row)) ELSE UNCHANGED object
    /\ UNCHANGED <<row, votes, goal, list, agent, verb, shared, seen, calls, release, faults>>

\* The winner tells the object: _apply_approval only if it reads pending.
Apply(a) ==
    /\ pc[a] = "applying"
    /\ \/ shared[a] /\ verb[a] = "approved" /\ obj # Pending
          /\ Answer(a, "not_found") /\ UNCHANGED object
       \/ shared[a] /\ (verb[a] = "rejected" \/ obj = Pending)
          /\ Goto(a, "publishing") /\ SetObject(verb[a])
       \/ ~shared[a] /\ Goto(a, "publishing") /\ UNCHANGED object
    /\ UNCHANGED <<row, votes, goal, list, agent, verb, shared, seen, calls, release, faults>>

\* publish_resolution; an error is logged.
Publish(a) ==
    /\ pc[a] = "publishing" /\ Answer(a, verb[a])
    /\ \/ list' = verb[a] /\ NoFault
       \/ Fault /\ UNCHANGED list
    /\ UNCHANGED <<row, votes, goal, object, agent, verb, shared, seen, calls, release>>

\* Postgres fails the call: it is refused, though its write may have gone through.
CallFails(a) ==
    /\ Fault /\ Answer(a, "unavailable")
    /\ \/ pc[a] = "merging" /\ UNCHANGED <<row, votes>>
       \/ pc[a] = "voting" /\ votes' \in {votes, votes \cup {a}} /\ UNCHANGED row
       \/ pc[a] = "resolving" /\ (UNCHANGED row \/ WriteRow(verb[a])) /\ UNCHANGED votes
    /\ UNCHANGED <<goal, list, object, agent, verb, shared, seen, calls, release>>

\* The replica that serves the call dies, or gives the request up.
CallDies(a) ==
    /\ pc[a] # "idle" /\ Fault /\ Answer(a, "none")
    /\ UNCHANGED <<row, votes, goal, list, object, agent, verb, shared, seen, calls, release>>

(***************************************************************************)
(* The beat, and the sweep at the start of a replica.                      *)
(***************************************************************************)

\* expire_hitl_approvals: the row and the goals parked on it, in one transaction ...
ExpireRow ==
    /\ row = "pending" /\ row' = "timed_out" /\ release' = TRUE
    /\ goal' = IF goal = "waiting_human" THEN "failed" ELSE goal
    /\ UNCHANGED <<votes, list, object, agent, request, faults>>

\* ... then release_expired_waiters.
MutantForgetsWaiters ==
    /\ release /\ release' = FALSE
    /\ UNCHANGED <<row, votes, goal, list, object, agent, request, faults>>
ReleaseWaiters ==
    /\ release /\ release' = FALSE
    /\ \/ list' = "timed_out" /\ NoFault
       \/ Fault /\ UNCHANGED list
    /\ UNCHANGED <<row, votes, goal, object, agent, request>>

\* expire_phantom_approvals: the request of a goal that has ended.
ExpirePhantom ==
    /\ row = "pending" /\ goal \in TERMINAL_STATUSES /\ row' = "expired"
    /\ UNCHANGED <<votes, goal, list, object, agent, request, release, faults>>

(***************************************************************************)
(* The specification.                                                      *)
(***************************************************************************)
Decided ==
    \/ WakeByEvent \/ PopResult \/ PollRow \/ ExpireOwn \/ ExpiryLost \/ Honour
AgentStep ==
    \/ FileRequest \/ FileFails \/ WaitForApproval \/ RedisFails \/ DeadlinePasses
    \/ Route \/ Suspend \/ Resume \/ Decided

Serve(a) ==
    Merge(a) \/ CastVote(a) \/ Resolve(a) \/ Heal(a) \/ Apply(a) \/ Publish(a)

Next ==
    \/ AgentStep \/ GoalEnds \/ HomeDies \/ ExpireRow \/ ReleaseWaiters \/ ExpirePhantom
    \/ \E a \in Approvers :
          \/ Serve(a) \/ CallFails(a) \/ CallDies(a)
          \/ \E v \in {"approved", "rejected"}, h \in BOOLEAN : Call(a, v, h)

Spec == Init /\ [][Next]_vars

\* Calls in progress and the beat's release go on, and the agent takes what reaches it.
\* Its deadline may be as far away as one likes.
FairSpec ==
    /\ Spec /\ WF_vars(Decided) /\ WF_vars(ReleaseWaiters)
    /\ \A a \in Approvers : WF_vars(Serve(a))

(***************************************************************************)
(* Properties.                                                             *)
(***************************************************************************)

\* The gated action runs only if the row says approved, with the votes of as many people
\* as the request asks for, whichever of the three channels told the agent.
GrantedIsApproved ==
    agent = "granted" =>
        row = "approved" /\ (Required > 1 => Cardinality(votes) >= Required)

\* Two operators are never told contradicting decisions: who was told "approved" or
\* "rejected" was told what the row says.
AnswersAreTrue ==
    \A a \in Approvers : answer[a] \in {"approved", "rejected"} => row = answer[a]

\* While nothing fails, the agent gives an action up only when the row denies it: nobody
\* can approve what the agent has abandoned.
AbandonedIsDenied ==
    agent = "refused" /\ faults = 0 => row \in {"rejected", "timed_out", "expired"}

\* The vote that completes the quorum resolves the request: with the votes of enough
\* people and nobody's call in progress it is not pending (concurrent last votes).
QuorumResolves ==
    faults = 0 /\ Required > 1 /\ Cardinality(votes) >= Required
    /\ (\A a \in Approvers : pc[a] = "idle") => row # "pending"

\* A decision or the beat's expiry reaches a waiting agent before its own deadline, as long
\* as nothing fails.
DecisionReachesAgent ==
    row \in Decisions /\ agent = "waiting" ~> agent # "waiting" \/ faults > 0

\* The request as its abstract specification sees it.
DecisionOf(s) ==
    CASE s \in {"none", "pending"} -> "open" [] s \in {"timed_out", "expired"} -> "lapsed"
      [] OTHER -> s
Told == [a \in Approvers |->
            IF answer[a] \in {"approved", "rejected"} THEN answer[a] ELSE "nothing"]
Outcome == IF agent \in {"granted", "refused", "gone"} THEN agent ELSE "open"
Quorums == {V \in SUBSET Approvers : Required > 1 => Cardinality(V) >= Required}
Decision == INSTANCE ApprovalDecision WITH
    decision <- DecisionOf(row), voters <- votes, told <- Told, outcome <- Outcome

\* With its caches, its three channels to the agent and whatever fails, the gateway is one
\* decision (ApprovalDecision): it is taken once, an approval only after its votes; all
\* who are told one are told that one, and the agent acts at most once, after an approval.
ImplementsDecision == Decision!Spec

\* An expired approval never leaves its goal parked (_expire_db_approvals_and_fail_parked).
ExpiredNotParked == ~(row = "timed_out" /\ goal = "waiting_human")

(***************************************************************************)
(* The invariants behind the proofs (ApprovalProofs).                      *)
(***************************************************************************)

\* What a call has read is still so, unless the request was pending then.
SeenIsTrue ==
    \A a \in Approvers :
        seen[a] # "none" => row # "none" /\ (seen[a] # "pending" => row = seen[a])

\* Whoever carries a decision (the object, the list, a call) carries the row's.
CarriedIsTrue ==
    /\ obj \in {"approved", "rejected"} => row = obj
    /\ list \in {"approved", "rejected"} => row = list
    /\ \A a \in Approvers : pc[a] \in {"applying", "publishing"} => row = verb[a]
    /\ agent = "granted" => row = "approved"

\* A call that is about to approve has the votes, and so has an approved row.
VotesBehind ==
    Required > 1 =>
        /\ row = "approved" => Cardinality(votes) >= Required
        /\ \A a \in Approvers :
              /\ pc[a] = "resolving" /\ verb[a] = "approved" => Cardinality(votes) >= Required
              /\ pc[a] = "voting" => verb[a] = "approved" /\ row # "none"
        /\ row = "none" => votes = {}

\* Before the request is filed there is nothing to decide.
Unfiled == agent = "start" => row = "none" /\ obj = Pending

\* While nothing fails, the agent's channels say what the row says ...
Calm ==
    faults = 0 =>
        /\ agent # "start" => row # "none"
        /\ obj # Pending => Mapped(row) = obj
        /\ list # "empty" => Mapped(row) = list
        /\ release => row = "timed_out"
        /\ agent = "reading" => row # "pending"

\* ... and a quorum is in the hands of a call that resolves the request.
QuorumInHand ==
    faults = 0 /\ Required > 1 /\ Cardinality(votes) >= Required /\ row = "pending"
        => \E a \in Approvers : pc[a] = "resolving" /\ verb[a] = "approved"

\* Whoever was told a decision makes no further call that votes.
ToldNeverVotes ==
    \A a \in Approvers :
        pc[a] = "voting" \/ (pc[a] = "merging" /\ seen[a] = "pending")
            => answer[a] \notin {"approved", "rejected"}

ApprovalInv ==
    /\ TypeOK /\ SeenIsTrue /\ CarriedIsTrue /\ VotesBehind /\ Unfiled /\ Calm
    /\ AnswersAreTrue /\ AbandonedIsDenied /\ QuorumInHand
=============================================================================
