------------------------- MODULE RedisCircuitBreaker -------------------------
(***************************************************************************)
(* One circuit breaker shared by all replicas through four Redis keys      *)
(* (app/reliability/redis_circuit_breaker.py).  A caller asks              *)
(* can_call_async, makes the guarded call, and reports its outcome.  Every *)
(* Redis command is one action, so callers interleave between any two.     *)
(* Time is abstracted: opened_at is younger or older than the cooldown,    *)
(* and a key with a TTL disappears some time.                              *)
(***************************************************************************)
EXTENDS Naturals

CONSTANTS
    Callers,        \* concurrent users of the breaker, on any replica
    Threshold,      \* failure_threshold
    CutAt,          \* commands of record_failure_async before which a caller may be lost
    MaxFaults       \* bound: deaths and Redis errors

ASSUME BreakerAssumption ==
    /\ Threshold \in Nat \ {0} /\ MaxFaults \in Nat

VARIABLES
    state,      \* ...:state; a missing key reads as "closed"
    failures,   \* ...:failures, counted up to the threshold
    opened,     \* ...:opened_at: "none", "cooling" or "elapsed"
    claim,      \* ...:half_open_claim: "free" or "held"
    ttl,        \* which of the keys "state" and "failures" will expire
    pc,         \* the next command of each caller
    faults

keyvars == <<state, failures, opened, claim, ttl>>
vars == <<keyvars, pc, faults>>

Checking  == {"opened_at", "claim_open", "claim_half", "set_half_open"}
Recording == {"set_open", "set_opened_at", "expire_state", "expire_failures",
              "release_claim"}

TypeOK ==
    /\ state \in {"closed", "open", "half_open"} /\ failures \in 0 .. Threshold
    /\ opened \in {"none", "cooling", "elapsed"} /\ claim \in {"free", "held"}
    /\ ttl \subseteq {"state", "failures"}
    /\ pc \in [Callers -> {"idle", "calling"} \cup Checking \cup Recording]
    /\ faults \in Nat

Init ==
    /\ state = "closed" /\ failures = 0 /\ opened = "none" /\ claim = "free" /\ ttl = {}
    /\ pc = [c \in Callers |-> "idle"] /\ faults = 0

\* Caller c executes the command it is at and goes on to another.
Step(c, from, to) == pc[c] = from /\ pc' = [pc EXCEPT ![c] = to]

(***************************************************************************)
(* can_call_async.                                                         *)
(***************************************************************************)

\* GET state.
ReadState(c) ==
    /\ \/ state = "closed" /\ Step(c, "idle", "calling")
       \/ state = "open" /\ Step(c, "idle", "opened_at")
       \/ state = "half_open" /\ Step(c, "idle", "claim_half")
    /\ UNCHANGED <<keyvars, faults>>

\* GET opened_at: without it, or within the cooldown, the call is refused.
ReadOpenedAt(c) ==
    /\ Step(c, "opened_at", IF opened = "elapsed" THEN "claim_open" ELSE "idle")
    /\ UNCHANGED <<keyvars, faults>>

\* _claim_half_open_probe: SET NX EX; the losers are refused.
ClaimProbe(c) ==
    /\ \/ /\ claim = "free" /\ claim' = "held"
          /\ Step(c, "claim_open", "set_half_open") \/ Step(c, "claim_half", "calling")
       \/ /\ claim = "held" /\ UNCHANGED claim
          /\ \E from \in {"claim_open", "claim_half"} : Step(c, from, "idle")
    /\ UNCHANGED <<state, failures, opened, ttl, faults>>

MutantHalfOpenWithoutTTL(c) ==
    /\ Step(c, "set_half_open", "calling")
    /\ state' = "half_open" /\ ttl' = ttl \ {"state"}
    /\ UNCHANGED <<failures, opened, claim, faults>>

\* SET state half_open EX.
SetHalfOpen(c) ==
    /\ Step(c, "set_half_open", "calling")
    /\ state' = "half_open" /\ ttl' = ttl \cup {"state"}
    /\ UNCHANGED <<failures, opened, claim, faults>>

\* A Redis error during the check: the process-local breaker decides, either way.
CheckFails(c) ==
    /\ pc[c] \in {"idle"} \cup Checking
    /\ faults < MaxFaults /\ faults' = faults + 1
    /\ \E to \in {"calling", "idle"} : pc' = [pc EXCEPT ![c] = to]
    /\ UNCHANGED keyvars

(***************************************************************************)
(* The outcome of the call.                                                *)
(***************************************************************************)

\* record_success_async: one DEL of all four keys.
RecordSuccess(c) ==
    /\ Step(c, "calling", "idle")
    /\ state' = "closed" /\ failures' = 0 /\ opened' = "none" /\ claim' = "free"
    /\ ttl' = {} /\ UNCHANGED faults

\* Nothing is recorded: the arguments were the caller's mistake, a policy refused the
\* step after the breaker had let it through, the caller died in the call, or Redis
\* failed on the first command of the report.
NotRecorded(c) ==
    /\ Step(c, "calling", "idle") /\ UNCHANGED <<keyvars, faults>>

\* record_failure_async, the INCR (it keeps the key's TTL, a new key has none).
CountFailure(c) ==
    /\ failures' = IF failures < Threshold THEN failures + 1 ELSE failures
    /\ Step(c, "calling", IF failures' >= Threshold THEN "set_open" ELSE "expire_state")
    /\ UNCHANGED <<state, opened, claim, ttl, faults>>

\* SET state open (a plain SET drops the key's TTL).
SetOpen(c) ==
    /\ Step(c, "set_open", "set_opened_at")
    /\ state' = "open" /\ ttl' = ttl \ {"state"}
    /\ UNCHANGED <<failures, opened, claim, faults>>

\* SET opened_at EX.
SetOpenedAt(c) ==
    /\ Step(c, "set_opened_at", "expire_state") /\ opened' = "cooling"
    /\ UNCHANGED <<state, failures, claim, ttl, faults>>

MutantNoExpire(c) ==
    /\ Step(c, "expire_state", "expire_failures")
    /\ UNCHANGED <<keyvars, faults>>

\* EXPIRE state, EXPIRE failures: no effect on a missing key.
ExpireState(c) ==
    /\ Step(c, "expire_state", "expire_failures")
    /\ ttl' = IF state # "closed" THEN ttl \cup {"state"} ELSE ttl
    /\ UNCHANGED <<state, failures, opened, claim, faults>>

ExpireFailures(c) ==
    /\ Step(c, "expire_failures", "release_claim")
    /\ ttl' = IF failures > 0 THEN ttl \cup {"failures"} ELSE ttl
    /\ UNCHANGED <<state, failures, opened, claim, faults>>

\* DEL half_open_claim, whoever holds it.
ReleaseClaim(c) ==
    /\ Step(c, "release_claim", "idle") /\ claim' = "free"
    /\ UNCHANGED <<state, failures, opened, ttl, faults>>

\* The caller dies, or a Redis error ends the recording (the rest is counted only in
\* the process-local breaker).
RecordingCut(c) ==
    /\ pc[c] \in Recording \cap CutAt
    /\ faults < MaxFaults /\ faults' = faults + 1
    /\ pc' = [pc EXCEPT ![c] = "idle"]
    /\ UNCHANGED keyvars

(***************************************************************************)
(* Time.  The TTLs of state and failures are twice the cooldown: they      *)
(* outlive a cooldown that starts with an undisturbed recording.  The      *)
(* claim's TTL is at most 30 s, however long the probe takes.              *)
(***************************************************************************)
TTLsMayEnd ==
    opened = "cooling" =>
        \/ CutAt \cap {"expire_state", "expire_failures"} # {}
        \/ \E c \in Callers : pc[c] \in Recording

CooldownEnds ==
    /\ opened = "cooling" /\ opened' = "elapsed"
    /\ UNCHANGED <<state, failures, claim, ttl, pc, faults>>

OpenedAtExpires ==
    /\ opened = "elapsed" /\ opened' = "none"
    /\ UNCHANGED <<state, failures, claim, ttl, pc, faults>>

StateExpires ==
    /\ "state" \in ttl /\ TTLsMayEnd
    /\ state' = "closed" /\ ttl' = ttl \ {"state"}
    /\ UNCHANGED <<failures, opened, claim, pc, faults>>

FailuresExpire ==
    /\ "failures" \in ttl /\ TTLsMayEnd
    /\ failures' = 0 /\ ttl' = ttl \ {"failures"}
    /\ UNCHANGED <<state, opened, claim, pc, faults>>

ClaimExpires ==
    /\ claim = "held" /\ claim' = "free"
    /\ UNCHANGED <<state, failures, opened, ttl, pc, faults>>

(***************************************************************************)
(* The specification.                                                      *)
(***************************************************************************)
InCall(c) ==
    \/ ReadOpenedAt(c) \/ ClaimProbe(c) \/ SetHalfOpen(c)
    \/ RecordSuccess(c) \/ NotRecorded(c) \/ CountFailure(c)
    \/ SetOpen(c) \/ SetOpenedAt(c) \/ ExpireState(c) \/ ExpireFailures(c)
    \/ ReleaseClaim(c)

Expiry == StateExpires \/ FailuresExpire \/ ClaimExpires \/ OpenedAtExpires

Next ==
    \/ \E c \in Callers : ReadState(c) \/ InCall(c) \/ CheckFails(c) \/ RecordingCut(c)
    \/ CooldownEnds \/ Expiry

Spec == Init /\ [][Next]_vars

\* A caller in its call goes on, and time passes.  Nobody has to come and call.
Fairness ==
    /\ \A c \in Callers : WF_vars(InCall(c))
    /\ WF_vars(CooldownEnds) /\ WF_vars(OpenedAtExpires)
    /\ WF_vars(StateExpires) /\ WF_vars(FailuresExpire) /\ WF_vars(ClaimExpires)

FairSpec == Spec /\ Fairness

(***************************************************************************)
(* Properties.                                                             *)
(***************************************************************************)

\* Every key expires by itself: a state or a counter without a TTL is one that a caller,
\* still recording its failure, is about to give one, also when several callers open the
\* circuit at once and each plain SET drops the TTL another has just set.
KeysExpire ==
    /\ state # "closed" /\ "state" \notin ttl =>
          \E c \in Callers : pc[c] \in {"set_opened_at", "expire_state"}
    /\ failures > 0 /\ "failures" \notin ttl =>
          \E c \in Callers : pc[c] \in {"set_open", "set_opened_at", "expire_state",
                                        "expire_failures"}

\* No outage shuts everybody out for ever: an open or half-open circuit, whose prober or
\* recorder may have died, closes again or lets somebody call.
CircuitRecovers ==
    state # "closed" ~> (state = "closed" \/ \E c \in Callers : pc[c] = "calling")
=============================================================================
