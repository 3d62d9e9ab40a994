---------------------- MODULE RedisCircuitBreakerProofs ----------------------
(***************************************************************************)
(* TLAPS proofs about RedisCircuitBreaker, for any number of callers and   *)
(* any threshold: the keys stay well-formed, and as long as no caller is   *)
(* lost before it has set the TTLs, no key is left without one.            *)
(***************************************************************************)
EXTENDS RedisCircuitBreaker, TLAPS

\* A breaker starts with no key at all.
LEMMA InitType == Init => TypeOK
  BY BreakerAssumption DEF Init, TypeOK

\* Every Redis command keeps the keys and the callers well-formed.
LEMMA TypeStep == TypeOK /\ [Next]_vars => TypeOK'
<1> SUFFICES ASSUME TypeOK, [Next]_vars PROVE TypeOK'
  OBVIOUS
<1> USE BreakerAssumption DEF TypeOK, Checking, Recording, Step, keyvars
<1>1. ASSUME NEW c \in Callers, ReadState(c) PROVE TypeOK'
  BY <1>1 DEF ReadState
<1>2. ASSUME NEW c \in Callers, ReadOpenedAt(c) PROVE TypeOK'
  BY <1>2 DEF ReadOpenedAt
<1>3. ASSUME NEW c \in Callers, ClaimProbe(c) PROVE TypeOK'
  BY <1>3 DEF ClaimProbe
<1>4. ASSUME NEW c \in Callers, SetHalfOpen(c) PROVE TypeOK'
  BY <1>4 DEF SetHalfOpen
<1>5. ASSUME NEW c \in Callers, CheckFails(c) PROVE TypeOK'
  BY <1>5 DEF CheckFails
<1>6. ASSUME NEW c \in Callers, RecordSuccess(c) \/ NotRecorded(c) PROVE TypeOK'
  <2>1. CASE RecordSuccess(c)
    BY <2>1 DEF RecordSuccess
  <2>2. CASE NotRecorded(c)
    BY <2>2 DEF NotRecorded
  <2> QED BY <1>6, <2>1, <2>2
<1>7. ASSUME NEW c \in Callers, CountFailure(c) PROVE TypeOK'
  <2>1. failures' \in 0 .. Threshold
    BY <1>7 DEF CountFailure
  <2> QED BY <1>7, <2>1 DEF CountFailure
<1>8. ASSUME NEW c \in Callers, SetOpen(c) \/ SetOpenedAt(c) PROVE TypeOK'
  BY <1>8 DEF SetOpen, SetOpenedAt
<1>9. ASSUME NEW c \in Callers, ExpireState(c) \/ ExpireFailures(c) PROVE TypeOK'
  BY <1>9 DEF ExpireState, ExpireFailures
<1>10. ASSUME NEW c \in Callers, ReleaseClaim(c) \/ RecordingCut(c) PROVE TypeOK'
  <2>1. CASE ReleaseClaim(c)
    BY <2>1 DEF ReleaseClaim
  <2>2. CASE RecordingCut(c)
    BY <2>2 DEF RecordingCut
  <2> QED BY <1>10, <2>1, <2>2
<1>11. CASE CooldownEnds \/ Expiry
  <2>1. CASE CooldownEnds \/ OpenedAtExpires
    BY <2>1 DEF CooldownEnds, OpenedAtExpires
  <2>2. CASE StateExpires \/ ClaimExpires
    BY <2>2 DEF StateExpires, ClaimExpires
  <2>3. CASE FailuresExpire
    BY <2>3 DEF FailuresExpire
  <2> QED BY <1>11, <2>1, <2>2, <2>3 DEF Expiry
<1>12. CASE UNCHANGED vars
  BY <1>12 DEF vars
<1> QED
  BY <1>1, <1>2, <1>3, <1>4, <1>5, <1>6, <1>7, <1>8, <1>9, <1>10, <1>11, <1>12
     DEF Next, InCall

\* Type correctness: whatever order the callers' commands arrive in, the four keys hold
\* values that can_call_async understands.
THEOREM TypeCorrect == Spec => []TypeOK
<1>1. TypeOK /\ [Next]_vars => TypeOK'
  BY TypeStep
<1> QED BY <1>1, InitType, PTL DEF Spec

\* A caller that has yet to give the state key its TTL, and one that has yet to give the
\* counter its TTL.
WillExpireState(c) == pc[c] \in {"set_opened_at", "expire_state"}
WillExpireFailures(c) ==
    pc[c] \in {"set_open", "set_opened_at", "expire_state", "expire_failures"}

\* A step of c changes the duties of nobody else.
LEMMA OthersKeepDuties ==
    ASSUME TypeOK, NEW c \in Callers, NEW to, pc' = [pc EXCEPT ![c] = to]
    PROVE  /\ pc'[c] = to
           /\ \A d \in Callers \ {c} : pc'[d] = pc[d]
  BY DEF TypeOK

\* The duty to set a TTL passes from command to command and is never dropped.
LEMMA KeysExpireStep ==
    ASSUME CutAt \subseteq {"release_claim"}
    PROVE  TypeOK /\ KeysExpire /\ [Next]_vars => KeysExpire'
<1> SUFFICES ASSUME TypeOK, KeysExpire, [Next]_vars PROVE KeysExpire'
  OBVIOUS
<1> USE DEF KeysExpire, keyvars
<1>1. ASSUME NEW c \in Callers, NEW to, pc' = [pc EXCEPT ![c] = to],
             UNCHANGED <<state, failures, ttl>>,
             WillExpireState(c) => to \in {"set_opened_at", "expire_state"},
             WillExpireFailures(c) =>
                to \in {"set_open", "set_opened_at", "expire_state", "expire_failures"}
      PROVE  KeysExpire'
  BY <1>1, OthersKeepDuties DEF WillExpireState, WillExpireFailures
<1>2. ASSUME NEW c \in Callers,
             ReadState(c) \/ ReadOpenedAt(c) \/ ClaimProbe(c) \/ CheckFails(c)
                \/ NotRecorded(c) \/ SetOpenedAt(c) \/ ReleaseClaim(c)
      PROVE  KeysExpire'
  <2>1. CASE ReadState(c) \/ ReadOpenedAt(c)
    BY <2>1, <1>1 DEF ReadState, ReadOpenedAt, Step, WillExpireState, WillExpireFailures
  <2>2. CASE ClaimProbe(c)
    BY <2>2, <1>1 DEF ClaimProbe, Step, WillExpireState, WillExpireFailures
  <2>3. CASE CheckFails(c)
    BY <2>3, <1>1 DEF CheckFails, Checking, WillExpireState, WillExpireFailures
  <2>4. CASE NotRecorded(c) \/ SetOpenedAt(c) \/ ReleaseClaim(c)
    BY <2>4, <1>1 DEF NotRecorded, SetOpenedAt, ReleaseClaim, Step,
        WillExpireState, WillExpireFailures
  <2> QED BY <1>2, <2>1, <2>2, <2>3, <2>4
<1>3. ASSUME NEW c \in Callers, SetHalfOpen(c) PROVE KeysExpire'
  <2>1. pc[c] = "set_half_open" /\ pc' = [pc EXCEPT ![c] = "calling"]
        /\ ttl' = ttl \cup {"state"} /\ failures' = failures
    BY <1>3 DEF SetHalfOpen, Step
  <2> QED BY <2>1, OthersKeepDuties
<1>4. ASSUME NEW c \in Callers, RecordSuccess(c) PROVE KeysExpire'
  BY <1>4 DEF RecordSuccess
<1>5. ASSUME NEW c \in Callers, CountFailure(c) PROVE KeysExpire'
  <2>1. PICK to \in {"set_open", "expire_state"} : pc' = [pc EXCEPT ![c] = to]
    BY <1>5 DEF CountFailure, Step
  <2>2. pc[c] = "calling" /\ UNCHANGED <<state, ttl>>
    BY <1>5 DEF CountFailure, Step
  <2> QED BY <2>1, <2>2, OthersKeepDuties
<1>6. ASSUME NEW c \in Callers, SetOpen(c) PROVE KeysExpire'
  BY <1>6, OthersKeepDuties DEF SetOpen, Step
<1>7. ASSUME NEW c \in Callers, ExpireState(c) PROVE KeysExpire'
  <2>1. /\ pc' = [pc EXCEPT ![c] = "expire_failures"] /\ pc[c] = "expire_state"
        /\ UNCHANGED <<state, failures>> /\ ttl \subseteq ttl'
        /\ state # "closed" => "state" \in ttl'
    BY <1>7 DEF ExpireState, Step
  <2> QED BY <2>1, OthersKeepDuties
<1>8. ASSUME NEW c \in Callers, ExpireFailures(c) PROVE KeysExpire'
  <2>1. /\ pc' = [pc EXCEPT ![c] = "release_claim"] /\ pc[c] = "expire_failures"
        /\ UNCHANGED <<state, failures>> /\ ttl \subseteq ttl'
        /\ failures > 0 => "failures" \in ttl'
    BY <1>8 DEF ExpireFailures, Step
  <2> QED BY <2>1, OthersKeepDuties
<1>9. ASSUME NEW c \in Callers, RecordingCut(c) PROVE KeysExpire'
  <2>1. pc[c] = "release_claim"
    BY <1>9 DEF RecordingCut
  <2> QED BY <1>9, <2>1, <1>1 DEF RecordingCut, WillExpireState, WillExpireFailures
<1>10. CASE CooldownEnds \/ Expiry \/ UNCHANGED vars
  BY <1>10 DEF CooldownEnds, Expiry, OpenedAtExpires, StateExpires, FailuresExpire,
      ClaimExpires, vars
<1> QED
  BY <1>2, <1>3, <1>4, <1>5, <1>6, <1>7, <1>8, <1>9, <1>10 DEF Next, InCall

\* As long as a caller that records a failure is lost only after its two EXPIREs, every
\* key has a TTL or a caller at work that will set one: no circuit stays open for ever.
THEOREM KeysAlwaysExpire == ASSUME CutAt \subseteq {"release_claim"} PROVE Spec => []KeysExpire
<1>1. Init => KeysExpire
  BY DEF Init, KeysExpire
<1>2. TypeOK /\ KeysExpire /\ [Next]_vars => KeysExpire'
  BY KeysExpireStep
<1> QED BY <1>1, <1>2, TypeCorrect, PTL DEF Spec
=============================================================================
