------------------------ MODULE MCRedisCircuitBreaker ------------------------
(***************************************************************************)
(* RedisCircuitBreaker for TLC.  Both runs check liveness, so the callers  *)
(* are not declared symmetric although they are interchangeable.           *)
(***************************************************************************)
EXTENDS RedisCircuitBreaker
=============================================================================
