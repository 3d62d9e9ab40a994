------------------------ MODULE MCFanoutContinuation ------------------------
(***************************************************************************)
(* FanoutContinuation for TLC.  The workers are interchangeable.           *)
(***************************************************************************)
EXTENDS FanoutContinuation, TLC

Symmetric == Permutations(Workers)
=============================================================================
