--------------------------- MODULE MCApprovalGate ---------------------------
(***************************************************************************)
(* ApprovalGate for TLC.  The runs check liveness, so the approvers are    *)
(* not declared symmetric although they are interchangeable.               *)
(***************************************************************************)
EXTENDS ApprovalGate
=============================================================================
