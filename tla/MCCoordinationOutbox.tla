------------------------ MODULE MCCoordinationOutbox ------------------------
(***************************************************************************)
(* CoordinationOutbox for TLC.  The run checks liveness, so rows and       *)
(* dispatchers are not declared symmetric although they could be.          *)
(***************************************************************************)
EXTENDS CoordinationOutbox
=============================================================================
