--------------------------- MODULE MCWorkflowRun ---------------------------
(***************************************************************************)
(* WorkflowRun for TLC.                                                    *)
(***************************************************************************)
EXTENDS WorkflowRun
=============================================================================
