-------------------------- MODULE MCOperatorIntent --------------------------
(***************************************************************************)
(* Instance of OperatorIntent for TLC, over MCProcessManager's programs.   *)
(***************************************************************************)
EXTENDS OperatorIntent, MCProcessManager

=============================================================================
