----------------------------- MODULE MCRecovery -----------------------------
(***************************************************************************)
(* Instance of Recovery for TLC, over MCProcessManager's programs.         *)
(***************************************************************************)
EXTENDS Recovery, MCProcessManager

=============================================================================
