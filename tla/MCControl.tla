----------------------------- MODULE MCControl -----------------------------
(***************************************************************************)
(* Instance of Control for TLC: two programs, a brings in b, b may fail.   *)
(***************************************************************************)
EXTENDS Control, TLC

CONSTANTS a, b, c1, c2

MCPrograms == {a, b}
MCClients == {c1, c2}
MCBrings == a :> {a, b} @@ b :> {b}
MCCalls ==
  {[op |-> "status", name |-> Unknown], [op |-> "get", name |-> b],
   [op |-> "logs", name |-> Unknown], [op |-> "stop", name |-> Unknown],
   [op |-> "start", name |-> a], [op |-> "stop", name |-> b],
   [op |-> "restart", name |-> a]}

=============================================================================
