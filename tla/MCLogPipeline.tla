--------------------------- MODULE MCLogPipeline ---------------------------
(***************************************************************************)
(* Instance of LogPipeline for TLC: one child with its two streams and one *)
(* client, which may ask for all lines or for one.                         *)
(***************************************************************************)
EXTENDS LogPipeline, TLC

CONSTANTS stdout, stderr, cironctl

MCReaders == {stdout, stderr}
MCClients == {cironctl}
MCLineCounts == {0, 1}
MCMaxLines == stdout :> 2 @@ stderr :> 1

=============================================================================
