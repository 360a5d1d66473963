------------------------------ MODULE MCDaemon ------------------------------
(***************************************************************************)
(* Instance of Daemon for TLC: two daemons that may have the same path or  *)
(* port, command lines and configurations that are right and wrong.        *)
(***************************************************************************)
EXTENDS Daemon, TLC

CONSTANTS d1, d2, c1, c2

Localhost == "localhost"
Loopback == "127.0.0.1"

MCNumber == "50051" :> 50051 @@ "70000" :> 70000 @@ "2" :> 2 @@ "1073741823" :> 1073741823
MCParts == DOMAIN MCNumber \cup {Localhost, Loopback, "/tmp/cirond.sock"}
MCDigits == [n \in {MCNumber[p] : p \in DOMAIN MCNumber} |->
               CHOOSE p \in DOMAIN MCNumber : MCNumber[p] = n]
MCResolve == Localhost :> Loopback

Address(scheme, rest) == [scheme |-> scheme, rest |-> rest]
NoTable == [k \in {} |-> TRUE]
OnCli(scheme, rest) == [cli |-> <<Address(scheme, rest)>>, table |-> NoTable]
InTable(table) == [cli |-> <<>>, table |-> table]

\* The defaults; unix and a host name; unix and vsock; an IPv6 address, which is
\* passed over; ports that are none; a CID, and an old way to write inet.
MCSetups ==
  {InTable(NoTable),
   InTable([enable_inet |-> TRUE, inet_address |-> <<Localhost, "50051">>]),
   InTable([enable_vsock |-> TRUE]),
   InTable([enable_unix |-> FALSE, enable_inet |-> TRUE,
            inet_address |-> <<"[", "", "1]", "50051">>]),
   InTable([enable_inet |-> TRUE, inet_address |-> <<Loopback, "70000">>]),
   OnCli("tcp", <<Loopback, "50051">>),
   OnCli("vsock", <<"2", "50051">>),
   OnCli("vsock", <<"2">>)}

MCAddresses ==
  {DefaultCtl, Address("inet", <<Localhost, "50051">>),
   Address("vsock", <<"2", "50051">>)}

=============================================================================
