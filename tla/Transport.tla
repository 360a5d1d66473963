----------------------------- MODULE Transport -----------------------------
(***************************************************************************)
(* Transport addresses (ciron-common/src/transport.rs), the [transport]    *)
(* table of the configuration (config.rs) and the choice main makes among  *)
(* them.  An address is its scheme and the parts of the rest between the   *)
(* colons; what a part reads as, and how a number is written, are given by *)
(* the constants Number and Digits.                                        *)
(***************************************************************************)
EXTENDS Naturals, Sequences

CONSTANTS
  Parts,    \* what can stand between two colons
  Number,   \* the parts that read as decimal numbers, and which
  Digits,   \* how a number is written
  Bits,     \* the width of a u32: 32, but for TLC's own integers
  Ip,       \* the parts that are IP addresses
  Resolve,  \* host names, and what they resolve to
  HereCids  \* the CIDs under which this machine is reached

U16 == 0 .. 2^16 - 1
U32 == 0 .. 2^Bits - 1

VMADDR_CID_ANY == 2^Bits - 1

\* What a number is written as reads as that number.
ASSUME PartsAssumption ==
  /\ Ip \subseteq Parts /\ Resolve \in [DOMAIN Resolve -> Ip]
  /\ DOMAIN Number \subseteq Parts
  /\ \A p \in DOMAIN Number : Number[p] \in DOMAIN Digits
  /\ \A n \in DOMAIN Digits : Digits[n] \in DOMAIN Number /\ Number[Digits[n]] = n
  /\ \A n \in {50051, VMADDR_CID_ANY} : n \in DOMAIN Digits /\ n \in U32

Reads(part, width) == part \in DOMAIN Number /\ Number[part] \in width

Inet(host, port) == [type |-> "inet", host |-> host, port |-> port]
Unix(path) == [type |-> "unix", path |-> path]
Vsock(cid, port) == [type |-> "vsock", cid |-> cid, port |-> port]
Error == [type |-> "error"]

\* Transport::parse: a path keeps its colons, the others have exactly one.
Parse(s) ==
  LET two == Len(s.rest) = 2
  IN CASE s.scheme \in {"inet", "tcp"} ->
            IF two /\ Reads(s.rest[2], U16)
            THEN Inet(s.rest[1], Number[s.rest[2]]) ELSE Error
       [] s.scheme = "unix" -> Unix(s.rest)
       [] s.scheme = "vsock" ->
            IF two /\ Reads(s.rest[1], U32) /\ Reads(s.rest[2], U32)
            THEN Vsock(Number[s.rest[1]], Number[s.rest[2]]) ELSE Error
       [] OTHER -> Error

\* Fault: the two numbers of a vsock address the wrong way round.
DisplayPortFirst(t) ==
  CASE t.type = "inet" -> [scheme |-> "inet", rest |-> <<t.host, Digits[t.port]>>]
    [] t.type = "unix" -> [scheme |-> "unix", rest |-> t.path]
    [] t.type = "vsock" -> [scheme |-> "vsock", rest |-> <<Digits[t.port], Digits[t.cid]>>]

\* Display, which is also what GetStatus tells of its server.
Display(t) ==
  CASE t.type = "inet" -> [scheme |-> "inet", rest |-> <<t.host, Digits[t.port]>>]
    [] t.type = "unix" -> [scheme |-> "unix", rest |-> t.path]
    [] t.type = "vsock" -> [scheme |-> "vsock", rest |-> <<Digits[t.cid], Digits[t.port]>>]

\* parse_transport_info
TypeShown(s) == IF s.scheme = "tcp" THEN "inet" ELSE s.scheme

-----------------------------------------------------------------------------
(* The [transport] table: what it leaves out has a default.                *)

DefaultPath == <<"/tmp/cirond.sock">>
DefaultInet == <<"127.0.0.1", "50051">>

TransportDefaults ==
  [enable_unix |-> TRUE, unix_socket_path |-> DefaultPath,
   enable_inet |-> FALSE, inet_address |-> DefaultInet,
   enable_vsock |-> FALSE, vsock_cid |-> VMADDR_CID_ANY, vsock_port |-> 50051]

Filled(table) ==
  [k \in DOMAIN TransportDefaults |->
     IF k \in DOMAIN table THEN table[k] ELSE TransportDefaults[k]]

IsTable(table) ==
  /\ DOMAIN table \subseteq DOMAIN TransportDefaults
  /\ LET c == Filled(table)
     IN /\ {c.enable_unix, c.enable_inet, c.enable_vsock} \subseteq BOOLEAN
        /\ \A n \in {c.vsock_cid, c.vsock_port} : n \in DOMAIN Digits /\ n \in U32

\* Without -t: unix, inet, vsock in this order.  An inet_address that has not
\* two parts is passed over, one whose port is none is an error.
BadPort(c) ==
  c.enable_inet /\ Len(c.inet_address) = 2 /\ ~ Reads(c.inet_address[2], U16)

Enabled(c) ==
  (IF c.enable_unix THEN <<Unix(c.unix_socket_path)>> ELSE <<>>)
  \o (IF c.enable_inet /\ Len(c.inet_address) = 2
      THEN <<Inet(c.inet_address[1], Number[c.inet_address[2]])>> ELSE <<>>)
  \o (IF c.enable_vsock THEN <<Vsock(c.vsock_cid, c.vsock_port)>> ELSE <<>>)

\* The transports of a daemon, none when it gives up before it does anything.
Chosen(cli, table) ==
  IF cli # <<>> THEN IF Parse(cli[1]) = Error THEN <<>> ELSE <<Parse(cli[1])>>
  ELSE IF BadPort(Filled(table)) THEN <<>>
  ELSE Enabled(Filled(table))

-----------------------------------------------------------------------------
(* Where a server listens, and where cironctl finds one.                   *)

\* The configured CID is not listened on, any is.  Two hosts are two endpoints,
\* also where the kernel has them collide, as 0.0.0.0 with any other address.
Endpoint(t) == IF t.type = "vsock" THEN Vsock(VMADDR_CID_ANY, t.port) ELSE t

\* A server takes an IP address only, no host name: it is parsed as a SocketAddr.
Bindable(t) == t.type = "inet" => t.host \in Ip

\* The endpoints of this machine a client reaches, at most one.
IpsOf(host) ==
  IF host \in Ip THEN {host}
  ELSE {Resolve[name] : name \in {host} \cap DOMAIN Resolve}

Reached(t) ==
  CASE t.type = "inet" -> {Inet(ip, t.port) : ip \in IpsOf(t.host)}
    [] t.type = "unix" -> {t}
    [] t.type = "vsock" -> IF t.cid \in HereCids THEN {Endpoint(t)} ELSE {}
    [] OTHER -> {}

\* What cironctl uses unless it is told otherwise.
DefaultCtl == [scheme |-> "unix", rest |-> DefaultPath]

=============================================================================
