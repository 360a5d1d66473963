---------------------------- MODULE DaemonProofs ----------------------------
(***************************************************************************)
(* Proofs about Transport and Daemon: addresses read back as what they     *)
(* stand for, and what holds of every daemon on a machine, whatever their  *)
(* number, their configurations and their clients.                         *)
(***************************************************************************)
EXTENDS Daemon, TLAPS

-----------------------------------------------------------------------------
(* Transports.                                                             *)

WellFormed(t) ==
  \/ \E host, port : t = Inet(host, port) /\ port \in U16 /\ port \in DOMAIN Digits
  \/ \E path : t = Unix(path)
  \/ \E cid, port : /\ t = Vsock(cid, port) /\ cid \in U32 /\ port \in U32
                    /\ cid \in DOMAIN Digits /\ port \in DOMAIN Digits

(***************************************************************************)
(* What Display writes Parse reads back (transport.rs:39, 69).             *)
(***************************************************************************)
THEOREM DisplayReadsBack == \A t : WellFormed(t) => Parse(Display(t)) = t
<1> SUFFICES ASSUME NEW t, WellFormed(t) PROVE Parse(Display(t)) = t
  OBVIOUS
<1> USE PartsAssumption DEF Parse, Display, Reads, Inet, Unix, Vsock
<1>1. ASSUME NEW host, NEW port, t = Inet(host, port), port \in U16, port \in DOMAIN Digits
      PROVE  Parse(Display(t)) = t
  <2>1. Display(t) = [scheme |-> "inet", rest |-> <<host, Digits[port]>>]
    BY <1>1
  <2> QED BY <1>1, <2>1
<1>2. ASSUME NEW path, t = Unix(path) PROVE Parse(Display(t)) = t
  <2>1. Display(t) = [scheme |-> "unix", rest |-> path]
    BY <1>2
  <2> QED BY <1>2, <2>1
<1>3. ASSUME NEW cid, NEW port, t = Vsock(cid, port), cid \in U32, port \in U32,
             cid \in DOMAIN Digits, port \in DOMAIN Digits
      PROVE  Parse(Display(t)) = t
  <2>1. Display(t) = [scheme |-> "vsock", rest |-> <<Digits[cid], Digits[port]>>]
    BY <1>3
  <2> QED BY <1>3, <2>1
<1> QED BY <1>1, <1>2, <1>3 DEF WellFormed

LEMMA ParsedIsWellFormed == \A s : Parse(s) = Error \/ WellFormed(Parse(s))
<1> SUFFICES ASSUME NEW s, Parse(s) # Error PROVE WellFormed(Parse(s))
  OBVIOUS
<1>1. CASE s.scheme \in {"inet", "tcp"}
  BY <1>1, PartsAssumption DEF Parse, WellFormed, Reads, Error
<1>2. CASE s.scheme = "unix"
  BY <1>2 DEF Parse, WellFormed
<1>3. CASE s.scheme = "vsock"
  BY <1>3, PartsAssumption DEF Parse, WellFormed, Reads, Error
<1>4. CASE s.scheme \notin {"inet", "tcp", "unix", "vsock"}
  BY <1>4 DEF Parse, Error
<1> QED BY <1>1, <1>2, <1>3, <1>4

\* Of each type a daemon has one transport at most.
OneOfAType(ts) == \A i, j \in DOMAIN ts : ts[i].type = ts[j].type => i = j

Good(ts) ==
  ts \in Seq({t \in {ts[i] : i \in DOMAIN ts} : WellFormed(t)}) /\ OneOfAType(ts)

LEMMA GoodFacts ==
  /\ Good(<<>>)
  /\ \A t : WellFormed(t) => Good(<<t>>)
  /\ \A ts : Good(ts) => \A i \in DOMAIN ts : WellFormed(ts[i])
BY DEF Good, OneOfAType

OutOf(ts, A, B) ==
  \A i \in DOMAIN ts : (\E j \in DOMAIN A : ts[i] = A[j]) \/ (\E j \in DOMAIN B : ts[i] = B[j])

\* Two lists of transports without a type in common can be joined.
LEMMA JoinedIsGood ==
  ASSUME NEW A, NEW B, Good(A), Good(B),
         \A i \in DOMAIN A, j \in DOMAIN B : A[i].type # B[j].type
  PROVE  Good(A \o B) /\ OutOf(A \o B, A, B)
<1> DEFINE S == {A[i] : i \in DOMAIN A} \cup {B[i] : i \in DOMAIN B}
           J == A \o B
<1>1. A \in Seq(S) /\ B \in Seq(S)
  BY DEF Good
<1>2. /\ J \in Seq(S) /\ Len(J) = Len(A) + Len(B)
      /\ \A i \in 1 .. Len(J) : J[i] = IF i <= Len(A) THEN A[i] ELSE B[i - Len(A)]
  BY <1>1
<1>3. DOMAIN A = 1 .. Len(A) /\ DOMAIN B = 1 .. Len(B) /\ DOMAIN J = 1 .. Len(J)
      /\ Len(A) \in Nat /\ Len(B) \in Nat
  BY <1>1, <1>2
<1> HIDE DEF J, S
<1>4. OutOf(J, A, B)
  <2> SUFFICES ASSUME NEW i \in DOMAIN J
               PROVE  (\E j \in DOMAIN A : J[i] = A[j]) \/ (\E j \in DOMAIN B : J[i] = B[j])
    BY DEF OutOf
  <2>1. CASE i <= Len(A)
    BY <1>2, <1>3, <2>1
  <2>2. CASE ~ i <= Len(A)
    <3>1. i - Len(A) \in DOMAIN B /\ J[i] = B[i - Len(A)]
      BY <1>2, <1>3, <2>2
    <3> QED BY <3>1
  <2> QED BY <2>1, <2>2
<1>5. \A i \in DOMAIN J : WellFormed(J[i])
  BY <1>4, GoodFacts DEF OutOf
<1>6. OneOfAType(J)
  <2> SUFFICES ASSUME NEW i \in DOMAIN J, NEW j \in DOMAIN J, J[i].type = J[j].type
               PROVE  i = j
    BY DEF OneOfAType
  <2> USE <1>2, <1>3
  <2>1. CASE i <= Len(A) /\ j <= Len(A)
    BY <2>1 DEF Good, OneOfAType
  <2>2. CASE i > Len(A) /\ j > Len(A)
    <3>1. i - Len(A) \in DOMAIN B /\ j - Len(A) \in DOMAIN B
          /\ B[i - Len(A)].type = B[j - Len(A)].type
      BY <2>2
    <3>2. i - Len(A) = j - Len(A)
      BY <3>1 DEF Good, OneOfAType
    <3> QED BY <3>1, <3>2
  <2>3. CASE i <= Len(A) /\ j > Len(A)
    <3>1. i \in DOMAIN A /\ j - Len(A) \in DOMAIN B /\ J[i] = A[i] /\ J[j] = B[j - Len(A)]
      BY <2>3
    <3> QED BY <3>1
  <2>4. CASE i > Len(A) /\ j <= Len(A)
    <3>1. j \in DOMAIN A /\ i - Len(A) \in DOMAIN B /\ J[j] = A[j] /\ J[i] = B[i - Len(A)]
      BY <2>4
    <3> QED BY <3>1
  <2> QED BY <2>1, <2>2, <2>3, <2>4
<1>7. J \in Seq({t \in {J[i] : i \in DOMAIN J} : WellFormed(t)})
  BY <1>2, <1>3, <1>5
<1> QED BY <1>4, <1>6, <1>7 DEF Good, J

LEMMA EnabledIsGood ==
  ASSUME NEW c, ~ BadPort(c), c.enable_unix \in BOOLEAN, c.enable_inet \in BOOLEAN,
         c.enable_vsock \in BOOLEAN, c.vsock_cid \in U32, c.vsock_port \in U32,
         c.vsock_cid \in DOMAIN Digits, c.vsock_port \in DOMAIN Digits
  PROVE  Good(Enabled(c))
<1> DEFINE u == Unix(c.unix_socket_path)
           n == Inet(c.inet_address[1], Number[c.inet_address[2]])
           v == Vsock(c.vsock_cid, c.vsock_port)
           inet == c.enable_inet /\ Len(c.inet_address) = 2
           A == IF c.enable_unix THEN <<u>> ELSE <<>>
           B == IF inet THEN <<n>> ELSE <<>>
           C == IF c.enable_vsock THEN <<v>> ELSE <<>>
<1>1. WellFormed(u) /\ WellFormed(v) /\ u.type = "unix" /\ v.type = "vsock" /\ n.type = "inet"
  BY DEF WellFormed, Unix, Inet, Vsock
<1>2. inet => WellFormed(n)
  BY PartsAssumption DEF WellFormed, BadPort, Reads
<1>3. Enabled(c) = A \o B \o C
  BY DEF Enabled
<1> HIDE DEF u, n, v, inet
<1>4. Good(A) /\ \A i \in DOMAIN A : A[i].type = "unix"
  BY <1>1, GoodFacts
<1>5. Good(B) /\ \A i \in DOMAIN B : B[i].type = "inet"
  BY <1>1, <1>2, GoodFacts
<1>6. Good(C) /\ \A i \in DOMAIN C : C[i].type = "vsock"
  BY <1>1, GoodFacts
<1> HIDE DEF A, B, C
<1>7. Good(A \o B) /\ \A i \in DOMAIN (A \o B) : (A \o B)[i].type \in {"unix", "inet"}
  <2>1. \A i \in DOMAIN A, j \in DOMAIN B : A[i].type # B[j].type
    BY <1>4, <1>5
  <2>2. Good(A \o B)
    BY <1>4, <1>5, <2>1, JoinedIsGood
  <2>3. OutOf(A \o B, A, B)
    BY <1>4, <1>5, <2>1, JoinedIsGood
  <2> QED BY <1>4, <1>5, <2>2, <2>3 DEF OutOf
<1>8. Good((A \o B) \o C)
  <2> DEFINE AB == A \o B
  <2> HIDE DEF AB
  <2>1. Good(AB) /\ \A i \in DOMAIN AB : AB[i].type \in {"unix", "inet"}
    BY <1>7 DEF AB
  <2>2. \A i \in DOMAIN AB, j \in DOMAIN C : AB[i].type # C[j].type
    BY <1>6, <2>1
  <2>3. Good(AB \o C)
    BY <1>6, <2>1, <2>2, JoinedIsGood
  <2> QED BY <2>3 DEF AB
<1> QED BY <1>3, <1>8

LEMMA ChosenIsGood ==
  ASSUME NEW s \in Setups PROVE Good(Chosen(s.cli, s.table))
<1>1. CASE s.cli # <<>>
  BY <1>1, GoodFacts, ParsedIsWellFormed DEF Chosen
<1>2. CASE s.cli = <<>> /\ ~ BadPort(Filled(s.table))
  <2>1. IsTable(s.table)
    BY DaemonAssumption
  <2> QED BY <1>2, <2>1, EnabledIsGood DEF Chosen, IsTable
<1>3. CASE s.cli = <<>> /\ BadPort(Filled(s.table))
  BY <1>3, GoodFacts DEF Chosen
<1> QED BY <1>1, <1>2, <1>3

-----------------------------------------------------------------------------
(* Types.                                                                  *)

LEMMA ChosenIsTyped ==
  ASSUME NEW s \in Setups PROVE Chosen(s.cli, s.table) \in Seq(Transports)
<1> DEFINE ts == Chosen(s.cli, s.table)
<1>1. Good(ts)
  BY ChosenIsGood
<1>2. \A i \in DOMAIN ts : ts[i] \in Transports
  BY DEF Transports
<1> HIDE DEF ts
<1>3. ts \in Seq(Transports)
  BY <1>1, <1>2 DEF Good
<1> QED BY <1>3 DEF ts

\* A server task goes to another state: all others stay as they are.
LEMMA BecomesTyped ==
  ASSUME TypeOK, NEW d \in Daemons, NEW i \in DOMAIN server[d],
         NEW state \in ServerStates, Becomes(d, i, state)
  PROVE  /\ server' \in [Daemons -> Seq(ServerStates)]
         /\ \A e \in Daemons : DOMAIN server'[e] = DOMAIN server[e]
                               /\ Len(server'[e]) = Len(server[e])
         /\ \A e \in Daemons : \A j \in DOMAIN server[e] :
              server'[e][j] = IF e = d /\ j = i THEN state ELSE server[e][j]
<1>1. server[d] \in Seq(ServerStates) /\ server' = [server EXCEPT ![d] = [server[d] EXCEPT ![i] = state]]
  BY DEF TypeOK, Becomes
<1>2. [server[d] EXCEPT ![i] = state] \in Seq(ServerStates)
      /\ Len([server[d] EXCEPT ![i] = state]) = Len(server[d])
  BY <1>1
<1> QED BY <1>1, <1>2 DEF TypeOK

LEMMA AddressTyped ==
  ASSUME TypeOK, NEW d \in Daemons, NEW i \in DOMAIN transports[d]
  PROVE  transports[d][i] \in Transports /\ AddressOf(d, i) \in Endpoints
         /\ AddressOf(d, i).type = transports[d][i].type
<1>1. transports[d] \in Seq(Transports)
  BY DEF TypeOK
<1> QED BY <1>1 DEF AddressOf, Endpoints, Endpoint, Vsock

LEMMA ServersHaveTransports ==
  ASSUME TypeOK, NEW d \in Daemons
  PROVE  DOMAIN server[d] \subseteq DOMAIN transports[d]
<1>1. server[d] \in Seq(ServerStates) /\ transports[d] \in Seq(Transports)
      /\ Len(server[d]) <= Len(transports[d])
  BY DEF TypeOK
<1> QED BY <1>1

\* Only main that serves has server tasks, or had when it ended by itself.
Fresh == \A d \in Daemons : main[d] \notin {"serving", "stopped", "exited"} => server[d] = <<>>

LEMMA InitTyped == Init => TypeOK /\ Fresh
BY DEF Init, TypeOK, NoConn, Fresh

LEMMA StepTyped == TypeOK /\ Fresh /\ [Next]_vars => TypeOK' /\ Fresh'
<1> SUFFICES ASSUME TypeOK, Fresh, [Next]_vars PROVE TypeOK' /\ Fresh'
  OBVIOUS
<1>1. CASE UNCHANGED vars
  BY <1>1 DEF TypeOK, Fresh, vars, process, servers
<1>2. ASSUME NEW d \in Daemons, Launch(d) PROVE TypeOK' /\ Fresh'
  <2>1. PICK s \in Setups :
          /\ transports' = [transports EXCEPT ![d] = Chosen(s.cli, s.table)]
          /\ main' = [main EXCEPT ![d] = IF Chosen(s.cli, s.table) = <<>> THEN "failed" ELSE "booting"]
    BY <1>2 DEF Launch
  <2> DEFINE ts == Chosen(s.cli, s.table)
  <2>2. ts \in Seq(Transports)
    BY ChosenIsTyped
  <2> HIDE DEF ts
  <2>3. transports' = [transports EXCEPT ![d] = ts] /\ main'[d] \in {"failed", "booting"}
        /\ main' \in [Daemons -> {"off", "booting", "serving", "stopped"} \cup Over]
        /\ \A e \in Daemons : e # d => main'[e] = main[e]
    BY <2>1 DEF ts, TypeOK, Over
  <2>4. server[d] = <<>> /\ main[d] = "off"
    BY <1>2 DEF Fresh, Launch
  <2>5. \A e \in Daemons : Len(server'[e]) <= Len(transports'[e])
    BY <1>2, <2>2, <2>3, <2>4 DEF TypeOK, Launch, servers
  <2>6. Fresh'
    BY <1>2, <2>3, <2>4 DEF Fresh, Launch, servers
  <2>7. transports' \in [Daemons -> Seq(Transports)] /\ earlier' \in [Daemons -> SUBSET Daemons]
    BY <1>2, <2>2, <2>3 DEF TypeOK, Launch
  <2> QED BY <1>2, <2>3, <2>5, <2>6, <2>7 DEF TypeOK, Launch, servers
<1>3. ASSUME NEW d \in Daemons, Autostart(d) PROVE TypeOK' /\ Fresh'
  BY <1>3 DEF TypeOK, Fresh, Autostart, servers
<1>4. ASSUME NEW d \in Daemons, Arm(d) \/ CtrlC(d) PROVE TypeOK' /\ Fresh'
  <2>1. CASE Arm(d)
    BY <2>1 DEF TypeOK, Fresh, Arm, servers, process
  <2>2. CASE CtrlC(d)
    BY <2>2 DEF TypeOK, Fresh, CtrlC, process
  <2> QED BY <1>4, <2>1, <2>2
<1>5. ASSUME NEW d \in Daemons, SpawnServer(d) PROVE TypeOK' /\ Fresh'
  <2>1. server[d] \in Seq(ServerStates) /\ transports[d] \in Seq(Transports)
        /\ Len(server[d]) <= Len(transports[d]) /\ Len(server[d]) # Len(transports[d])
        /\ server' = [server EXCEPT ![d] = Append(server[d], "spawned")]
    BY <1>5 DEF TypeOK, SpawnServer, Spawned
  <2>2. Append(server[d], "spawned") \in Seq(ServerStates)
        /\ Len(Append(server[d], "spawned")) = Len(server[d]) + 1
        /\ DOMAIN server[d] \subseteq DOMAIN Append(server[d], "spawned")
    BY <2>1 DEF ServerStates
  <2>3. /\ server' \in [Daemons -> Seq(ServerStates)]
        /\ \A e \in Daemons : Len(server'[e]) <= Len(transports[e])
        /\ \A e \in Daemons : DOMAIN server[e] \subseteq DOMAIN server'[e]
    BY <2>1, <2>2 DEF TypeOK
  <2>4. Fresh'
    BY <1>5, <2>1 DEF Fresh, SpawnServer, process, TypeOK
  <2> QED BY <1>5, <2>3, <2>4 DEF TypeOK, SpawnServer, process
<1>6. ASSUME NEW d \in Daemons, StopPrograms(d) \/ Exit(d) PROVE TypeOK' /\ Fresh'
  BY <1>6 DEF TypeOK, Fresh, StopPrograms, Exit, servers, Over
<1>7. ASSUME NEW d \in Daemons, Kill(d) PROVE TypeOK' /\ Fresh'
  BY <1>7 DEF TypeOK, Fresh, Kill, Dies, Over, NoConn, Released
<1>8. ASSUME NEW d \in Daemons, NEW i \in DOMAIN server[d], ServerStep(d, i)
      PROVE  TypeOK' /\ Fresh'
  <2>1. PICK state \in ServerStates : Becomes(d, i, state)
    BY <1>8 DEF ServerStep, Unlink, Bind, BindFails, Drain, EndServer, Ended, ServerStates
  <2>2. UNCHANGED <<main, transports, programs, earlier, told, ctrlc>>
    BY <1>8 DEF ServerStep, Unlink, Bind, BindFails, Drain, EndServer, Ended, process
  <2>3. /\ server' \in [Daemons -> Seq(ServerStates)]
        /\ \A e \in Daemons : DOMAIN server'[e] = DOMAIN server[e] /\ Len(server'[e]) = Len(server[e])
    BY <2>1, BecomesTyped
  <2>4. AddressOf(d, i) \in Endpoints
    BY ServersHaveTransports, AddressTyped
  <2>5. socket' \in [Endpoints -> Daemons \cup {Nobody}]
    BY <1>8, <2>4 DEF ServerStep, Unlink, Bind, BindFails, Drain, EndServer, Ended, TypeOK
  <2>6. DOMAIN conn' = Clients /\ \A c \in Clients : conn'[c] \in {NoConn, conn[c]}
    BY <1>8 DEF ServerStep, Unlink, Bind, BindFails, Drain, EndServer, Ended, TypeOK
  <2>7. Fresh'
    <3>1. server[d] # <<>>
      OBVIOUS
    <3> QED BY <2>1, <2>2, <3>1 DEF Fresh, Becomes, TypeOK
  <2> QED BY <2>2, <2>3, <2>5, <2>6, <2>7 DEF TypeOK
<1>9. ASSUME NEW c \in Clients, Connect(c) PROVE TypeOK' /\ Fresh'
  <2>1. PICK a \in Endpoints : socket[a] # Nobody
          /\ \E i \in DOMAIN server[socket[a]] :
               conn' = [conn EXCEPT ![c] = [at |-> socket[a], via |-> i, state |-> "queued"]]
    BY <1>9, Zenon DEF Connect
  <2>2. PICK i \in DOMAIN server[socket[a]] :
          conn' = [conn EXCEPT ![c] = [at |-> socket[a], via |-> i, state |-> "queued"]]
    BY <2>1
  <2>3. socket[a] \in Daemons /\ i \in Nat \ {0}
    BY <2>1 DEF TypeOK
  <2> QED BY <1>9, <2>2, <2>3 DEF TypeOK, Fresh, Connect, process, servers
<1>10. ASSUME NEW c \in Clients, Accept(c) \/ Answer(c) \/ HangUp(c) PROVE TypeOK' /\ Fresh'
  <2>1. UNCHANGED <<main, transports, programs, earlier, server, told, ctrlc, socket>>
    BY <1>10 DEF Accept, Answer, HangUp, process, servers
  <2>2. CASE Accept(c)
    <3>1. PICK kind \in {"call", "follow"} : conn' = [conn EXCEPT ![c].state = kind]
      BY <2>2 DEF Accept
    <3>2. conn[c] # NoConn /\ conn'[c] = [conn[c] EXCEPT !.state = kind]
      BY <2>2, <3>1 DEF Accept, NoConn, TypeOK
    <3>3. conn'[c] \in [at : Daemons, via : Nat \ {0}, state : {"queued", "call", "follow"}]
          /\ conn'[c].at = conn[c].at /\ conn'[c].via = conn[c].via
      BY <3>1, <3>2 DEF TypeOK
    <3> QED BY <2>1, <3>1, <3>2, <3>3 DEF TypeOK, Fresh
  <2>3. CASE Answer(c) \/ HangUp(c)
    <3>1. conn' = [conn EXCEPT ![c] = NoConn]
      BY <2>3 DEF Answer, HangUp
    <3> QED BY <2>1, <3>1 DEF TypeOK, Fresh
  <2> QED BY <1>10, <2>2, <2>3
<1> QED BY <1>1, <1>2, <1>3, <1>4, <1>5, <1>6, <1>7, <1>8, <1>9, <1>10
    DEF Next, DaemonStep

(***************************************************************************)
(* Type correctness: a connection is always one of a server task there is, *)
(* and a shutdown is never received by a server that is not (main.rs:234). *)
(***************************************************************************)
THEOREM DaemonTypeCorrect == Spec => []TypeOK
<1>1. Spec => [](TypeOK /\ Fresh)
  BY InitTyped, StepTyped, PTL DEF Spec
<1> QED BY <1>1, PTL

-----------------------------------------------------------------------------
(***************************************************************************)
(* The inductive invariant: what each stage of main says of the programs   *)
(* and the servers, whose connections there are, who has bound what, and   *)
(* that after remove_file a path is nobody's who was over at the launch.   *)
(***************************************************************************)
Stages ==
  \A d \in Daemons :
    /\ main[d] = "off" => transports[d] = <<>>
    /\ main[d] \in {"off", "booting", "failed"} => programs[d] = "none"
    /\ main[d] = "serving" => programs[d] = "up"
    /\ main[d] \in {"stopped", "exited"} =>
         /\ Spawned(d)
         /\ \A i \in DOMAIN server[d] : server[d][i] \in {"ended", "failed"}

ToldFirst ==
  \A d \in Daemons : \A i \in DOMAIN server[d] :
    server[d][i] \in {"draining", "ended"} => i \in told[d]

Attended ==
  \A c \in Clients : conn[c] # NoConn =>
    server[conn[c].at][conn[c].via] \in {"serving", "draining"}

Lists == \A d \in Daemons : Good(transports[d])

Listening ==
  \A d \in Daemons : \A i \in DOMAIN server[d] :
    server[d][i] \in {"serving", "draining"} =>
      /\ Bindable(transports[d][i])
      /\ transports[d][i].type # "unix" => socket[AddressOf(d, i)] = d

\* e has a claim to the endpoint a.
Claims(e, a) ==
  \E j \in DOMAIN transports[e] :
    /\ AddressOf(e, j) = a
    /\ a.type # "unix" => j \in DOMAIN server[e] /\ server[e][j] \in {"serving", "draining"}

Owners == \A a \in Endpoints : socket[a] # Nobody => Claims(socket[a], a)

Past == \A d \in Daemons : \A e \in earlier[d] : main[e] \in Over

ClearedWay ==
  \A d \in Daemons : \A i \in DOMAIN server[d] : server[d][i] = "unlinked" =>
    transports[d][i].type = "unix" /\ socket[AddressOf(d, i)] \notin earlier[d] \cup {d}

Inv ==
  /\ TypeOK /\ Fresh /\ Stages /\ ToldFirst /\ Attended
  /\ Lists /\ Listening /\ Owners /\ Past /\ ClearedWay

LEMMA InitInv == Init => Inv
<1> SUFFICES ASSUME Init PROVE Inv
  OBVIOUS
<1>1. TypeOK /\ Fresh
  BY InitTyped
<1>2. Lists
  BY GoodFacts DEF Init, Lists
<1> QED BY <1>1, <1>2
    DEF Init, Inv, Stages, ToldFirst, Attended, Listening, Owners, Past, ClearedWay

\* The servers of a daemon have different addresses.
LEMMA AddressesDiffer ==
  ASSUME TypeOK, Lists, NEW d \in Daemons,
         NEW i \in DOMAIN transports[d], NEW j \in DOMAIN transports[d],
         AddressOf(d, i) = AddressOf(d, j)
  PROVE  i = j
<1>1. transports[d][i].type = transports[d][j].type
  BY AddressTyped
<1> QED BY <1>1 DEF Lists, Good, OneOfAType

\* A step that leaves the servers and the sockets alone.
LEMMA MainStepInv ==
  ASSUME Inv, TypeOK', Fresh', UNCHANGED <<transports, server, socket, conn, earlier>>,
         \A d \in Daemons : told[d] \subseteq told'[d],
         \A d \in Daemons : main[d] \in Over => main'[d] = main[d],
         Stages'
  PROVE  Inv'
<1>1. \A e, j : AddressOf(e, j)' = AddressOf(e, j)
  BY DEF AddressOf
<1>2. ToldFirst' /\ Attended' /\ Lists'
  BY DEF Inv, ToldFirst, Attended, Lists
<1>3. Listening' /\ Owners' /\ ClearedWay'
  BY <1>1 DEF Inv, Listening, Owners, Claims, ClearedWay
<1>4. Past'
  BY DEF Inv, Past, TypeOK
<1> QED BY <1>2, <1>3, <1>4 DEF Inv

LEMMA LaunchInv ==
  ASSUME Inv, TypeOK', Fresh', NEW d \in Daemons, Launch(d)
  PROVE  Inv'
<1>1. PICK s \in Setups :
        /\ transports' = [transports EXCEPT ![d] = Chosen(s.cli, s.table)]
        /\ main' = [main EXCEPT ![d] = IF Chosen(s.cli, s.table) = <<>> THEN "failed" ELSE "booting"]
  BY DEF Launch
<1>2. main[d] = "off" /\ server[d] = <<>> /\ transports[d] = <<>>
  BY DEF Launch, Inv, Fresh, Stages
<1>3. /\ main'[d] \in {"failed", "booting"}
      /\ Good(transports'[d])
      /\ \A e \in Daemons : e # d => main'[e] = main[e] /\ transports'[e] = transports[e]
  BY <1>1, ChosenIsGood DEF Inv, TypeOK
<1>4. UNCHANGED <<server, told, ctrlc, programs, socket, conn>>
      /\ earlier' = [earlier EXCEPT ![d] = {e \in Daemons : main[e] \in Over}]
  BY DEF Launch, servers
<1>5. \A e \in Daemons : e # d => \A j : AddressOf(e, j)' = AddressOf(e, j)
  BY <1>3 DEF AddressOf
<1>6. Stages'
  BY <1>2, <1>3, <1>4 DEF Inv, Stages, Spawned
<1>7. ToldFirst' /\ Attended'
  BY <1>4 DEF Inv, ToldFirst, Attended
<1>12. Lists'
  <2> SUFFICES ASSUME NEW e \in Daemons PROVE Good(transports'[e])
    BY DEF Lists
  <2>1. CASE e = d
    BY <1>3, <2>1
  <2>2. CASE e # d
    <3>1. transports'[e] = transports[e] /\ Good(transports[e])
      BY <1>3, <2>2 DEF Inv, Lists
    <3> QED BY <3>1
  <2> QED BY <2>1, <2>2
<1>8. Listening'
  <2> SUFFICES ASSUME NEW e \in Daemons, NEW i \in DOMAIN server[e],
                      server[e][i] \in {"serving", "draining"}
               PROVE  Bindable(transports'[e][i])
                      /\ (transports'[e][i].type # "unix" => socket[AddressOf(e, i)'] = e)
    BY <1>4 DEF Listening
  <2>1. e # d
    BY <1>2
  <2> QED BY <1>3, <1>5, <2>1 DEF Inv, Listening
<1>9. Owners'
  <2> SUFFICES ASSUME NEW a \in Endpoints, socket[a] # Nobody PROVE Claims(socket[a], a)'
    BY <1>4 DEF Owners
  <2>1. Claims(socket[a], a) /\ socket[a] \in Daemons /\ socket[a] # d
    BY <1>2 DEF Inv, Owners, Claims, TypeOK
  <2> QED BY <1>3, <1>4, <1>5, <2>1 DEF Claims
<1>10. Past'
  BY <1>2, <1>3, <1>4 DEF Inv, Past, TypeOK, Over
<1>11. ClearedWay'
  <2> SUFFICES ASSUME NEW e \in Daemons, NEW i \in DOMAIN server[e], server[e][i] = "unlinked"
               PROVE  transports'[e][i].type = "unix"
                      /\ socket[AddressOf(e, i)'] \notin earlier'[e] \cup {e}
    BY <1>4 DEF ClearedWay
  <2>1. e # d
    BY <1>2
  <2> QED BY <1>3, <1>4, <1>5, <2>1 DEF Inv, ClearedWay
<1> QED BY <1>6, <1>7, <1>8, <1>9, <1>10, <1>11, <1>12 DEF Inv

LEMMA SpawnInv ==
  ASSUME Inv, TypeOK', Fresh', NEW d \in Daemons, SpawnServer(d)
  PROVE  Inv'
<1>1. server[d] \in Seq(ServerStates) /\ server' = [server EXCEPT ![d] = Append(server[d], "spawned")]
      /\ UNCHANGED <<main, transports, programs, earlier, told, ctrlc, socket, conn>>
      /\ main[d] = "serving"
  BY DEF SpawnServer, process, Inv, TypeOK
<1>2. \A e \in Daemons :
        /\ DOMAIN server[e] \subseteq DOMAIN server'[e]
        /\ \A j \in DOMAIN server[e] : server'[e][j] = server[e][j]
        /\ \A j \in DOMAIN server'[e] \ DOMAIN server[e] : e = d /\ server'[e][j] = "spawned"
  BY <1>1 DEF Inv, TypeOK
<1>3. \A e, j : AddressOf(e, j)' = AddressOf(e, j)
  BY <1>1 DEF AddressOf
<1>4. Stages'
  BY <1>1, <1>2 DEF Inv, Stages, Spawned
<1>5. ToldFirst' /\ Lists' /\ Past'
  BY <1>1, <1>2 DEF Inv, ToldFirst, Lists, Past
<1>6. Attended'
  BY <1>1, <1>2 DEF Inv, Attended, TypeOK
<1>7. Listening' /\ ClearedWay'
  BY <1>1, <1>2, <1>3 DEF Inv, Listening, ClearedWay
<1>8. Owners'
  <2> SUFFICES ASSUME NEW a \in Endpoints, NEW o, o = socket[a], o # Nobody PROVE Claims(o, a)'
    BY <1>1 DEF Owners
  <2>1. o \in Daemons /\ Claims(o, a)
    BY DEF Inv, Owners, TypeOK
  <2>2. PICK j \in DOMAIN transports[o] :
          /\ AddressOf(o, j) = a
          /\ a.type # "unix" => j \in DOMAIN server[o] /\ server[o][j] \in {"serving", "draining"}
    BY <2>1 DEF Claims
  <2>3. AddressOf(o, j)' = a /\ j \in DOMAIN transports'[o]
    BY <1>1, <1>3, <2>2
  <2>4. a.type # "unix" => j \in DOMAIN server'[o] /\ server'[o][j] \in {"serving", "draining"}
    BY <1>2, <2>1, <2>2
  <2> QED BY <2>3, <2>4 DEF Claims
<1> QED BY <1>4, <1>5, <1>6, <1>7, <1>8 DEF Inv

LEMMA KillInv ==
  ASSUME Inv, TypeOK', Fresh', NEW d \in Daemons, Kill(d)
  PROVE  Inv'
<1>1. main[d] \notin Over /\ main[d] # "off"
      /\ main' = [main EXCEPT ![d] = "killed"]
      /\ server' = [server EXCEPT ![d] = <<>>] /\ told' = [told EXCEPT ![d] = {}]
      /\ socket' = [a \in Endpoints |-> IF Released(d, a) THEN Nobody ELSE socket[a]]
      /\ conn' = [c \in Clients |-> IF conn[c].at = d THEN NoConn ELSE conn[c]]
      /\ UNCHANGED <<transports, programs, earlier>>
  BY DEF Kill, Dies, Live, Over
<1>2. \A e, j : AddressOf(e, j)' = AddressOf(e, j)
  BY <1>1 DEF AddressOf
<1>3. main'[d] = "killed" /\ server'[d] = <<>>
      /\ \A e \in Daemons : e # d => main'[e] = main[e] /\ server'[e] = server[e] /\ told'[e] = told[e]
  BY <1>1 DEF Inv, TypeOK
<1>4. Stages' /\ ToldFirst' /\ Lists'
  BY <1>1, <1>3 DEF Inv, Stages, Spawned, ToldFirst, Lists
<1>5. Attended'
  BY <1>1, <1>3 DEF Inv, Attended, TypeOK, NoConn
<1>6. Listening'
  <2> SUFFICES ASSUME NEW e \in Daemons, NEW i \in DOMAIN server'[e],
                      server'[e][i] \in {"serving", "draining"}
               PROVE  Bindable(transports[e][i])
                      /\ (transports[e][i].type # "unix" => socket'[AddressOf(e, i)] = e)
    BY <1>1, <1>2 DEF Listening
  <2>1. e # d /\ i \in DOMAIN server[e] /\ server[e][i] \in {"serving", "draining"}
    BY <1>3
  <2>2. AddressOf(e, i) \in Endpoints
    BY <2>1, ServersHaveTransports, AddressTyped DEF Inv
  <2> QED BY <1>1, <2>1, <2>2 DEF Inv, Listening, Released
<1>7. Owners'
  <2> SUFFICES ASSUME NEW a \in Endpoints, NEW o, o = socket'[a], o # Nobody PROVE Claims(o, a)'
    BY DEF Owners
  <2>1. o = socket[a] /\ Claims(o, a) /\ o \in Daemons /\ (o = d => a.type = "unix")
    BY <1>1 DEF Inv, Owners, Released, TypeOK
  <2>2. PICK j \in DOMAIN transports[o] :
          /\ AddressOf(o, j) = a
          /\ a.type # "unix" => j \in DOMAIN server[o] /\ server[o][j] \in {"serving", "draining"}
    BY <2>1 DEF Claims
  <2>3. AddressOf(o, j)' = a /\ j \in DOMAIN transports'[o]
    BY <1>1, <1>2, <2>2
  <2>4. a.type # "unix" => server'[o] = server[o]
    BY <1>3, <2>1
  <2> QED BY <2>2, <2>3, <2>4 DEF Claims
<1>8. Past'
  BY <1>1, <1>3 DEF Inv, Past, TypeOK, Over
<1>9. ClearedWay'
  <2> SUFFICES ASSUME NEW e \in Daemons, NEW i \in DOMAIN server'[e], server'[e][i] = "unlinked"
               PROVE  transports[e][i].type = "unix"
                      /\ socket'[AddressOf(e, i)] \notin earlier[e] \cup {e}
    BY <1>1, <1>2 DEF ClearedWay
  <2>1. e # d /\ i \in DOMAIN server[e] /\ server[e][i] = "unlinked"
    BY <1>3
  <2>2. AddressOf(e, i) \in Endpoints
    BY <2>1, ServersHaveTransports, AddressTyped DEF Inv
  <2>3. socket'[AddressOf(e, i)] \in {Nobody, socket[AddressOf(e, i)]}
        /\ Nobody \notin earlier[e] \cup {e}
    BY <1>1, <2>2, DaemonAssumption DEF Inv, TypeOK
  <2> QED BY <2>1, <2>3 DEF Inv, ClearedWay
<1> QED BY <1>4, <1>5, <1>6, <1>7, <1>8, <1>9 DEF Inv

\* A server that gets ready, binds, or fails to.
LEMMA SetUpInv ==
  ASSUME Inv, TypeOK', Fresh', NEW d \in Daemons, NEW i \in DOMAIN server[d],
         Unlink(d, i) \/ Bind(d, i) \/ BindFails(d, i)
  PROVE  Inv'
<1> DEFINE a == AddressOf(d, i)
           t == transports[d][i]
<1>1. PICK state \in ServerStates :
        /\ Becomes(d, i, state)
        /\ server[d][i] \in {"spawned", "unlinked"} /\ state \in {"unlinked", "serving", "failed"}
        /\ state = "unlinked" => t.type = "unix" /\ socket' = [socket EXCEPT ![a] = Nobody]
        /\ state = "serving" => /\ socket[a] = Nobody /\ Bindable(t)
                                /\ socket' = [socket EXCEPT ![a] = d]
        /\ state = "failed" => socket' = socket
  BY DEF Unlink, Bind, BindFails, AboutToBind, ServerStates
<1>2. UNCHANGED <<main, transports, programs, earlier, told, conn>>
  BY DEF Unlink, Bind, BindFails, process
<1>3. /\ \A e \in Daemons : DOMAIN server'[e] = DOMAIN server[e]
      /\ \A e \in Daemons : \A j \in DOMAIN server[e] :
           server'[e][j] = IF e = d /\ j = i THEN state ELSE server[e][j]
  BY <1>1, BecomesTyped DEF Inv
<1>4. \A e, j : AddressOf(e, j)' = AddressOf(e, j)
  BY <1>2 DEF AddressOf
<1>5. i \in DOMAIN transports[d] /\ a \in Endpoints /\ a.type = t.type
  BY ServersHaveTransports, AddressTyped DEF Inv
<1>6. main[d] = "serving"
  <2>1. server[d] # <<>> /\ server[d][i] \notin {"ended", "failed"}
    BY <1>1
  <2> QED BY <2>1 DEF Inv, Fresh, Stages
<1>7. Stages' /\ ToldFirst' /\ Lists' /\ Past'
  BY <1>1, <1>2, <1>3, <1>6 DEF Inv, Stages, Spawned, ToldFirst, Lists, Past
<1>8. Attended'
  BY <1>1, <1>2, <1>3 DEF Inv, Attended, TypeOK
<1> HIDE DEF a, t
\* Nobody that listens at the endpoint loses it, unless it is a path.
<1>9. \A b \in Endpoints : socket'[b] # socket[b] =>
        /\ b = a
        /\ \/ socket'[b] = d /\ socket[b] = Nobody
           \/ socket'[b] = Nobody /\ b.type = "unix"
  <2>1. CASE state = "unlinked"
    BY <1>1, <1>5, <2>1 DEF Inv, TypeOK
  <2>2. CASE state = "serving"
    BY <1>1, <1>5, <2>2 DEF Inv, TypeOK
  <2>3. CASE state = "failed"
    BY <1>1, <2>3
  <2> QED BY <1>1, <2>1, <2>2, <2>3
<1>10. Listening'
  <2> SUFFICES ASSUME NEW e \in Daemons, NEW j \in DOMAIN server[e],
                      server'[e][j] \in {"serving", "draining"}
               PROVE  Bindable(transports[e][j])
                      /\ (transports[e][j].type # "unix" => socket'[AddressOf(e, j)] = e)
    BY <1>2, <1>3, <1>4 DEF Listening
  <2>1. CASE e = d /\ j = i
    BY <1>1, <1>3, <1>5, <2>1 DEF a, t, Inv, TypeOK
  <2>2. CASE ~ (e = d /\ j = i)
    <3>1. server[e][j] \in {"serving", "draining"}
      BY <1>3, <2>2
    <3>2. AddressOf(e, j) \in Endpoints /\ AddressOf(e, j).type = transports[e][j].type
      BY ServersHaveTransports, AddressTyped DEF Inv
    <3> QED BY <1>9, <3>1, <3>2, DaemonAssumption DEF Inv, Listening
  <2> QED BY <2>1, <2>2
<1>11. Owners'
  <2> SUFFICES ASSUME NEW b \in Endpoints, NEW o, o = socket'[b], o # Nobody PROVE Claims(o, b)'
    BY DEF Owners
  <2>1. CASE o # socket[b]
    <3>1. b = a /\ o = d /\ server'[d][i] = "serving"
      BY <1>1, <1>3, <1>5, <1>9, <2>1 DEF Inv, TypeOK
    <3> QED BY <1>2, <1>3, <1>4, <1>5, <3>1 DEF Claims, a
  <2>2. CASE o = socket[b]
    <3>1. o \in Daemons /\ Claims(o, b)
      BY <2>2 DEF Inv, Owners, TypeOK
    <3>2. PICK j \in DOMAIN transports[o] :
            /\ AddressOf(o, j) = b
            /\ b.type # "unix" => j \in DOMAIN server[o] /\ server[o][j] \in {"serving", "draining"}
      BY <3>1 DEF Claims
    <3>3. b.type # "unix" => j \in DOMAIN server'[o] /\ server'[o][j] \in {"serving", "draining"}
      BY <1>1, <1>3, <3>1, <3>2
    <3> QED BY <1>2, <1>4, <3>2, <3>3 DEF Claims
  <2> QED BY <2>1, <2>2
<1>12. ClearedWay'
  <2> SUFFICES ASSUME NEW e \in Daemons, NEW j \in DOMAIN server[e], server'[e][j] = "unlinked"
               PROVE  transports[e][j].type = "unix"
                      /\ socket'[AddressOf(e, j)] \notin earlier[e] \cup {e}
    BY <1>2, <1>3, <1>4 DEF ClearedWay
  <2> DEFINE b == AddressOf(e, j)
  <2>1. b \in Endpoints /\ Nobody \notin earlier[e] \cup {e} /\ j \in DOMAIN transports[e]
    BY ServersHaveTransports, AddressTyped, DaemonAssumption DEF Inv, TypeOK
  <2>2. CASE e = d /\ j = i
    <3>1. b = a /\ server'[d][i] = state
      BY <1>3, <2>2 DEF a
    <3> QED BY <1>1, <1>5, <2>1, <2>2, <3>1 DEF t, Inv, TypeOK
  <2>3. CASE ~ (e = d /\ j = i)
    <3>1. server[e][j] = "unlinked" /\ transports[e][j].type = "unix"
          /\ socket[b] \notin earlier[e] \cup {e}
      BY <1>3, <2>3 DEF Inv, ClearedWay
    <3>2. CASE socket'[b] # d \/ socket'[b] = socket[b]
      BY <1>9, <2>1, <3>1, <3>2
    <3>3. CASE socket'[b] = d /\ socket'[b] # socket[b]
      <4>1. d \notin earlier[e]
        BY <1>6 DEF Inv, Past, Over
      <4>2. e # d
        <5>1. b = a
          BY <1>9, <2>1, <3>3
        <5> QED BY <1>5, <2>1, <2>3, <5>1, AddressesDiffer DEF Inv, a
      <4> QED BY <3>1, <3>3, <4>1, <4>2
    <3> QED BY <3>2, <3>3
  <2> QED BY <2>2, <2>3
<1> QED BY <1>7, <1>8, <1>10, <1>11, <1>12 DEF Inv

\* A server that is told to end, or ends.
LEMMA EndInv ==
  ASSUME Inv, TypeOK', Fresh', NEW d \in Daemons, NEW i \in DOMAIN server[d],
         Drain(d, i) \/ EndServer(d, i)
  PROVE  Inv'
<1> DEFINE a == AddressOf(d, i)
<1>1. PICK state \in ServerStates :
        /\ Becomes(d, i, state)
        /\ server[d][i] \in {"serving", "draining"} /\ state \in {"draining", "ended"}
        /\ i \in told[d]
        /\ state = "draining" => socket' = socket /\ conn' = conn
        /\ state = "ended" =>
             /\ socket' = IF Released(d, a) THEN [socket EXCEPT ![a] = Nobody] ELSE socket
             /\ conn' = [c \in Clients |->
                           IF conn[c].at = d /\ conn[c].via = i THEN NoConn ELSE conn[c]]
  <2>1. server[d][i] = "draining" => i \in told[d]
    BY DEF Inv, ToldFirst
  <2> QED BY <2>1 DEF Drain, EndServer, Ended, ServerStates
<1>2. UNCHANGED <<main, transports, programs, earlier, told>>
  BY DEF Drain, EndServer, Ended, process
<1>3. /\ \A e \in Daemons : DOMAIN server'[e] = DOMAIN server[e]
      /\ \A e \in Daemons : \A j \in DOMAIN server[e] :
           server'[e][j] = IF e = d /\ j = i THEN state ELSE server[e][j]
  BY <1>1, BecomesTyped DEF Inv
<1>4. \A e, j : AddressOf(e, j)' = AddressOf(e, j)
  BY <1>2 DEF AddressOf
<1>5. i \in DOMAIN transports[d] /\ a \in Endpoints /\ a.type = transports[d][i].type
  BY ServersHaveTransports, AddressTyped DEF Inv
<1>6. main[d] = "serving"
  <2>1. server[d] # <<>> /\ server[d][i] \notin {"ended", "failed"}
    BY <1>1
  <2> QED BY <2>1 DEF Inv, Fresh, Stages
<1>7. Stages' /\ ToldFirst' /\ Lists' /\ Past'
  BY <1>1, <1>2, <1>3, <1>6 DEF Inv, Stages, Spawned, ToldFirst, Lists, Past
<1>8. Attended'
  <2> SUFFICES ASSUME NEW c \in Clients, conn'[c] # NoConn
               PROVE  server'[conn'[c].at][conn'[c].via] \in {"serving", "draining"}
    BY DEF Attended
  <2>1. conn'[c] = conn[c] /\ (state = "ended" => ~ (conn[c].at = d /\ conn[c].via = i))
    BY <1>1
  <2>2. conn[c].at \in Daemons /\ conn[c].via \in DOMAIN server[conn[c].at]
        /\ server[conn[c].at][conn[c].via] \in {"serving", "draining"}
    BY <2>1 DEF Inv, TypeOK, Attended
  <2> QED BY <1>1, <1>3, <2>1, <2>2
<1> HIDE DEF a
<1>9. \A b \in Endpoints : socket'[b] # socket[b] =>
        b = a /\ socket[b] = d /\ socket'[b] = Nobody /\ state = "ended" /\ a.type # "unix"
  BY <1>1, <1>5 DEF Inv, TypeOK, Released
<1>10. Listening'
  <2> SUFFICES ASSUME NEW e \in Daemons, NEW j \in DOMAIN server[e],
                      server'[e][j] \in {"serving", "draining"}
               PROVE  Bindable(transports[e][j])
                      /\ (transports[e][j].type # "unix" => socket'[AddressOf(e, j)] = e)
    BY <1>2, <1>3, <1>4 DEF Listening
  <2>1. server[e][j] \in {"serving", "draining"} /\ (e = d /\ j = i => state # "ended")
    BY <1>1, <1>3
  <2>2. AddressOf(e, j) \in Endpoints /\ j \in DOMAIN transports[e]
    BY ServersHaveTransports, AddressTyped DEF Inv
  <2>3. CASE socket'[AddressOf(e, j)] = socket[AddressOf(e, j)]
    BY <2>1, <2>3 DEF Inv, Listening
  <2>4. CASE socket'[AddressOf(e, j)] # socket[AddressOf(e, j)]
    <3>1. AddressOf(e, j) = AddressOf(d, i) /\ socket[AddressOf(e, j)] = d /\ state = "ended"
          /\ a.type # "unix"
      BY <1>9, <2>2, <2>4 DEF a
    <3>2. transports[e][j].type # "unix"
      BY <2>2, <3>1, AddressTyped DEF Inv, a
    <3>3. e = d
      BY <2>1, <3>1, <3>2 DEF Inv, Listening
    <3>4. j = i
      BY <1>5, <2>2, <3>1, <3>3, AddressesDiffer DEF Inv
    <3> QED BY <2>1, <3>1, <3>3, <3>4
  <2> QED BY <2>3, <2>4
<1>11. Owners'
  <2> SUFFICES ASSUME NEW b \in Endpoints, NEW o, o = socket'[b], o # Nobody PROVE Claims(o, b)'
    BY DEF Owners
  <2>1. o = socket[b] /\ o \in Daemons /\ Claims(o, b)
    BY <1>9 DEF Inv, Owners, TypeOK
  <2>2. PICK j \in DOMAIN transports[o] :
          /\ AddressOf(o, j) = b
          /\ b.type # "unix" => j \in DOMAIN server[o] /\ server[o][j] \in {"serving", "draining"}
    BY <2>1 DEF Claims
  <2>3. b.type # "unix" => server'[o][j] \in {"serving", "draining"}
    <3> SUFFICES ASSUME b.type # "unix", o = d, j = i, state = "ended" PROVE FALSE
      BY <1>1, <1>3, <2>1, <2>2
    <3>1. a = b /\ socket' = [socket EXCEPT ![a] = Nobody]
      BY <1>1, <2>1, <2>2 DEF a, Released
    <3> QED BY <1>5, <3>1 DEF Inv, TypeOK
  <2> QED BY <1>2, <1>3, <1>4, <2>1, <2>2, <2>3 DEF Claims
<1>12. ClearedWay'
  <2> SUFFICES ASSUME NEW e \in Daemons, NEW j \in DOMAIN server[e], server'[e][j] = "unlinked"
               PROVE  transports[e][j].type = "unix"
                      /\ socket'[AddressOf(e, j)] \notin earlier[e] \cup {e}
    BY <1>2, <1>3, <1>4 DEF ClearedWay
  <2>1. AddressOf(e, j) \in Endpoints /\ Nobody \notin earlier[e] \cup {e}
    BY ServersHaveTransports, AddressTyped, DaemonAssumption DEF Inv, TypeOK
  <2>2. server[e][j] = "unlinked"
    BY <1>1, <1>3
  <2> QED BY <1>9, <2>1, <2>2 DEF Inv, ClearedWay
<1> QED BY <1>7, <1>8, <1>10, <1>11, <1>12 DEF Inv

LEMMA ClientInv ==
  ASSUME Inv, TypeOK', Fresh', NEW c \in Clients,
         Connect(c) \/ Accept(c) \/ Answer(c) \/ HangUp(c)
  PROVE  Inv'
<1>1. UNCHANGED <<main, transports, programs, earlier, server, told, ctrlc, socket>>
  BY DEF Connect, Accept, Answer, HangUp, process, servers
<1>2. \A e, j : AddressOf(e, j)' = AddressOf(e, j)
  BY <1>1 DEF AddressOf
<1>3. Attended'
  <2>1. CASE Connect(c)
    <3>1. PICK a \in Endpoints :
            \E i \in DOMAIN server[socket[a]] :
              /\ server[socket[a]][i] \in {"serving", "draining"}
              /\ conn' = [conn EXCEPT ![c] = [at |-> socket[a], via |-> i, state |-> "queued"]]
      BY <2>1, Zenon DEF Connect
    <3> QED BY <1>1, <3>1 DEF Inv, Attended, TypeOK
  <2>2. CASE Accept(c)
    BY <1>1, <2>2 DEF Inv, Attended, TypeOK, Accept, NoConn
  <2>3. CASE Answer(c) \/ HangUp(c)
    BY <1>1, <2>3 DEF Inv, Attended, TypeOK, Answer, HangUp
  <2> QED BY <2>1, <2>2, <2>3
<1>4. Stages' /\ ToldFirst' /\ Lists' /\ Past'
  BY <1>1 DEF Inv, Stages, Spawned, ToldFirst, Lists, Past
<1>5. Listening' /\ Owners' /\ ClearedWay'
  BY <1>1, <1>2 DEF Inv, Listening, Owners, Claims, ClearedWay
<1> QED BY <1>3, <1>4, <1>5 DEF Inv

LEMMA StepInv == Inv /\ [Next]_vars => Inv'
<1> SUFFICES ASSUME Inv, [Next]_vars PROVE Inv'
  OBVIOUS
<1>1. TypeOK' /\ Fresh'
  BY StepTyped DEF Inv
<1>2. CASE UNCHANGED vars
  <2>1. UNCHANGED <<main, transports, programs, earlier, server, told, ctrlc, socket, conn>>
    BY <1>2 DEF vars, process, servers
  <2>2. Stages'
    BY <2>1 DEF Inv, Stages, Spawned
  <2> QED BY <1>1, <2>1, <2>2, MainStepInv
<1>3. ASSUME NEW d \in Daemons,
             Autostart(d) \/ Arm(d) \/ CtrlC(d) \/ StopPrograms(d) \/ Exit(d)
      PROVE  Inv'
  <2>1. UNCHANGED <<transports, server, socket, conn, earlier>>
    BY <1>3 DEF Autostart, Arm, CtrlC, StopPrograms, Exit, process, servers
  <2>2. \A e \in Daemons : told[e] \subseteq told'[e]
    <3>1. CASE CtrlC(d)
      <4>1. told' = [told EXCEPT ![d] = DOMAIN server[d]] /\ DOMAIN told = Daemons
            /\ told[d] \subseteq DOMAIN server[d]
        BY <3>1 DEF CtrlC, Inv, TypeOK
      <4> QED BY <4>1
    <3>2. CASE ~ CtrlC(d)
      BY <1>3, <3>2 DEF Autostart, Arm, StopPrograms, Exit, servers
    <3> QED BY <3>1, <3>2
  <2>3. \A e \in Daemons : main[e] \in Over => main'[e] = main[e]
    BY <1>3 DEF Autostart, Arm, CtrlC, StopPrograms, Exit, process, Over, Inv, TypeOK
  <2>4. Stages'
    <3>1. CASE Autostart(d)
      BY <2>1, <3>1 DEF Inv, Stages, Spawned, Autostart, TypeOK
    <3>2. CASE Arm(d) \/ CtrlC(d)
      BY <2>1, <3>2 DEF Inv, Stages, Spawned, Arm, CtrlC, process
    <3>3. CASE StopPrograms(d)
      BY <2>1, <3>3 DEF Inv, Stages, Spawned, StopPrograms, TypeOK
    <3>4. CASE Exit(d)
      BY <2>1, <3>4 DEF Inv, Stages, Spawned, Exit, TypeOK
    <3> QED BY <1>3, <3>1, <3>2, <3>3, <3>4
  <2> QED BY <1>1, <2>1, <2>2, <2>3, <2>4, MainStepInv
<1>4. ASSUME NEW d \in Daemons, Launch(d) PROVE Inv'
  BY <1>1, <1>4, LaunchInv
<1>5. ASSUME NEW d \in Daemons, SpawnServer(d) PROVE Inv'
  BY <1>1, <1>5, SpawnInv
<1>6. ASSUME NEW d \in Daemons, Kill(d) PROVE Inv'
  BY <1>1, <1>6, KillInv
<1>7. ASSUME NEW d \in Daemons, NEW i \in DOMAIN server[d], ServerStep(d, i) PROVE Inv'
  BY <1>1, <1>7, SetUpInv, EndInv DEF ServerStep
<1>8. ASSUME NEW c \in Clients, Connect(c) \/ Accept(c) \/ Answer(c) \/ HangUp(c) PROVE Inv'
  BY <1>1, <1>8, ClientInv
<1> QED BY <1>2, <1>3, <1>4, <1>5, <1>6, <1>7, <1>8 DEF Next, DaemonStep

LEMMA Invariance == Spec => []Inv
BY InitInv, StepInv, PTL DEF Spec

(***************************************************************************)
(* Nobody waits for an answer, or follows a log, of a daemon that stops or *)
(* has stopped its programs (main.rs:320 to 341).                          *)
(***************************************************************************)
THEOREM CallsHaveTheirPrograms == Spec => []NoCallOutlivesThePrograms
<1>1. Inv => NoCallOutlivesThePrograms
  <2> SUFFICES ASSUME Inv, NEW c \in Clients, conn[c].state \in {"call", "follow"}
               PROVE  main[conn[c].at] = "serving" /\ programs[conn[c].at] = "up"
    BY DEF NoCallOutlivesThePrograms
  <2>1. conn[c] # NoConn
    BY DEF NoConn
  <2>2. conn[c].at \in Daemons /\ conn[c].via \in DOMAIN server[conn[c].at]
        /\ server[conn[c].at][conn[c].via] \in {"serving", "draining"}
    BY <2>1 DEF Inv, TypeOK, Attended
  <2>3. server[conn[c].at] # <<>>
    BY <2>2
  <2> QED BY <2>2, <2>3 DEF Inv, Fresh, Stages
<1> QED BY <1>1, Invariance, PTL

(***************************************************************************)
(* A daemon goes on to stop its programs only when every one of its        *)
(* transports has had a server that failed to bind or was there when the   *)
(* Ctrl+C came (main.rs:234, 320).                                         *)
(***************************************************************************)
THEOREM DaemonsDoNotJustEnd == Spec => []DaemonsEndForAReason
<1>1. Inv => DaemonsEndForAReason
  <2> SUFFICES ASSUME Inv, NEW d \in Daemons, main[d] \in {"stopped", "exited"},
                      NEW i \in DOMAIN transports[d]
               PROVE  i \in DOMAIN server[d] /\ (server[d][i] = "failed" \/ i \in told[d])
    BY DEF DaemonsEndForAReason
  <2>1. Spawned(d) /\ \A j \in DOMAIN server[d] : server[d][j] \in {"ended", "failed"}
    BY DEF Inv, Stages
  <2>2. i \in DOMAIN server[d]
    BY <2>1 DEF Inv, TypeOK, Spawned
  <2> QED BY <2>1, <2>2 DEF Inv, ToldFirst
<1> QED BY <1>1, Invariance, PTL

(***************************************************************************)
(* The address that GetStatus shows leads back to the server that shows it *)
(* (transport.rs:69, grpc_server.rs:59).                                   *)
(***************************************************************************)
THEOREM ShownAddressesLeadBack == Spec => []ShownAddressLeadsBack
<1>1. Inv => ShownAddressLeadsBack
  <2> SUFFICES ASSUME Inv, NEW d \in Daemons, NEW i \in DOMAIN server[d],
                      server[d][i] = "serving", NEW t, t = transports[d][i]
               PROVE  /\ Parse(Display(t)) = t
                      /\ TypeShown(Display(t)) = t.type
                      /\ t.type # "vsock" => Reached(Parse(Display(t))) = {AddressOf(d, i)}
    BY DEF ShownAddressLeadsBack
  <2>1. WellFormed(t) /\ Bindable(t)
    <3>1. i \in DOMAIN transports[d] /\ Good(transports[d])
      BY ServersHaveTransports DEF Inv, Lists
    <3>2. WellFormed(t)
      BY <3>1, GoodFacts
    <3> QED BY <3>2 DEF Inv, Listening
  <2>2. Parse(Display(t)) = t
    BY <2>1, DisplayReadsBack
  <2>3. ASSUME NEW host, NEW port, t = Inet(host, port)
        PROVE  TypeShown(Display(t)) = t.type /\ Reached(t) = {AddressOf(d, i)}
    <3>1. t.type = "inet" /\ t.host = host /\ t.port = port /\ host \in Ip
      BY <2>1, <2>3 DEF Inet, Bindable
    <3>2. AddressOf(d, i) = t /\ IpsOf(t.host) = {host}
      BY <3>1 DEF AddressOf, Endpoint, IpsOf
    <3>3. Reached(t) = {Inet(ip, port) : ip \in {host}}
      BY <3>1, <3>2 DEF Reached
    <3>4. Display(t).scheme = "inet"
      BY <3>1 DEF Display
    <3> QED BY <2>3, <3>1, <3>2, <3>3, <3>4 DEF TypeShown
  <2>4. ASSUME NEW path, t = Unix(path)
        PROVE  TypeShown(Display(t)) = t.type /\ Reached(t) = {AddressOf(d, i)}
    <3>1. t.type = "unix" /\ AddressOf(d, i) = t
      BY <2>4 DEF Unix, AddressOf, Endpoint
    <3>2. Display(t).scheme = "unix"
      BY <3>1 DEF Display
    <3> QED BY <3>1, <3>2 DEF TypeShown, Reached
  <2>5. ASSUME NEW cid, NEW port, t = Vsock(cid, port)
        PROVE  TypeShown(Display(t)) = t.type /\ t.type = "vsock"
    <3>1. t.type = "vsock"
      BY <2>5 DEF Vsock
    <3>2. Display(t).scheme = "vsock"
      BY <3>1 DEF Display
    <3> QED BY <3>1, <3>2 DEF TypeShown
  <2> QED BY <2>1, <2>2, <2>3, <2>4, <2>5 DEF WellFormed
<1> QED BY <1>1, Invariance, PTL

(***************************************************************************)
(* What earlier daemons left behind does not keep a later one from serving *)
(* (main.rs:256).                                                          *)
(***************************************************************************)
THEOREM LeftoversAreCleared == Spec => LeftoversDoNotBlock
<1> DEFINE Clear ==
      \A d \in Daemons : \A i \in DOMAIN server[d] :
        BindFails(d, i) =>
          \/ ~ Bindable(transports[d][i])
          \/ \E e \in Daemons \ (earlier[d] \cup {d}) :
               \E j \in DOMAIN transports[e] : AddressOf(e, j) = AddressOf(d, i)
<1>1. Inv => Clear
  <2> SUFFICES ASSUME Inv, NEW d \in Daemons, NEW i \in DOMAIN server[d], BindFails(d, i),
                      Bindable(transports[d][i])
               PROVE  \E e \in Daemons \ (earlier[d] \cup {d}) :
                        \E j \in DOMAIN transports[e] : AddressOf(e, j) = AddressOf(d, i)
    OBVIOUS
  <2> DEFINE a == AddressOf(d, i)
             o == socket[a]
  <2>1. i \in DOMAIN transports[d] /\ a \in Endpoints /\ a.type = transports[d][i].type
    BY ServersHaveTransports, AddressTyped DEF Inv
  <2>2. o # Nobody /\ o \in Daemons /\ AboutToBind(d, i)
    BY <2>1 DEF BindFails, Inv, TypeOK
  <2>3. Claims(o, a)
    BY <2>1, <2>2 DEF Inv, Owners
  <2>4. o \notin earlier[d] \cup {d}
    <3>1. CASE a.type = "unix"
      BY <2>1, <2>2, <3>1 DEF Inv, ClearedWay, AboutToBind
    <3>2. CASE a.type # "unix"
      <4>1. PICK j \in DOMAIN transports[o] :
              AddressOf(o, j) = a /\ j \in DOMAIN server[o]
              /\ server[o][j] \in {"serving", "draining"}
        BY <2>3, <3>2 DEF Claims
      <4>2. o # d
        BY <2>1, <2>2, <3>2, <4>1, AddressesDiffer DEF AboutToBind, Inv
      <4>3. main[o] = "serving"
        <5>1. server[o] # <<>>
          BY <4>1
        <5> QED BY <2>2, <4>1, <5>1 DEF Inv, Fresh, Stages
      <4> QED BY <4>2, <4>3 DEF Inv, Past, Over
    <3> QED BY <3>1, <3>2
  <2> QED BY <2>2, <2>3, <2>4 DEF Claims
<1> QED BY <1>1, Invariance, PTL DEF LeftoversDoNotBlock

(***************************************************************************)
(* Only a daemon that starts up takes new clients from one that serves,    *)
(* and only on a unix path (main.rs:256).                                  *)
(***************************************************************************)
THEOREM PathsAreTakenByStarters == Spec => OnlyStartersTakeAPath
<1> DEFINE Kept ==
      \A a \in Endpoints : \A d \in Daemons :
       /\ socket[a] = d /\ socket'[a] # d
       /\ \E i \in DOMAIN server[d] : AddressOf(d, i) = a /\ server[d][i] = "serving"
       /\ Live(d)'
       => /\ a.type = "unix"
          /\ \E e \in Daemons : \E j \in DOMAIN server[e] :
               AddressOf(e, j) = a /\ server[e][j] = "spawned" /\ server'[e][j] = "unlinked"
<1>1. Inv /\ [Next]_vars => Kept
  <2> SUFFICES ASSUME Inv, [Next]_vars, NEW a \in Endpoints, NEW d \in Daemons,
                      socket[a] = d, socket'[a] # d, Live(d)',
                      NEW i \in DOMAIN server[d], AddressOf(d, i) = a, server[d][i] = "serving"
               PROVE  /\ a.type = "unix"
                      /\ \E e \in Daemons : \E j \in DOMAIN server[e] :
                           AddressOf(e, j) = a /\ server[e][j] = "spawned" /\ server'[e][j] = "unlinked"
    OBVIOUS
  <2>1. ASSUME NEW e \in Daemons, Kill(e) PROVE FALSE
    BY <2>1 DEF Kill, Dies, Released, Live, Inv, TypeOK
  <2>2. ASSUME NEW e \in Daemons, NEW j \in DOMAIN server[e], Bind(e, j) PROVE FALSE
    <3>1. AddressOf(e, j) \in Endpoints
      BY ServersHaveTransports, AddressTyped DEF Inv
    <3> QED BY <2>2, <3>1, DaemonAssumption DEF Bind, Inv, TypeOK
  <2>3. ASSUME NEW e \in Daemons, NEW j \in DOMAIN server[e], EndServer(e, j) PROVE FALSE
    <3>1. AddressOf(e, j) = a /\ e = d
      BY <2>3 DEF EndServer, Released, Inv, TypeOK
    <3>2. i = j
      BY <3>1, ServersHaveTransports, AddressesDiffer DEF Inv
    <3> QED BY <2>3, <3>1, <3>2 DEF EndServer
  <2>4. ASSUME NEW e \in Daemons, NEW j \in DOMAIN server[e], Unlink(e, j)
        PROVE  /\ a.type = "unix"
               /\ AddressOf(e, j) = a /\ server[e][j] = "spawned" /\ server'[e][j] = "unlinked"
    <3>1. j \in DOMAIN transports[e] /\ AddressOf(e, j).type = transports[e][j].type
      BY ServersHaveTransports, AddressTyped DEF Inv
    <3>2. AddressOf(e, j) = a
      BY <2>4 DEF Unlink, Inv, TypeOK
    <3>3. server'[e][j] = "unlinked"
      BY <2>4, BecomesTyped DEF Unlink, Inv, ServerStates
    <3> QED BY <2>4, <3>1, <3>2, <3>3 DEF Unlink
  <2>5. \/ \E e \in Daemons : Kill(e)
        \/ \E e \in Daemons : \E j \in DOMAIN server[e] : Bind(e, j) \/ EndServer(e, j) \/ Unlink(e, j)
    <3>1. ASSUME NEW e \in Daemons,
                 Launch(e) \/ Autostart(e) \/ Arm(e) \/ SpawnServer(e) \/ StopPrograms(e)
                 \/ Exit(e) \/ CtrlC(e)
          PROVE  FALSE
      BY <3>1 DEF Launch, Autostart, Arm, SpawnServer, StopPrograms, Exit, CtrlC
    <3>2. ASSUME NEW e \in Daemons, NEW j \in DOMAIN server[e], BindFails(e, j) \/ Drain(e, j)
          PROVE  FALSE
      BY <3>2 DEF BindFails, Drain
    <3>3. ASSUME NEW c \in Clients, Connect(c) \/ Accept(c) \/ Answer(c) \/ HangUp(c)
          PROVE  FALSE
      BY <3>3 DEF Connect, Accept, Answer, HangUp
    <3>4. CASE UNCHANGED vars
      BY <3>4 DEF vars
    <3> QED BY <3>1, <3>2, <3>3, <3>4 DEF Next, DaemonStep, ServerStep
  <2> QED BY <2>1, <2>2, <2>3, <2>4, <2>5
<1> QED BY <1>1, Invariance, PTL DEF Spec, OnlyStartersTakeAPath

=============================================================================
