------------------------------ MODULE Daemon -------------------------------
(***************************************************************************)
(* cirond from its command line to its exit (cirond/src/main.rs): the      *)
(* transports it chooses, a server task for each, Ctrl+C, and the end, for *)
(* several daemons on one machine and the clients that connect to them.    *)
(***************************************************************************)
EXTENDS Transport

CONSTANTS
  Daemons,   \* processes, each launched at most once
  Clients,   \* cironctl processes
  Setups,    \* [cli, table]: -t if there is one, and the [transport] table
  Addresses, \* what the clients give to -t
  Nobody

ASSUME DaemonAssumption ==
  /\ Nobody \notin Daemons
  /\ \A s \in Setups : Len(s.cli) <= 1 /\ IsTable(s.table)

Transports == UNION {{Chosen(s.cli, s.table)[i] : i \in DOMAIN Chosen(s.cli, s.table)} : s \in Setups}
Endpoints == {Endpoint(t) : t \in Transports}

VARIABLES
  main,       \* per daemon, how far main has come
  transports, \* ... what it serves, in order
  server,     \* ... its server tasks, in the order of their transports
  ctrlc,      \* ... the Ctrl+C listener: not there yet, waiting, over
  told,       \* ... the servers whose receiver has got the shutdown
  programs,   \* ... its programs: not started, under it, stop_all has been called
  socket,     \* per endpoint, who has bound it; a unix path outlives its binder
  conn,       \* per client, its connection
  earlier     \* history: per daemon, those that were over when it was launched

process == <<main, transports, programs, earlier>>
servers == <<server, told>>
vars == <<process, servers, ctrlc, socket, conn>>

Over == {"failed", "exited", "killed"}
ServerStates == {"spawned", "unlinked", "serving", "draining", "ended", "failed"}
NoConn == [at |-> Nobody, via |-> 0, state |-> "none"]

TypeOK ==
  /\ main \in [Daemons -> {"off", "booting", "serving", "stopped"} \cup Over]
  /\ transports \in [Daemons -> Seq(Transports)]
  /\ server \in [Daemons -> Seq(ServerStates)]
  /\ \A d \in Daemons : Len(server[d]) <= Len(transports[d])
  /\ ctrlc \in [Daemons -> {"none", "armed", "spent"}]
  /\ \A d \in Daemons : told[d] \subseteq DOMAIN server[d]
  /\ DOMAIN told = Daemons
  /\ programs \in [Daemons -> {"none", "up", "stopped"}]
  /\ socket \in [Endpoints -> Daemons \cup {Nobody}]
  /\ DOMAIN conn = Clients
  /\ \A c \in Clients :
       \/ conn[c] = NoConn
       \/ /\ conn[c].at \in Daemons /\ conn[c].via \in DOMAIN server[conn[c].at]
          /\ conn[c] \in [at : Daemons, via : Nat \ {0}, state : {"queued", "call", "follow"}]
  /\ earlier \in [Daemons -> SUBSET Daemons]

Init ==
  /\ main = [d \in Daemons |-> "off"] /\ transports = [d \in Daemons |-> <<>>]
  /\ server = [d \in Daemons |-> <<>>] /\ told = [d \in Daemons |-> {}]
  /\ ctrlc = [d \in Daemons |-> "none"] /\ programs = [d \in Daemons |-> "none"]
  /\ socket = [a \in Endpoints |-> Nobody]
  /\ conn = [c \in Clients |-> NoConn]
  /\ earlier = [d \in Daemons |-> {}]

Live(d) == main[d] \in {"booting", "serving", "stopped"}
Spawned(d) == Len(server[d]) = Len(transports[d])
AddressOf(d, i) == Endpoint(transports[d][i])
Becomes(d, i, state) == server' = [server EXCEPT ![d][i] = state]

\* The connections in which someone waits for an answer, or follows a log.
Open(d, i) ==
  \E c \in Clients : conn[c].at = d /\ conn[c].via = i /\ conn[c].state \in {"call", "follow"}

\* The sockets of d that are gone with it: the file of a unix one stays.
Released(d, a) == socket[a] = d /\ a.type # "unix"

-----------------------------------------------------------------------------
(* main                                                                    *)

\* Whatever is wrong with the configuration is found before anything is done.
Launch(d) ==
  /\ main[d] = "off"
  /\ \E s \in Setups :
       LET chosen == Chosen(s.cli, s.table)
       IN /\ transports' = [transports EXCEPT ![d] = chosen]
          /\ main' = [main EXCEPT ![d] = IF chosen = <<>> THEN "failed" ELSE "booting"]
  /\ earlier' = [earlier EXCEPT ![d] = {e \in Daemons : main[e] \in Over}]
  /\ UNCHANGED <<servers, ctrlc, programs, socket, conn>>

\* load_from_config, start_all_autostart
Autostart(d) ==
  /\ main[d] = "booting"
  /\ main' = [main EXCEPT ![d] = "serving"]
  /\ programs' = [programs EXCEPT ![d] = "up"]
  /\ UNCHANGED <<transports, earlier, servers, ctrlc, socket, conn>>

\* The listener's task runs, and the signal does not kill any more.
Arm(d) ==
  /\ main[d] = "serving" /\ ctrlc[d] = "none"
  /\ ctrlc' = [ctrlc EXCEPT ![d] = "armed"]
  /\ UNCHANGED <<process, servers, socket, conn>>

\* A receiver of what is sent from now on, and a task that has it.
SpawnServer(d) ==
  /\ main[d] = "serving" /\ ~ Spawned(d)
  /\ server' = [server EXCEPT ![d] = Append(@, "spawned")]
  /\ UNCHANGED <<process, told, ctrlc, socket, conn>>

\* Fault: main awaits the first of its servers only.
StopAfterFirst(d) ==
  /\ main[d] = "serving" /\ Spawned(d) /\ server[d][1] \in {"ended", "failed"}
  /\ main' = [main EXCEPT ![d] = "stopped"]
  /\ programs' = [programs EXCEPT ![d] = "stopped"]
  /\ UNCHANGED <<transports, earlier, servers, ctrlc, socket, conn>>

\* Fault: main goes on only when all servers have been stopped.
StopWhenAllServed(d) ==
  /\ main[d] = "serving" /\ Spawned(d)
  /\ \A i \in DOMAIN server[d] : server[d][i] = "ended"
  /\ main' = [main EXCEPT ![d] = "stopped"]
  /\ programs' = [programs EXCEPT ![d] = "stopped"]
  /\ UNCHANGED <<transports, earlier, servers, ctrlc, socket, conn>>

\* All handles awaited: shutdown and stop_all, as one step.  What they do to the
\* table, and what the event loop does until it is aborted, is ProcessManager's
\* (ShutdownBegin to DaemonExit): a program may be left there.
StopPrograms(d) ==
  /\ main[d] = "serving" /\ Spawned(d)
  /\ \A i \in DOMAIN server[d] : server[d][i] \in {"ended", "failed"}
  /\ main' = [main EXCEPT ![d] = "stopped"]
  /\ programs' = [programs EXCEPT ![d] = "stopped"]
  /\ UNCHANGED <<transports, earlier, servers, ctrlc, socket, conn>>

Exit(d) ==
  /\ main[d] = "stopped"
  /\ main' = [main EXCEPT ![d] = "exited"]
  /\ UNCHANGED <<transports, programs, earlier, servers, ctrlc, socket, conn>>

\* A signal ends the process, and nothing is done about the programs.
Dies(d) ==
  /\ main' = [main EXCEPT ![d] = "killed"]
  /\ server' = [server EXCEPT ![d] = <<>>] /\ told' = [told EXCEPT ![d] = {}]
  /\ socket' = [a \in Endpoints |-> IF Released(d, a) THEN Nobody ELSE socket[a]]
  /\ conn' = [c \in Clients |-> IF conn[c].at = d THEN NoConn ELSE conn[c]]
  /\ ctrlc' = [ctrlc EXCEPT ![d] = "none"]
  /\ UNCHANGED <<transports, programs, earlier>>

\* SIGTERM, SIGKILL, and a Ctrl+C that nobody listens to yet.
Kill(d) == Live(d) /\ Dies(d)

\* Fault: a server counts as told before it has its receiver.
CtrlCForAll(d) ==
  /\ main[d] = "serving" /\ ctrlc[d] = "armed"
  /\ ctrlc' = [ctrlc EXCEPT ![d] = "spent"]
  /\ told' = [told EXCEPT ![d] = DOMAIN transports[d]]
  /\ UNCHANGED <<process, server, socket, conn>>

\* Every receiver there is at that time gets it.  A second Ctrl+C is
\* swallowed: the handler stays installed, and no task waits for it.
CtrlC(d) ==
  /\ main[d] = "serving" /\ ctrlc[d] = "armed"
  /\ ctrlc' = [ctrlc EXCEPT ![d] = "spent"]
  /\ told' = [told EXCEPT ![d] = DOMAIN server[d]]
  /\ UNCHANGED <<process, server, socket, conn>>

-----------------------------------------------------------------------------
(* A server task.                                                          *)

\* Fault: the file is left where it is.
LeaveFile(d, i) ==
  /\ server[d][i] = "spawned" /\ transports[d][i].type = "unix"
  /\ Becomes(d, i, "unlinked")
  /\ UNCHANGED <<process, told, ctrlc, socket, conn>>

\* remove_file: whoever serves there is cut off from new clients.
Unlink(d, i) ==
  /\ server[d][i] = "spawned" /\ transports[d][i].type = "unix"
  /\ Becomes(d, i, "unlinked")
  /\ socket' = [socket EXCEPT ![AddressOf(d, i)] = Nobody]
  /\ UNCHANGED <<process, told, ctrlc, conn>>

AboutToBind(d, i) ==
  server[d][i] = IF transports[d][i].type = "unix" THEN "unlinked" ELSE "spawned"

Bind(d, i) ==
  /\ AboutToBind(d, i)
  /\ Bindable(transports[d][i]) /\ socket[AddressOf(d, i)] = Nobody
  /\ Becomes(d, i, "serving")
  /\ socket' = [socket EXCEPT ![AddressOf(d, i)] = d]
  /\ UNCHANGED <<process, told, ctrlc, conn>>

\* The error ends the task only.
BindFails(d, i) ==
  /\ AboutToBind(d, i)
  /\ ~ Bindable(transports[d][i]) \/ socket[AddressOf(d, i)] # Nobody
  /\ Becomes(d, i, "failed")
  /\ UNCHANGED <<process, told, ctrlc, socket, conn>>

\* Fault: any server may come to see the shutdown.
DrainUntold(d, i) ==
  /\ server[d][i] = "serving"
  /\ Becomes(d, i, "draining")
  /\ UNCHANGED <<process, told, ctrlc, socket, conn>>

\* recv() returns: nothing is accepted any more.
Drain(d, i) ==
  /\ server[d][i] = "serving" /\ i \in told[d]
  /\ Becomes(d, i, "draining")
  /\ UNCHANGED <<process, told, ctrlc, socket, conn>>

\* What is still in the backlog is dropped with the listener.
Ended(d, i) ==
  /\ Becomes(d, i, "ended")
  /\ conn' = [c \in Clients |->
                IF conn[c].at = d /\ conn[c].via = i THEN NoConn ELSE conn[c]]
  /\ UNCHANGED <<process, told, ctrlc>>

\* Fault: a server that ends removes its file, whoever has bound it since.
EndAndUnlink(d, i) ==
  /\ server[d][i] = "draining" /\ ~ Open(d, i)
  /\ Ended(d, i)
  /\ socket' = [socket EXCEPT ![AddressOf(d, i)] = Nobody]

\* Fault: a server does not wait for its open connections.
EndAbruptly(d, i) ==
  /\ server[d][i] = "draining"
  /\ Becomes(d, i, "ended")
  /\ UNCHANGED <<process, told, ctrlc, socket, conn>>

\* Fault: the backlog of a server that ends is not dropped.
EndAndForget(d, i) ==
  /\ server[d][i] = "draining" /\ ~ Open(d, i)
  /\ Becomes(d, i, "ended")
  /\ UNCHANGED <<process, told, ctrlc, socket, conn>>

\* serve_with_shutdown returns when its connections are done.
EndServer(d, i) ==
  /\ server[d][i] = "draining" /\ ~ Open(d, i)
  /\ Ended(d, i)
  /\ socket' = IF Released(d, AddressOf(d, i))
               THEN [socket EXCEPT ![AddressOf(d, i)] = Nobody] ELSE socket

-----------------------------------------------------------------------------
(* cironctl                                                                *)

\* The kernel takes the connection of whoever dials a socket that is listened
\* on; the server accepts it later, or never.
Connect(c) ==
  /\ conn[c] = NoConn
  /\ \E s \in Addresses : \E a \in Reached(Parse(s)) \cap Endpoints :
       LET d == socket[a]
       IN /\ d # Nobody
          /\ \E i \in DOMAIN server[d] :
               /\ AddressOf(d, i) = a /\ server[d][i] \in {"serving", "draining"}
               /\ conn' = [conn EXCEPT ![c] = [at |-> d, via |-> i, state |-> "queued"]]
  /\ UNCHANGED <<process, servers, ctrlc, socket>>

\* The request is read: any command, or `logs --follow`.
Accept(c) ==
  /\ conn[c].state = "queued" /\ server[conn[c].at][conn[c].via] = "serving"
  /\ \E kind \in {"call", "follow"} : conn' = [conn EXCEPT ![c].state = kind]
  /\ UNCHANGED <<process, servers, ctrlc, socket>>

Answer(c) ==
  /\ conn[c].state = "call"
  /\ conn' = [conn EXCEPT ![c] = NoConn]
  /\ UNCHANGED <<process, servers, ctrlc, socket>>

HangUp(c) ==
  /\ conn[c] # NoConn
  /\ conn' = [conn EXCEPT ![c] = NoConn]
  /\ UNCHANGED <<process, servers, ctrlc, socket>>

-----------------------------------------------------------------------------
ServerStep(d, i) ==
  \/ Unlink(d, i) \/ Bind(d, i) \/ BindFails(d, i)
  \/ Drain(d, i) \/ EndServer(d, i)

DaemonStep(d) ==
  \/ Autostart(d) \/ Arm(d) \/ SpawnServer(d) \/ StopPrograms(d) \/ Exit(d)
  \/ \E i \in DOMAIN server[d] : ServerStep(d, i)

Next ==
  \/ \E d \in Daemons : Launch(d) \/ DaemonStep(d) \/ CtrlC(d) \/ Kill(d)
  \/ \E c \in Clients : Connect(c) \/ Accept(c) \/ Answer(c) \/ HangUp(c)

Spec == Init /\ [][Next]_vars

(***************************************************************************)
(* Fairness: the tasks of a daemon run when they can, and a handler ends   *)
(* (Control shows that every command is answered).  Nobody need launch,    *)
(* interrupt or kill a daemon, connect to it, or end a log it follows.     *)
(***************************************************************************)
Fairness ==
  /\ \A d \in Daemons : WF_vars(DaemonStep(d))
  /\ \A c \in Clients : WF_vars(Accept(c) \/ Answer(c))

FairSpec == Spec /\ Fairness

-----------------------------------------------------------------------------
(***************************************************************************)
(* While somebody waits for an answer the programs are there: main stops   *)
(* them only when no server has an open call left (main.rs:320 to 341).    *)
(***************************************************************************)
NoCallOutlivesThePrograms ==
  \A c \in Clients : conn[c].state \in {"call", "follow"} =>
    main[conn[c].at] = "serving" /\ programs[conn[c].at] = "up"

(***************************************************************************)
(* A daemon that has once served comes to stop its programs only for a     *)
(* reason: every one of its transports has had its server, and that failed *)
(* to bind or was there when the Ctrl+C came.  One that is spawned after   *)
(* the Ctrl+C is not told, and keeps the daemon (main.rs:234, 320).        *)
(***************************************************************************)
DaemonsEndForAReason ==
  \A d \in Daemons : main[d] \in {"stopped", "exited"} =>
    \A i \in DOMAIN transports[d] :
      i \in DOMAIN server[d] /\ (server[d][i] = "failed" \/ i \in told[d])

(***************************************************************************)
(* The address that GetStatus shows is that of the server it was asked of: *)
(* given to cironctl it reads back as the same transport, and is reached   *)
(* where that server listens, but for a CID of another machine             *)
(* (transport.rs:69, grpc_server.rs:59, main.rs:242).                      *)
(***************************************************************************)
ShownAddressLeadsBack ==
  \A d \in Daemons : \A i \in DOMAIN server[d] : server[d][i] = "serving" =>
    LET t == transports[d][i]
    IN /\ Parse(Display(t)) = t
       /\ TypeShown(Display(t)) = t.type
       /\ t.type # "vsock" => Reached(Parse(Display(t))) = {AddressOf(d, i)}

(***************************************************************************)
(* What dead daemons left behind, a socket file above all, does not keep a *)
(* later one from serving: when a bind fails, the address is none, or a    *)
(* daemon that was not over at the launch has it too (main.rs:256).        *)
(***************************************************************************)
LeftoversDoNotBlock ==
  [][\A d \in Daemons : \A i \in DOMAIN server[d] :
       BindFails(d, i) =>
         \/ ~ Bindable(transports[d][i])
         \/ \E e \in Daemons \ (earlier[d] \cup {d}) :
              \E j \in DOMAIN transports[e] : AddressOf(e, j) = AddressOf(d, i)]_vars

(***************************************************************************)
(* New clients are taken from a server that serves only by a daemon that   *)
(* starts up on the same unix path, never by one that ends (main.rs:256).  *)
(***************************************************************************)
OnlyStartersTakeAPath ==
  [][\A a \in Endpoints : \A d \in Daemons :
       /\ socket[a] = d /\ socket'[a] # d
       /\ \E i \in DOMAIN server[d] : AddressOf(d, i) = a /\ server[d][i] = "serving"
       /\ Live(d)'
       => /\ a.type = "unix"
          /\ \E e \in Daemons : \E j \in DOMAIN server[e] :
               AddressOf(e, j) = a /\ server[e][j] = "spawned" /\ server'[e][j] = "unlinked"]_vars

Followed(d) == \E c \in Clients : conn[c].at = d /\ conn[c].state = "follow"

\* Each of its servers has failed, or has got the shutdown.
Doomed(d) ==
  /\ main[d] = "serving" /\ Spawned(d)
  /\ \A i \in DOMAIN server[d] : server[d][i] = "failed" \/ i \in told[d]

(***************************************************************************)
(* A daemon that cannot serve, or whose servers were all spawned when the  *)
(* Ctrl+C came, ends, unless somebody goes on following a log              *)
(* (main.rs:320, grpc_server.rs:332).                                      *)
(***************************************************************************)
DoomedDaemonsEnd ==
  \A d \in Daemons : ([]<> ~ Followed(d)) => (Doomed(d) ~> main[d] \in Over)

(***************************************************************************)
(* Whoever has been connected is answered, follows its log or is turned    *)
(* away: a client in the backlog of a server that drains waits no longer   *)
(* than the streams that keep the server.                                  *)
(***************************************************************************)
Waits(c) == conn[c].state \in {"queued", "call"}

ConnectionsAreServed ==
  (\A d \in Daemons : []<> ~ Followed(d)) => \A c \in Clients : Waits(c) ~> ~ Waits(c)

=============================================================================
