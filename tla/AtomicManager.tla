--------------------------- MODULE AtomicManager ---------------------------
(***************************************************************************)
(* What the clients of the daemon may count on: every command takes effect *)
(* at one instant between its call and its answer, and what is printed is  *)
(* the table at that instant.  A restart is one such instant too, unless   *)
(* its client gives it up: then it may have come no further than the stop. *)
(***************************************************************************)
CONSTANTS
  Clients,
  Programs,
  Unknown,   \* a name no program has
  Calls,     \* the commands, [op, name]
  NoCall,
  Brings,    \* per program, what a start of it brings in
  Forwarded  \* programs whose output is kept

Reads == {"status", "get", "logs"}
Writes == {"start", "stop", "restart"}

\* What a client sees: a word, or the programs listed as running and stopped.
Says(word) == [word |-> word, up |-> {}, down |-> {}]
Silent == Says("nothing")
Lists(up, down) == [word |-> "status", up |-> up, down |-> down]

VARIABLES
  shown,     \* the programs marked running
  asked,     \* per client, its command, or NoCall
  printed    \* per client, the answer to the last one

vars == <<shown, asked, printed>>

Init ==
  /\ shown = {}
  /\ asked = [c \in Clients |-> NoCall]
  /\ printed = [c \in Clients |-> Silent]

Ask(c) ==
  /\ asked[c] = NoCall
  /\ \E k \in Calls : asked' = [asked EXCEPT ![c] = k]
  /\ printed' = [printed EXCEPT ![c] = Silent]
  /\ UNCHANGED shown

Answer(c, reply) ==
  /\ asked' = [asked EXCEPT ![c] = NoCall]
  /\ printed' = [printed EXCEPT ![c] = reply]

\* A read shows the table as it is; only GetStatus has no name to get wrong.
Read(c) ==
  /\ asked[c].op \in Reads
  /\ LET p == asked[c].name
     IN \/ asked[c].op = "status" /\ Answer(c, Lists(shown, Programs \ shown))
        \/ /\ asked[c].op = "get"
           /\ Answer(c, IF p = Unknown THEN Says("error")
                        ELSE Lists({p} \cap shown, {p} \ shown))
        \/ /\ asked[c].op = "logs"
           /\ Answer(c, Says(IF p \in Forwarded THEN "lines" ELSE "error"))
  /\ UNCHANGED shown

Refuse(c) ==
  /\ asked[c].op \in Writes /\ asked[c].name = Unknown
  /\ Answer(c, Says("Failed"))
  /\ UNCHANGED shown

\* Some of what p brings in comes up; the answer tells whether p did.
Start(c) ==
  /\ asked[c].op \in {"start", "restart"} /\ asked[c].name # Unknown
  /\ LET p == asked[c].name
         rest == IF asked[c].op = "restart" THEN shown \ {p} ELSE shown
     IN \E up \in SUBSET Brings[p] :
          /\ shown' = rest \cup up
          /\ Answer(c, Says(IF p \in shown' THEN "Success" ELSE "Failed"))

Stop(c) ==
  /\ asked[c].op = "stop" /\ asked[c].name # Unknown
  /\ shown' = shown \ {asked[c].name}
  /\ Answer(c, Says("Success"))

GiveUp(c) ==
  /\ asked[c] # NoCall
  /\ \/ shown' = shown
     \/ asked[c].op = "restart" /\ shown' = shown \ {asked[c].name}
  /\ Answer(c, Silent)

\* The supervisor's own work: an exit is taken note of, a restart brings up.
Notice(p) == shown' = shown \ {p} /\ UNCHANGED <<asked, printed>>
Revive(p) == shown' = shown \cup {p} /\ UNCHANGED <<asked, printed>>

Serve(c) == Read(c) \/ Refuse(c) \/ Start(c) \/ Stop(c)

Next ==
  \/ \E c \in Clients : Ask(c) \/ Serve(c) \/ GiveUp(c)
  \/ \E p \in Programs : Notice(p) \/ Revive(p)

Spec == Init /\ [][Next]_vars

\* Every command is answered, or given up.
FairSpec == Spec /\ \A c \in Clients : WF_vars(Serve(c) \/ GiveUp(c))

=============================================================================
