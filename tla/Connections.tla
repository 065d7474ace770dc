---------------------------- MODULE Connections ----------------------------
(***************************************************************************)
(* What a server promises of its connections, whatever process, thread or  *)
(* peer fails in between (src/src/server/mod.rs, the task of a connection, *)
(* and src/src/encrypted_stream/server.rs): each goes forward through the  *)
(* same stages, and on an encrypted server no file leaves for a client     *)
(* that was not approved.  FileSrv implements it for all connections of a  *)
(* server, Transfer for one connection with both of its ends.              *)
(***************************************************************************)
CONSTANT Clients

VARIABLES
  stage,      \* how far the connection of each client is
  encrypted   \* the server encrypts

vars == <<stage, encrypted>>

Ended == {"served", "rejected", "failed"}

Init ==
  /\ stage \in [Clients -> {"waiting", "info"}]
  /\ encrypted \in BOOLEAN

Moves(c, from, to) ==
  /\ stage[c] = from
  /\ stage' = [stage EXCEPT ![c] = to]
  /\ UNCHANGED encrypted

\* data_srv has accepted the connection and will say what it serves.
Accept(c) == Moves(c, "waiting", "info")

\* The client knows: an encrypted server starts a key exchange.
Begin(c) == Moves(c, "info", IF encrypted THEN "handshake" ELSE "streaming")

\* The client's public key is known.
Submit(c) == Moves(c, "handshake", "approval")

Decide(c) == Moves(c, "approval", "approved") \/ Moves(c, "approval", "denied")

\* The client is told.
Answer(c) == Moves(c, "approved", "streaming") \/ Moves(c, "denied", "rejected")

Finish(c) == Moves(c, "streaming", "served")

\* An error, or the end of a process, takes one connection with it or several.
Fail ==
  /\ \E C \in SUBSET Clients :
       /\ \A c \in C : stage[c] \notin Ended
       /\ stage' = [c \in Clients |-> IF c \in C THEN "failed" ELSE stage[c]]
  /\ UNCHANGED encrypted

Next ==
  \/ \E c \in Clients :
       Accept(c) \/ Begin(c) \/ Submit(c) \/ Decide(c) \/ Answer(c) \/ Finish(c)
  \/ Fail

Spec == Init /\ [][Next]_vars
=============================================================================
