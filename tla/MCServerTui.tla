---------------------------- MODULE MCServerTui ----------------------------
(***************************************************************************)
(* ServerTui with two clients, so that a key can hit the wrong one of two  *)
(* requests, and with a channel of capacity one instead of 100, so that    *)
(* senders are parked and two keys can wait in it.                         *)
(***************************************************************************)
EXTENDS ServerTui

Symmetry == Permutations(Clients)
=============================================================================
