----------------------------- MODULE MCFileSrv -----------------------------
(***************************************************************************)
(* FileSrv with a small set of clients.  Two clients are enough for a      *)
(* second connection to wait behind the first one and for two transfers to *)
(* be in progress at once.                                                 *)
(***************************************************************************)
EXTENDS FileSrv, TLC

Symmetry == Permutations(Clients)
=============================================================================
