--------------------------- MODULE MCDelegatedCli ---------------------------
(* DelegatedCli with one thread of the target's own sources. *)
EXTENDS DelegatedCli

CONSTANT t1
=============================================================================
