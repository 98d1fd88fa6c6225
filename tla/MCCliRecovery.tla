--------------------------- MODULE MCCliRecovery ---------------------------
(* CliRecovery with two threads, one of them from a foreign source. *)
EXTENDS CliRecovery, TLC

CONSTANTS t1, t2

Perms == Permutations({t1, t2})
=============================================================================
