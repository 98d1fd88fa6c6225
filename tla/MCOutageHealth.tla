--------------------------- MODULE MCOutageHealth ---------------------------
(* OutageHealth checked with three failures against two successes. *)
EXTENDS OutageHealth
=============================================================================
