------------------------- MODULE MCAppServerClient -------------------------
(* AppServerClient over both transports. *)
EXTENDS AppServerClient
=============================================================================
