--------------------------- MODULE MCDesktopStall ---------------------------
(* DesktopStall with timeouts of a few ticks. *)
EXTENDS DesktopStall
=============================================================================
