----------------------------- MODULE MCCapture -----------------------------
(* Both programs, two frames of two blocks, a data socket that holds two  *)
(* packets, and one packet that overtakes another.                          *)
EXTENDS OldCapture
=============================================================================
