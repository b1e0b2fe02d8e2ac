----------------------------- MODULE MCStreamer -----------------------------
(* The example server: capturer, filter and the destination thread.         *)
EXTENDS Streamer

FilterStatuses == {0, 1}
Immortal == {}
=============================================================================
