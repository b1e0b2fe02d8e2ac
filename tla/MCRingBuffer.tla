---------------------------- MODULE MCRingBuffer ----------------------------
(* Three callers on a ring of two slots: every index wraps, the ring runs   *)
(* empty and full, and a caller waits on the mutex while two others work.   *)
EXTENDS RingBuffer

CONSTANTS t1, t2, t3, b1, b2

MCThreads == {t1, t2, t3}
MCOffsets == {b1, b2}
=============================================================================
