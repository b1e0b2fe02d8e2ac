------------------------------ MODULE Conveyor ------------------------------
(***************************************************************************)
(* What a pipeline promises: buffers leave the ring at one end of a        *)
(* conveyor and reach the sink at the other end in the same order; on the  *)
(* way a filter may take any of them off.  A buffer that was taken off, or *)
(* that the sink has done with, goes back to the ring.                     *)
(***************************************************************************)
EXTENDS Naturals, Sequences

CONSTANTS Filled,   \* the ring once it has been filled with every buffer
          Nothing

VARIABLES ring,     \* free buffers, oldest first
          belt,     \* buffers on their way, the one nearest the sink first
          sink      \* the buffer being consumed, or Nothing

vars == <<ring, belt, sink>>

Init ==
    /\ ring = << >>
    /\ belt = << >>
    /\ sink = Nothing

Fill ==
    /\ ring = << >> /\ belt = << >> /\ sink = Nothing
    /\ ring' = Filled
    /\ UNCHANGED <<belt, sink>>

Capture ==
    /\ ring # << >>
    /\ ring' = Tail(ring)
    /\ belt' = Append(belt, Head(ring))
    /\ UNCHANGED sink

Drop(k) ==
    /\ ring' = Append(ring, belt[k])
    /\ belt' = SubSeq(belt, 1, k - 1) \o SubSeq(belt, k + 1, Len(belt))
    /\ UNCHANGED sink

Deliver ==
    /\ belt # << >> /\ sink = Nothing
    /\ sink' = Head(belt)
    /\ belt' = Tail(belt)
    /\ UNCHANGED ring

Release ==
    /\ sink # Nothing
    /\ ring' = Append(ring, sink)
    /\ sink' = Nothing
    /\ UNCHANGED belt

Next ==
    \/ Fill \/ Capture \/ Deliver \/ Release
    \/ \E k \in 1 .. Len(belt) : Drop(k)

Spec == Init /\ [][Next]_vars
=============================================================================
