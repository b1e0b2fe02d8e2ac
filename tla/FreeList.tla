------------------------------ MODULE FreeList ------------------------------
(***************************************************************************)
(* What misc/src/ring_buffer.c promises its callers: one atomic FIFO of    *)
(* shared-memory offsets.  An offset is either in the queue or out, in the *)
(* hands of some thread; popping takes the oldest one, pushing returns one *)
(* that is out.  RingBuffer.tla implements this module with a mutex, a     *)
(* semaphore and two wrapping indices; Pipeline.tla uses the ring as this  *)
(* module describes it.                                                    *)
(***************************************************************************)
EXTENDS Naturals, Sequences, FiniteSets

CONSTANTS Offsets     \* the offsets of the data buffers in shared memory

VARIABLES queue,      \* the offsets in the ring, oldest first
          out         \* the offsets that were popped and not pushed back

vars == <<queue, out>>

\* Either every offset is in the ring (empty = 0) or every one is out.
Init ==
    /\ queue \in [1 .. Cardinality(Offsets) -> Offsets] \cup {<< >>}
    /\ \A j, k \in 1 .. Len(queue) : queue[j] = queue[k] => j = k
    /\ out = Offsets \ {queue[k] : k \in 1 .. Len(queue)}

Pop ==
    /\ queue # << >>
    /\ queue' = Tail(queue)
    /\ out' = out \cup {Head(queue)}

Push(v) ==
    /\ v \in out
    /\ queue' = Append(queue, v)
    /\ out' = out \ {v}

Next == Pop \/ \E v \in Offsets : Push(v)

Spec == Init /\ [][Next]_vars
=============================================================================
