----------------------------- MODULE RingBuffer -----------------------------
(***************************************************************************)
(* misc/src/ring_buffer.c: the ring of free buffers that the pipeline's    *)
(* threads share (capture/src/ring_buffer.c is the same file).             *)
(*                                                                         *)
(* Every line of ring_buffer_pop and ring_buffer_push that touches shared  *)
(* state is a step of its own, so the model shows what the mutex and the   *)
(* semaphore are needed for.  The ring has no overflow check; the callers  *)
(* modelled here push only offsets that were popped before (variable out), *)
(* which is how the pipeline uses it.  CommandServer.tla models a caller   *)
(* that does not.                                                          *)
(***************************************************************************)
EXTENDS Naturals, Sequences, FiniteSets

CONSTANTS MaxCnt,     \* ring->max_cnt
          Offsets,    \* the values stored: offsets of the data buffers
          Threads,    \* the callers
          Zero,       \* what memset leaves in a slot
          Nobody      \* the mutex is free

ASSUME RingAssumption ==
    /\ MaxCnt \in Nat \ {0}
    /\ IsFiniteSet(Offsets) /\ Cardinality(Offsets) = MaxCnt
    /\ IsFiniteSet(Threads)
    /\ Zero \notin Offsets
    /\ Nobody \notin Threads

VARIABLES mutex, sem, used, start, buffer,   \* struct ring_buffer
          pc,        \* where each caller is
          reg,       \* the local offs of pop, the argument shmem_offs of push
          pos,       \* the local pos of push
          out        \* offsets popped and not pushed back

ringVars == <<mutex, sem, used, start, buffer>>
vars == <<mutex, sem, used, start, buffer, pc, reg, pos, out>>

Slots == 0 .. MaxCnt - 1

Goto(t, from, to) ==
    /\ pc[t] = from
    /\ pc' = [pc EXCEPT ![t] = to]

-----------------------------------------------------------------------------
(* ring_buffer_create(max_cnt, empty) followed by the loop with which its  *)
(* caller fills the slots of a ring that is not created empty.             *)
Create(empty) ==
    /\ mutex = Nobody
    /\ start = 0
    /\ used = IF empty THEN 0 ELSE MaxCnt
    /\ sem = IF empty THEN 0 ELSE MaxCnt
    /\ IF empty
       THEN buffer = [s \in Slots |-> Zero]
       ELSE /\ buffer \in [Slots -> Offsets]
            /\ \A r, s \in Slots : buffer[r] = buffer[s] => r = s
            /\ {buffer[s] : s \in Slots} = Offsets
    /\ out = IF empty THEN Offsets ELSE {}

Init ==
    /\ \E empty \in BOOLEAN : Create(empty)
    /\ pc = [t \in Threads |-> "idle"]
    /\ reg = [t \in Threads |-> Zero]
    /\ pos = [t \in Threads |-> 0]

-----------------------------------------------------------------------------
(* ring_buffer_pop                                                         *)
\* Mutant: pop that does not wait for an item.
PopNoWait(t) ==
    /\ Goto(t, "idle", "pop_lock")
    /\ UNCHANGED <<ringVars, reg, pos, out>>

PopWait(t) ==
    /\ Goto(t, "idle", "pop_lock")
    /\ sem > 0
    /\ sem' = sem - 1
    /\ UNCHANGED <<mutex, used, start, buffer, reg, pos, out>>

\* Mutant: pop that does not take the mutex.
PopLockUnlocked(t) ==
    /\ Goto(t, "pop_lock", "pop_read")
    /\ UNCHANGED <<mutex, sem, used, start, buffer, reg, pos, out>>

PopLock(t) ==
    /\ Goto(t, "pop_lock", "pop_read")
    /\ mutex = Nobody
    /\ mutex' = t
    /\ UNCHANGED <<sem, used, start, buffer, reg, pos, out>>

\* offs = ring->buffer[ring->start++]
PopRead(t) ==
    /\ Goto(t, "pop_read", "pop_wrap")
    /\ reg' = [reg EXCEPT ![t] = buffer[start]]
    /\ start' = start + 1
    /\ UNCHANGED <<mutex, sem, used, buffer, pos, out>>

\* if (ring->start >= ring->max_cnt) ring->start = 0; ring->used--
PopWrap(t) ==
    /\ Goto(t, "pop_wrap", "pop_unlock")
    /\ start' = IF start >= MaxCnt THEN 0 ELSE start
    /\ used' = used - 1
    /\ UNCHANGED <<mutex, sem, buffer, reg, pos, out>>

PopUnlock(t) ==
    /\ Goto(t, "pop_unlock", "idle")
    /\ mutex' = Nobody
    /\ out' = out \cup {reg[t]}
    /\ UNCHANGED <<sem, used, start, buffer, reg, pos>>

-----------------------------------------------------------------------------
(* ring_buffer_push: v leaves the caller's hands with the call.            *)
PushLock(t, v) ==
    /\ Goto(t, "idle", "push_pos")
    /\ v \in out
    /\ mutex = Nobody
    /\ mutex' = t
    /\ reg' = [reg EXCEPT ![t] = v]
    /\ out' = out \ {v}
    /\ UNCHANGED <<sem, used, start, buffer, pos>>

\* Mutant: ++ring->used, the slot behind the right one.
PushPosOffByOne(t) ==
    /\ Goto(t, "push_pos", "push_wrap")
    /\ pos' = [pos EXCEPT ![t] = start + used + 1]
    /\ used' = used + 1
    /\ UNCHANGED <<mutex, sem, start, buffer, reg, out>>

\* pos = ring->start + ring->used++
PushPos(t) ==
    /\ Goto(t, "push_pos", "push_wrap")
    /\ pos' = [pos EXCEPT ![t] = start + used]
    /\ used' = used + 1
    /\ UNCHANGED <<mutex, sem, start, buffer, reg, out>>

\* Mutant: the position is not wrapped.
PushNoWrap(t) ==
    /\ Goto(t, "push_wrap", "push_store")
    /\ UNCHANGED <<ringVars, reg, pos, out>>

\* if (pos >= ring->max_cnt) pos -= ring->max_cnt
PushWrap(t) ==
    /\ Goto(t, "push_wrap", "push_store")
    /\ pos' = [pos EXCEPT ![t] = IF @ >= MaxCnt THEN @ - MaxCnt ELSE @]
    /\ UNCHANGED <<ringVars, reg, out>>

\* ring->buffer[pos] = shmem_offs
PushStore(t) ==
    /\ Goto(t, "push_store", "push_unlock")
    /\ buffer' = [buffer EXCEPT ![pos[t]] = reg[t]]
    /\ UNCHANGED <<mutex, sem, used, start, reg, pos, out>>

PushUnlock(t) ==
    /\ Goto(t, "push_unlock", "push_post")
    /\ mutex' = Nobody
    /\ UNCHANGED <<sem, used, start, buffer, reg, pos, out>>

\* Mutant: the push that forgets to count the item.
PushNoPost(t) ==
    /\ Goto(t, "push_post", "idle")
    /\ UNCHANGED <<ringVars, reg, pos, out>>

PushPost(t) ==
    /\ Goto(t, "push_post", "idle")
    /\ sem' = sem + 1
    /\ UNCHANGED <<mutex, used, start, buffer, reg, pos, out>>

-----------------------------------------------------------------------------
ring_buffer_pop(t) ==
    PopWait(t) \/ PopLock(t) \/ PopRead(t) \/ PopWrap(t) \/ PopUnlock(t)

ring_buffer_push(t) ==
    \/ \E v \in Offsets : PushLock(t, v)
    \/ PushPos(t) \/ PushWrap(t) \/ PushStore(t) \/ PushUnlock(t) \/ PushPost(t)

Next == \E t \in Threads : ring_buffer_pop(t) \/ ring_buffer_push(t)

Spec == Init /\ [][Next]_vars

-----------------------------------------------------------------------------
PopLabels == {"pop_lock", "pop_read", "pop_wrap", "pop_unlock"}
PushLabels == {"push_pos", "push_wrap", "push_store", "push_unlock", "push_post"}
Critical == {"pop_read", "pop_wrap", "pop_unlock",
             "push_pos", "push_wrap", "push_store", "push_unlock"}

TypeOK ==
    /\ mutex \in Threads \cup {Nobody}
    /\ sem \in Nat
    /\ used \in Nat
    /\ start \in Nat
    /\ buffer \in [Slots -> Offsets \cup {Zero}]
    /\ pc \in [Threads -> {"idle"} \cup PopLabels \cup PushLabels]
    /\ reg \in [Threads -> Offsets \cup {Zero}]
    /\ pos \in [Threads -> Nat]
    /\ out \subseteq Offsets

(* Inside a critical section that has moved one of the two indices and not *)
(* yet the rest, the ring holds one item less than used says: the item a   *)
(* pop has read, or the item a push has not stored.                        *)
Unsettled == \E t \in Threads : pc[t] \in {"pop_wrap", "push_wrap", "push_store"}
Stored == IF Unsettled THEN used - 1 ELSE used
First == IF start >= MaxCnt THEN 0 ELSE start

\* The slot of the k-th oldest item, k >= 0, with at most one wrap.
SlotOf(k) == IF First + k >= MaxCnt THEN First + k - MaxCnt ELSE First + k

\* The offsets in some caller's hands, those on their way in or out included.
Away ==
    out \cup {reg[t] : t \in {u \in Threads :
        pc[u] \in {"pop_wrap", "pop_unlock", "push_pos", "push_wrap", "push_store"}}}

\* Every index with which pop and push reach into buffer[] is a slot of it:
\* what the missing overflow check of ring_buffer_push relies on.
IndexInBounds ==
    \A t \in Threads :
        /\ pc[t] = "pop_read" => start \in Slots
        /\ pc[t] = "push_store" => pos[t] \in Slots

\* The semaphore never lets more callers in than there are items, and counts
\* every item no caller was let in for: no pop of an empty ring, no lost
\* wake-up when pushes and pops interleave.
SemaphoreCountsItems ==
    sem + Cardinality({t \in Threads : pc[t] \in {"pop_lock", "pop_read"}})
        + Cardinality({t \in Threads : pc[t] \in {"push_unlock", "push_post"}})
      = Stored

\* However pops and pushes interleave, every offset is in exactly one place:
\* one live slot of the ring or one caller's hands.
EachOffsetInOnePlace ==
    /\ \A j, k \in 0 .. Stored - 1 : buffer[SlotOf(j)] = buffer[SlotOf(k)] => j = k
    /\ {buffer[SlotOf(k)] : k \in 0 .. Stored - 1} = Offsets \ Away

(* The abstract queue: the live slots, oldest first. *)
Abstract == INSTANCE FreeList WITH
    queue <- [k \in 1 .. Stored |-> buffer[SlotOf(k - 1)]],
    out <- Away

\* ring_buffer_pop and ring_buffer_push take effect atomically, in FIFO order:
\* the ring implements FreeList.
ImplementsFreeList == Abstract!Spec
=============================================================================
