----------------------------- MODULE RingProofs -----------------------------
(***************************************************************************)
(* misc/src/ring_buffer.c for every number of callers and slots: indices   *)
(* in bounds, the semaphore exact, every offset in one place, and the ring *)
(* an implementation of FreeList.                                          *)
(*                                                                         *)
(* The argument has two halves.  Holder and Indices say what the mutex     *)
(* gives: one caller at a time is between lock and unlock, and the indices *)
(* are as it has left them so far.  From them lemma Effects shows that a   *)
(* step either changes nothing of the queue in the live slots, or takes    *)
(* its oldest offset, or adds one at its end; the rest follows from that.  *)
(***************************************************************************)
EXTENDS RingBuffer, FiniteSetTheorems, FunctionTheorems, SequenceTheorems, TLAPS

\* Labels with an offset in the caller's register, and those that have moved
\* one index and not yet the other.
Carrying == {"pop_wrap", "pop_unlock", "push_pos", "push_wrap", "push_store"}
Halfway == {"pop_wrap", "push_wrap", "push_store"}

LetIn == {t \in Threads : pc[t] \in {"pop_lock", "pop_read"}}
Posting == {t \in Threads : pc[t] \in {"push_unlock", "push_post"}}

Holder == \A t \in Threads : pc[t] \in Critical <=> mutex = t

\* start leaves the slots only between the two statements of a pop; the position
\* of a push is the slot behind the last live one, once it is wrapped.
Indices ==
    /\ start \in 0 .. MaxCnt
    /\ start = MaxCnt => \E t \in Threads : pc[t] = "pop_wrap"
    /\ \A t \in Threads : pc[t] = "pop_wrap" => used > 0
    /\ \A t \in Threads : pc[t] = "push_wrap" => used > 0 /\ pos[t] = start + used - 1
    /\ \A t \in Threads : pc[t] = "push_store" => used > 0 /\ pos[t] = SlotOf(used - 1)

Registers == \A t \in Threads : pc[t] \in Carrying => reg[t] \in Offsets \ out

Control == TypeOK /\ Holder /\ Indices /\ Registers
RingInv == Control /\ SemaphoreCountsItems /\ EachOffsetInOnePlace

-----------------------------------------------------------------------------
(* What a step may do to the queue in the live slots.                      *)
Keep == Stored' = Stored /\ First' = First /\ buffer' = buffer /\ Away' = Away

Take ==
    /\ Stored > 0 /\ Stored' = Stored - 1
    /\ First' = IF First + 1 = MaxCnt THEN 0 ELSE First + 1
    /\ buffer' = buffer
    /\ Away' = Away \cup {buffer[First]}

Put(v) ==
    /\ Stored < MaxCnt /\ Stored' = Stored + 1
    /\ First' = First
    /\ buffer' = [buffer EXCEPT ![SlotOf(Stored)] = v]
    /\ v \in Away /\ Away' = Away \ {v}

-----------------------------------------------------------------------------
\* At most one caller is in the critical section.
LEMMA OneHolder ==
    ASSUME Holder, NEW t \in Threads, NEW u \in Threads,
           pc[t] \in Critical, pc[u] \in Critical
    PROVE  t = u
BY DEF Holder

\* What Unsettled and Away are while t is in the critical section.
LEMMA HolderAlone ==
    ASSUME TypeOK, Holder, NEW t \in Threads, pc[t] \in Critical
    PROVE  /\ Unsettled <=> pc[t] \in Halfway
           /\ Away = out \cup (IF pc[t] \in Carrying THEN {reg[t]} ELSE {})
<1>1. \A u \in Threads : pc[u] \in Halfway \cup Carrying => u = t
  BY OneHolder DEF Halfway, Carrying, Critical
<1> QED BY <1>1 DEF Unsettled, Away, Halfway, Carrying

\* While the mutex is free nothing is half done.
LEMMA NobodyInside ==
    ASSUME TypeOK, Holder, mutex = Nobody
    PROVE  ~Unsettled /\ Away = out
<1>1. \A u \in Threads : pc[u] \notin Critical
  BY RingAssumption DEF Holder
<1> QED BY <1>1 DEF Unsettled, Away, Critical

-----------------------------------------------------------------------------
\* The live slots are slots, and different ones.
LEMMA SlotProperties ==
    ASSUME First \in Slots
    PROVE  /\ \A k \in Slots : SlotOf(k) \in Slots
           /\ \A j, k \in Slots : SlotOf(j) = SlotOf(k) => j = k
BY RingAssumption DEF SlotOf, Slots

\* The number of live slots, the first of them and the offsets away keep their types.
LEMMA StoredProperties ==
    ASSUME Control
    PROVE  Stored \in Nat /\ First \in Slots /\ Away \subseteq Offsets
<1> USE DEF Control
<1>1. Unsettled => used > 0
  BY DEF Unsettled, Indices, TypeOK
<1>2. Stored \in Nat
  BY <1>1 DEF Stored, TypeOK
<1>3. First \in Slots
  BY RingAssumption DEF First, Indices, Slots
<1>4. Away \subseteq Offsets
  BY DEF Away, Registers, TypeOK, Carrying
<1> QED BY <1>2, <1>3, <1>4

\* The offsets in the ring are as many as the items: the ring has room for every
\* offset that is in a caller's hands.
LEMMA Room ==
    ASSUME RingInv
    PROVE  Stored <= MaxCnt /\ (Away # {} => Stored < MaxCnt)
<1> DEFINE Live == 0 .. Stored - 1
           f == [k \in Live |-> buffer[SlotOf(k)]]
           In == Offsets \ Away
<1>1. Stored \in Nat /\ Away \subseteq Offsets
  BY StoredProperties DEF RingInv
<1>2. f \in Bijection(Live, In)
  <2>1. {f[k] : k \in Live} = In
    BY DEF RingInv, EachOffsetInOnePlace
  <2>2. f \in [Live -> In]
    BY <2>1
  <2>3. \A j, k \in Live : f[j] = f[k] => j = k
    BY DEF RingInv, EachOffsetInOnePlace
  <2> HIDE DEF f, Live, In
  <2> QED BY <2>1, <2>2, <2>3 DEF Bijection, Injection, Surjection, IsInjective
<1>3. IsFiniteSet(Live) /\ Cardinality(Live) = Stored
  <2>1. 0 \in Int /\ Stored - 1 \in Int
    BY <1>1
  <2>2. /\ IsFiniteSet(0 .. Stored - 1)
        /\ Cardinality(0 .. Stored - 1) = IF 0 > Stored - 1 THEN 0 ELSE Stored - 1 - 0 + 1
    BY <2>1, FS_Interval, Zenon
  <2> QED BY <1>1, <2>2
<1>4. Cardinality(In) = Stored
  BY <1>2, <1>3, FS_Bijection DEF ExistsBijection
<1>5. In \in SUBSET Offsets
  OBVIOUS
<1>6. Cardinality(In) <= MaxCnt /\ (Cardinality(In) = MaxCnt => In = Offsets)
  BY <1>5, RingAssumption, FS_Subset, Zenon
<1>7. In = Offsets => Away = {}
  BY <1>1
<1> HIDE DEF In
<1> QED BY <1>1, <1>4, <1>6, <1>7, RingAssumption

\* A step of t moves t only.
LEMMA Moves ==
    ASSUME TypeOK, NEW t \in Threads, NEW from, NEW to, Goto(t, from, to)
    PROVE  pc[t] = from /\ pc'[t] = to /\ \A u \in Threads \ {t} : pc'[u] = pc[u]
BY DEF Goto, TypeOK

\* What Unsettled and Away are before and after a step of t while nobody else is
\* in the critical section.
LEMMA AloneStep ==
    ASSUME TypeOK, NEW t \in Threads, NEW from, NEW to, Goto(t, from, to),
           \A u \in Threads \ {t} : pc[u] \notin Critical,
           \A u \in Threads \ {t} : reg'[u] = reg[u]
    PROVE  /\ Unsettled <=> from \in Halfway
           /\ Unsettled' <=> to \in Halfway
           /\ Away = out \cup (IF from \in Carrying THEN {reg[t]} ELSE {})
           /\ Away' = out' \cup (IF to \in Carrying THEN {reg'[t]} ELSE {})
<1>1. pc[t] = from /\ pc'[t] = to /\ \A u \in Threads \ {t} : pc'[u] = pc[u]
  BY Moves
<1>2. \A u \in Threads \ {t} : pc'[u] \notin Critical
  BY <1>1
<1>3. Unsettled <=> from \in Halfway
  BY <1>1 DEF Unsettled, Halfway, Critical
<1>4. Unsettled' <=> to \in Halfway
  BY <1>1, <1>2 DEF Unsettled, Halfway, Critical
<1>5. Away = out \cup (IF from \in Carrying THEN {reg[t]} ELSE {})
  BY <1>1 DEF Away, Carrying, Critical
<1>6. Away' = out' \cup (IF to \in Carrying THEN {reg'[t]} ELSE {})
  BY <1>1, <1>2 DEF Away, Carrying, Critical
<1> QED BY <1>3, <1>4, <1>5, <1>6

\* A step of t between lock and unlock.
LEMMA InsideStep ==
    ASSUME Control, NEW t \in Threads, NEW from \in Critical, NEW to, Goto(t, from, to),
           \A u \in Threads \ {t} : reg'[u] = reg[u]
    PROVE  /\ Unsettled <=> from \in Halfway
           /\ Unsettled' <=> to \in Halfway
           /\ Away = out \cup (IF from \in Carrying THEN {reg[t]} ELSE {})
           /\ Away' = out' \cup (IF to \in Carrying THEN {reg'[t]} ELSE {})
           /\ mutex = t
           /\ \A u \in Threads \ {t} : pc[u] \notin Critical
<1> USE DEF Control
<1>1. pc[t] = from
  BY DEF Goto
<1>2. \A u \in Threads \ {t} : pc[u] \notin Critical
  BY <1>1, OneHolder
<1>3. mutex = t
  BY <1>1 DEF Holder
<1> QED BY <1>2, <1>3, AloneStep

-----------------------------------------------------------------------------
(* ring_buffer_pop, statement by statement.                                *)
\* Reading buffer[start++] takes the oldest offset out of the live slots.
LEMMA PopReadStep ==
    ASSUME RingInv, NEW t \in Threads, PopRead(t)
    PROVE  Control' /\ Take
<1> USE DEF Control
<1>1. Control /\ Goto(t, "pop_read", "pop_wrap") /\ \A u \in Threads \ {t} : reg'[u] = reg[u]
  BY DEF RingInv, PopRead, TypeOK
<1>2. pc[t] = "pop_read" /\ pc'[t] = "pop_wrap" /\ \A u \in Threads \ {t} : pc'[u] = pc[u]
  BY <1>1, Moves
<1>3. /\ ~Unsettled /\ Unsettled'
      /\ Away = out /\ Away' = out' \cup {reg'[t]}
      /\ mutex = t /\ \A u \in Threads \ {t} : pc[u] \notin Critical
  BY <1>1, InsideStep DEF Critical, Halfway, Carrying
<1>4. Stored \in Nat /\ First \in Slots /\ Away \subseteq Offsets
  BY <1>1, StoredProperties
<1>5. start \in Slots /\ First = start
  BY <1>1, <1>2, <1>3, RingAssumption DEF Indices, Slots, First, Critical
<1>6. Stored > 0
  <2>1. IsFiniteSet(LetIn) /\ IsFiniteSet(Posting)
    BY RingAssumption, FS_Subset DEF LetIn, Posting
  <2>2. t \in LetIn
    BY <1>2 DEF LetIn
  <2>3. Cardinality(LetIn) \in Nat /\ Cardinality(Posting) \in Nat /\ Cardinality(LetIn) # 0
    BY <2>1, <2>2, FS_CardinalityType, FS_EmptySet
  <2>4. sem + Cardinality(LetIn) + Cardinality(Posting) = Stored
    BY DEF RingInv, SemaphoreCountsItems, LetIn, Posting
  <2> QED BY <1>1, <1>4, <2>3, <2>4 DEF TypeOK
<1>7. buffer[start] \in Offsets \ out
  <2>1. 0 \in 0 .. Stored - 1 /\ SlotOf(0) = start
    BY <1>4, <1>5, <1>6, RingAssumption DEF SlotOf, Slots
  <2>2. {buffer[SlotOf(k)] : k \in 0 .. Stored - 1} = Offsets \ Away
    BY DEF RingInv, EachOffsetInOnePlace
  <2> QED BY <1>3, <2>1, <2>2
<1>8. used > 0 /\ Stored' = Stored - 1
  BY <1>1, <1>3, <1>6 DEF Stored, PopRead, TypeOK
<1>9. Take
  <2>1. First' = IF First + 1 = MaxCnt THEN 0 ELSE First + 1
    BY <1>5, RingAssumption DEF First, PopRead, Slots
  <2>2. Away' = Away \cup {buffer[First]}
    BY <1>1, <1>3, <1>5 DEF PopRead, TypeOK
  <2> QED BY <1>6, <1>8, <2>1, <2>2 DEF Take, PopRead
<1>10. TypeOK'
  BY <1>1, <1>5, <1>7 DEF PopRead, TypeOK, Goto, PopLabels, PushLabels, Slots
<1>11. Holder'
  BY <1>1, <1>2, <1>3 DEF PopRead, Holder, Critical
<1>12. Indices'
  <2>1. start' \in 0 .. MaxCnt
    BY <1>5, RingAssumption DEF PopRead, Slots
  <2> QED BY <1>2, <1>3, <1>8, <2>1 DEF PopRead, Indices, Critical
<1>13. Registers'
  BY <1>1, <1>2, <1>3, <1>7 DEF PopRead, Registers, Carrying, Critical, TypeOK
<1> QED BY <1>9, <1>10, <1>11, <1>12, <1>13

\* Wrapping start and counting the item off settles what the read began.
LEMMA PopWrapStep ==
    ASSUME RingInv, NEW t \in Threads, PopWrap(t)
    PROVE  Control' /\ Keep
<1> USE DEF Control
<1>1. Control /\ Goto(t, "pop_wrap", "pop_unlock") /\ \A u \in Threads \ {t} : reg'[u] = reg[u]
  BY DEF RingInv, PopWrap, TypeOK
<1>2. pc[t] = "pop_wrap" /\ pc'[t] = "pop_unlock" /\ \A u \in Threads \ {t} : pc'[u] = pc[u]
  BY <1>1, Moves
<1>3. /\ Unsettled /\ ~Unsettled'
      /\ Away = out \cup {reg[t]} /\ Away' = out' \cup {reg'[t]}
      /\ mutex = t /\ \A u \in Threads \ {t} : pc[u] \notin Critical
  BY <1>1, InsideStep DEF Critical, Halfway, Carrying
<1>4. used > 0 /\ start \in 0 .. MaxCnt
  BY <1>1, <1>2 DEF Indices
<1>5. Keep
  BY <1>1, <1>3, <1>4, RingAssumption DEF PopWrap, Keep, Stored, First, TypeOK
<1>6. TypeOK'
  BY <1>1, <1>4 DEF PopWrap, TypeOK, Goto, PopLabels, PushLabels
<1>7. Holder'
  BY <1>1, <1>2, <1>3 DEF PopWrap, Holder, Critical
<1>8. Indices'
  <2>1. start' \in Slots
    BY <1>4, RingAssumption DEF PopWrap, Slots
  <2> QED BY <1>2, <1>3, <2>1, RingAssumption DEF PopWrap, Indices, Critical, Slots
<1>9. Registers'
  BY <1>1, <1>2, <1>3 DEF PopWrap, Registers, Carrying, Critical
<1> QED BY <1>5, <1>6, <1>7, <1>8, <1>9

\* Unlocking hands the offset to the caller.
LEMMA PopUnlockStep ==
    ASSUME RingInv, NEW t \in Threads, PopUnlock(t)
    PROVE  Control' /\ Keep
<1> USE DEF Control
<1>1. Control /\ Goto(t, "pop_unlock", "idle") /\ \A u \in Threads \ {t} : reg'[u] = reg[u]
  BY DEF RingInv, PopUnlock, TypeOK
<1>2. pc[t] = "pop_unlock" /\ pc'[t] = "idle" /\ \A u \in Threads \ {t} : pc'[u] = pc[u]
  BY <1>1, Moves
<1>3. /\ ~Unsettled /\ ~Unsettled'
      /\ Away = out \cup {reg[t]} /\ Away' = out'
      /\ mutex = t /\ \A u \in Threads \ {t} : pc[u] \notin Critical
  <2>1. /\ "pop_unlock" \in Critical \cap Carrying /\ "pop_unlock" \notin Halfway
        /\ "idle" \notin Halfway \cup Carrying
    BY DEF Critical, Halfway, Carrying
  <2> QED BY <1>1, <2>1, InsideStep
<1>4. Keep
  BY <1>3 DEF PopUnlock, Keep, Stored, First
<1>5. TypeOK'
  BY <1>1, <1>2 DEF PopUnlock, TypeOK, Goto, PopLabels, PushLabels, Registers, Carrying
<1>6. Holder'
  BY <1>1, <1>2, <1>3, RingAssumption DEF PopUnlock, Holder, Critical
<1>7. Indices'
  BY <1>1, <1>2, <1>3, RingAssumption DEF PopUnlock, Indices, Critical
<1>8. Registers'
  BY <1>1, <1>2, <1>3 DEF PopUnlock, Registers, Carrying, Critical
<1> QED BY <1>4, <1>5, <1>6, <1>7, <1>8

\* sem_wait changes nothing that the mutex protects.
LEMMA PopWaitStep ==
    ASSUME RingInv, NEW t \in Threads, PopWait(t)
    PROVE  Control' /\ Keep
<1> USE DEF Control
<1>1. Control /\ Goto(t, "idle", "pop_lock")
  BY DEF RingInv, PopWait
<1>2. pc[t] = "idle" /\ pc'[t] = "pop_lock" /\ \A u \in Threads \ {t} : pc'[u] = pc[u]
  BY <1>1, Moves
<1>3. (Unsettled' <=> Unsettled) /\ Away' = Away
  BY <1>2 DEF Unsettled, Away, PopWait
<1>4. Keep
  BY <1>3 DEF PopWait, Keep, Stored, First
<1>5. TypeOK'
  BY <1>1 DEF PopWait, TypeOK, Goto, PopLabels, PushLabels
<1>6. Holder'
  BY <1>1, <1>2 DEF PopWait, Holder, Critical
<1>7. Indices'
  BY <1>1, <1>2 DEF PopWait, Indices, SlotOf, First
<1>8. Registers'
  BY <1>1, <1>2 DEF PopWait, Registers, Carrying
<1> QED BY <1>4, <1>5, <1>6, <1>7, <1>8

\* The caller that was let in takes the mutex.
LEMMA PopLockStep ==
    ASSUME RingInv, NEW t \in Threads, PopLock(t)
    PROVE  Control' /\ Keep
<1> USE DEF Control
<1>1. Control /\ Goto(t, "pop_lock", "pop_read") /\ \A u \in Threads \ {t} : reg'[u] = reg[u]
  BY DEF RingInv, PopLock, TypeOK
<1>2. pc[t] = "pop_lock" /\ pc'[t] = "pop_read" /\ \A u \in Threads \ {t} : pc'[u] = pc[u]
  BY <1>1, Moves
<1>3. \A u \in Threads : pc[u] \notin Critical
  BY <1>1, RingAssumption DEF PopLock, Holder
<1>4. ~Unsettled /\ ~Unsettled' /\ Away = out /\ Away' = out'
  <2>1. "pop_lock" \notin Halfway \cup Carrying /\ "pop_read" \notin Halfway \cup Carrying
    BY DEF Critical, Halfway, Carrying
  <2> QED BY <1>1, <1>3, <2>1, AloneStep
<1>5. Keep
  BY <1>4 DEF PopLock, Keep, Stored, First
<1>6. TypeOK'
  BY <1>1 DEF PopLock, TypeOK, Goto, PopLabels, PushLabels
<1>7. Holder'
  BY <1>1, <1>2, <1>3, RingAssumption DEF PopLock, Holder, Critical
<1>8. Indices'
  BY <1>1, <1>2, <1>3 DEF PopLock, Indices, Critical
<1>9. Registers'
  BY <1>1, <1>2, <1>3 DEF PopLock, Registers, Carrying, Critical
<1> QED BY <1>5, <1>6, <1>7, <1>8, <1>9

-----------------------------------------------------------------------------
(* ring_buffer_push, statement by statement.                               *)
\* Push takes its argument out of the caller's hands and the mutex.
LEMMA PushLockStep ==
    ASSUME RingInv, NEW t \in Threads, NEW v \in Offsets, PushLock(t, v)
    PROVE  Control' /\ Keep
<1> USE DEF Control
<1>1. Control /\ Goto(t, "idle", "push_pos") /\ \A u \in Threads \ {t} : reg'[u] = reg[u]
  BY DEF RingInv, PushLock, TypeOK
<1>2. pc[t] = "idle" /\ pc'[t] = "push_pos" /\ \A u \in Threads \ {t} : pc'[u] = pc[u]
  BY <1>1, Moves
<1>3. \A u \in Threads : pc[u] \notin Critical
  BY <1>1, RingAssumption DEF PushLock, Holder
<1>4. ~Unsettled /\ ~Unsettled' /\ Away = out /\ Away' = out' \cup {reg'[t]}
  <2>1. /\ "idle" \notin Halfway \cup Carrying
        /\ "push_pos" \in Carrying /\ "push_pos" \notin Halfway
    BY DEF Critical, Halfway, Carrying
  <2> QED BY <1>1, <1>3, <2>1, AloneStep
<1>5. reg'[t] = v /\ v \in out
  BY <1>1 DEF PushLock, TypeOK
<1>6. Keep
  BY <1>4, <1>5 DEF PushLock, Keep, Stored, First
<1>7. TypeOK'
  BY <1>1 DEF PushLock, TypeOK, Goto, PopLabels, PushLabels
<1>8. Holder'
  BY <1>1, <1>2, <1>3, RingAssumption DEF PushLock, Holder, Critical
<1>9. Indices'
  BY <1>1, <1>2, <1>3 DEF PushLock, Indices, Critical
<1>10. Registers'
  BY <1>1, <1>2, <1>3, <1>5 DEF PushLock, Registers, Carrying, Critical
<1> QED BY <1>6, <1>7, <1>8, <1>9, <1>10

\* Counting the item before it is stored leaves the live slots as they are.
LEMMA PushPosStep ==
    ASSUME RingInv, NEW t \in Threads, PushPos(t)
    PROVE  Control' /\ Keep
<1> USE DEF Control
<1>1. Control /\ Goto(t, "push_pos", "push_wrap") /\ \A u \in Threads \ {t} : reg'[u] = reg[u]
  BY DEF RingInv, PushPos, TypeOK
<1>2. pc[t] = "push_pos" /\ pc'[t] = "push_wrap" /\ \A u \in Threads \ {t} : pc'[u] = pc[u]
  BY <1>1, Moves
<1>3. /\ ~Unsettled /\ Unsettled'
      /\ Away = out \cup {reg[t]} /\ Away' = out' \cup {reg'[t]}
      /\ mutex = t /\ \A u \in Threads \ {t} : pc[u] \notin Critical
  BY <1>1, InsideStep DEF Critical, Halfway, Carrying
<1>4. Keep
  BY <1>1, <1>3 DEF PushPos, Keep, Stored, First, TypeOK
<1>5. TypeOK'
  BY <1>1 DEF PushPos, TypeOK, Goto, PopLabels, PushLabels
<1>6. Holder'
  BY <1>1, <1>2, <1>3 DEF PushPos, Holder, Critical
<1>7. Indices'
  <2>1. pos'[t] = start' + used' - 1 /\ used' > 0
    BY <1>1 DEF PushPos, TypeOK
  <2> QED BY <1>1, <1>2, <1>3, <2>1 DEF PushPos, Indices, Critical
<1>8. Registers'
  BY <1>1, <1>2, <1>3 DEF PushPos, Registers, Carrying, Critical
<1> QED BY <1>4, <1>5, <1>6, <1>7, <1>8

\* The wrapped position is the slot behind the last live one.
LEMMA PushWrapStep ==
    ASSUME RingInv, NEW t \in Threads, PushWrap(t)
    PROVE  Control' /\ Keep
<1> USE DEF Control
<1>1. Control /\ Goto(t, "push_wrap", "push_store") /\ \A u \in Threads \ {t} : reg'[u] = reg[u]
  BY DEF RingInv, PushWrap, TypeOK
<1>2. pc[t] = "push_wrap" /\ pc'[t] = "push_store" /\ \A u \in Threads \ {t} : pc'[u] = pc[u]
  BY <1>1, Moves
<1>3. /\ Unsettled /\ Unsettled'
      /\ Away = out \cup {reg[t]} /\ Away' = out' \cup {reg'[t]}
      /\ mutex = t /\ \A u \in Threads \ {t} : pc[u] \notin Critical
  BY <1>1, InsideStep DEF Critical, Halfway, Carrying
<1>4. start \in Slots /\ used > 0 /\ pos[t] = start + used - 1
  BY <1>1, <1>2, <1>3, RingAssumption DEF Indices, Slots, Critical
<1>5. pos'[t] = SlotOf(used - 1)'
  BY <1>1, <1>4, RingAssumption DEF PushWrap, SlotOf, First, Slots, TypeOK, ringVars
<1>6. Keep
  BY <1>3 DEF PushWrap, Keep, Stored, First, ringVars
<1>7. TypeOK'
  BY <1>1, RingAssumption DEF PushWrap, TypeOK, Goto, PopLabels, PushLabels, ringVars
<1>8. Holder'
  BY <1>1, <1>2, <1>3 DEF PushWrap, Holder, Critical, ringVars
<1>9. Indices'
  BY <1>2, <1>3, <1>4, <1>5, RingAssumption DEF PushWrap, Indices, Critical, ringVars, Slots
<1>10. Registers'
  BY <1>1, <1>2, <1>3 DEF PushWrap, Registers, Carrying, Critical
<1> QED BY <1>6, <1>7, <1>8, <1>9, <1>10

\* The store adds the offset behind the last live slot.
LEMMA PushStoreStep ==
    ASSUME RingInv, NEW t \in Threads, PushStore(t)
    PROVE  Control' /\ Put(reg[t])
<1> USE DEF Control
<1>1. Control /\ Goto(t, "push_store", "push_unlock") /\ \A u \in Threads \ {t} : reg'[u] = reg[u]
  BY DEF RingInv, PushStore, TypeOK
<1>2. pc[t] = "push_store" /\ pc'[t] = "push_unlock" /\ \A u \in Threads \ {t} : pc'[u] = pc[u]
  BY <1>1, Moves
<1>3. /\ Unsettled /\ ~Unsettled'
      /\ Away = out \cup {reg[t]} /\ Away' = out'
      /\ mutex = t /\ \A u \in Threads \ {t} : pc[u] \notin Critical
  BY <1>1, InsideStep DEF Critical, Halfway, Carrying
<1>4. start \in Slots /\ used > 0 /\ pos[t] = SlotOf(used - 1) /\ reg[t] \in Offsets \ out
  BY <1>1, <1>2, <1>3, RingAssumption DEF Indices, Slots, Critical, Registers, Carrying
<1>5. Stored = used - 1 /\ Stored < MaxCnt
  BY <1>3, Room DEF Stored
<1>6. Put(reg[t])
  BY <1>1, <1>3, <1>4, <1>5 DEF PushStore, Put, Stored, First, TypeOK
<1>7. TypeOK'
  <2>1. pos[t] \in Slots
    <3>1. First \in Slots /\ Stored \in Nat
      BY <1>1, StoredProperties
    <3>2. Stored \in Slots
      BY <1>5, <3>1, RingAssumption DEF Slots
    <3>3. SlotOf(Stored) \in Slots
      BY <3>1, <3>2, SlotProperties
    <3> QED BY <1>4, <1>5, <3>3
  <2> QED BY <1>1, <2>1 DEF PushStore, TypeOK, Goto, PopLabels, PushLabels
<1>8. Holder'
  BY <1>1, <1>2, <1>3 DEF PushStore, Holder, Critical
<1>9. Indices'
  BY <1>2, <1>3, <1>4, RingAssumption DEF PushStore, Indices, Critical, Slots
<1>10. Registers'
  BY <1>1, <1>2, <1>3 DEF PushStore, Registers, Carrying, Critical
<1> QED BY <1>6, <1>7, <1>8, <1>9, <1>10

\* Unlocking after the store.
LEMMA PushUnlockStep ==
    ASSUME RingInv, NEW t \in Threads, PushUnlock(t)
    PROVE  Control' /\ Keep
<1> USE DEF Control
<1>1. Control /\ Goto(t, "push_unlock", "push_post") /\ \A u \in Threads \ {t} : reg'[u] = reg[u]
  BY DEF RingInv, PushUnlock, TypeOK
<1>2. pc[t] = "push_unlock" /\ pc'[t] = "push_post" /\ \A u \in Threads \ {t} : pc'[u] = pc[u]
  BY <1>1, Moves
<1>3. /\ ~Unsettled /\ ~Unsettled'
      /\ Away = out /\ Away' = out'
      /\ mutex = t /\ \A u \in Threads \ {t} : pc[u] \notin Critical
  <2>1. /\ "push_unlock" \in Critical
        /\ "push_unlock" \notin Halfway \cup Carrying /\ "push_post" \notin Halfway \cup Carrying
    BY DEF Critical, Halfway, Carrying
  <2> QED BY <1>1, <2>1, InsideStep
<1>4. Keep
  BY <1>3 DEF PushUnlock, Keep, Stored, First
<1>5. TypeOK'
  BY <1>1 DEF PushUnlock, TypeOK, Goto, PopLabels, PushLabels
<1>6. Holder'
  BY <1>1, <1>2, <1>3, RingAssumption DEF PushUnlock, Holder, Critical
<1>7. Indices'
  BY <1>1, <1>2, <1>3 DEF PushUnlock, Indices, Critical
<1>8. Registers'
  BY <1>1, <1>2, <1>3 DEF PushUnlock, Registers, Carrying, Critical
<1> QED BY <1>4, <1>5, <1>6, <1>7, <1>8

\* sem_post changes nothing that the mutex protects.
LEMMA PushPostStep ==
    ASSUME RingInv, NEW t \in Threads, PushPost(t)
    PROVE  Control' /\ Keep
<1> USE DEF Control
<1>1. Control /\ Goto(t, "push_post", "idle")
  BY DEF RingInv, PushPost
<1>2. pc[t] = "push_post" /\ pc'[t] = "idle" /\ \A u \in Threads \ {t} : pc'[u] = pc[u]
  BY <1>1, Moves
<1>3. (Unsettled' <=> Unsettled) /\ Away' = Away
  BY <1>2 DEF Unsettled, Away, PushPost
<1>4. Keep
  BY <1>3 DEF PushPost, Keep, Stored, First
<1>5. TypeOK'
  BY <1>1 DEF PushPost, TypeOK, Goto, PopLabels, PushLabels
<1>6. Holder'
  BY <1>1, <1>2 DEF PushPost, Holder, Critical
<1>7. Indices'
  BY <1>1, <1>2 DEF PushPost, Indices, SlotOf, First
<1>8. Registers'
  BY <1>1, <1>2 DEF PushPost, Registers, Carrying
<1> QED BY <1>4, <1>5, <1>6, <1>7, <1>8

-----------------------------------------------------------------------------
(* The semaphore.                                                          *)
Entering(label) == IF label \in {"pop_lock", "pop_read"} THEN 1 ELSE 0
Leaving(label) == IF label \in {"push_unlock", "push_post"} THEN 1 ELSE 0

\* How a step of t changes the number of callers between the semaphore and the
\* read, and between the store and the semaphore.
LEMMA Counts ==
    ASSUME TypeOK, NEW t \in Threads, NEW from, NEW to, Goto(t, from, to)
    PROVE  /\ Cardinality(LetIn) \in Nat /\ Cardinality(Posting) \in Nat
           /\ Cardinality(LetIn)' = Cardinality(LetIn) + Entering(to) - Entering(from)
           /\ Cardinality(Posting)' = Cardinality(Posting) + Leaving(to) - Leaving(from)
<1>1. pc[t] = from /\ pc'[t] = to /\ \A u \in Threads \ {t} : pc'[u] = pc[u]
  BY Moves
<1>2. IsFiniteSet(LetIn) /\ IsFiniteSet(Posting)
  BY RingAssumption, FS_Subset DEF LetIn, Posting
<1>3. Cardinality(LetIn) \in Nat /\ Cardinality(Posting) \in Nat
  BY <1>2, FS_CardinalityType
<1>4. Cardinality(LetIn)' = Cardinality(LetIn) + Entering(to) - Entering(from)
  <2>1. t \in LetIn <=> Entering(from) = 1
    BY <1>1 DEF LetIn, Entering
  <2>2. LetIn' = IF Entering(to) = 1 THEN LetIn \cup {t} ELSE LetIn \ {t}
    BY <1>1 DEF LetIn, Entering
  <2>3. Cardinality(LetIn \cup {t}) = IF t \in LetIn THEN Cardinality(LetIn) ELSE Cardinality(LetIn) + 1
    BY <1>2, FS_AddElement
  <2>4. Cardinality(LetIn \ {t}) = IF t \in LetIn THEN Cardinality(LetIn) - 1 ELSE Cardinality(LetIn)
    BY <1>2, FS_RemoveElement
  <2> QED BY <1>3, <2>1, <2>2, <2>3, <2>4 DEF Entering, Leaving
<1>5. Cardinality(Posting)' = Cardinality(Posting) + Leaving(to) - Leaving(from)
  <2>1. t \in Posting <=> Leaving(from) = 1
    BY <1>1 DEF Posting, Leaving
  <2>2. Posting' = IF Leaving(to) = 1 THEN Posting \cup {t} ELSE Posting \ {t}
    BY <1>1 DEF Posting, Leaving
  <2>3. Cardinality(Posting \cup {t}) = IF t \in Posting THEN Cardinality(Posting) ELSE Cardinality(Posting) + 1
    BY <1>2, FS_AddElement
  <2>4. Cardinality(Posting \ {t}) = IF t \in Posting THEN Cardinality(Posting) - 1 ELSE Cardinality(Posting)
    BY <1>2, FS_RemoveElement
  <2> QED BY <1>3, <2>1, <2>2, <2>3, <2>4 DEF Entering, Leaving
<1> QED BY <1>3, <1>4, <1>5

\* The change of the semaphore and of the queue match those numbers.
LEMMA SemaphoreStep ==
    ASSUME RingInv, NEW t \in Threads, NEW from, NEW to, Goto(t, from, to),
           sem' + (Entering(to) - Entering(from)) + (Leaving(to) - Leaving(from)) - Stored'
             = sem - Stored,
           sem' \in Nat, Stored' \in Nat
    PROVE  SemaphoreCountsItems'
<1>1. Stored \in Nat /\ sem \in Nat /\ TypeOK
  BY StoredProperties DEF RingInv, Control, TypeOK
<1>2. sem + Cardinality(LetIn) + Cardinality(Posting) = Stored
  BY DEF RingInv, SemaphoreCountsItems, LetIn, Posting
<1>3. /\ Cardinality(LetIn) \in Nat /\ Cardinality(Posting) \in Nat
      /\ Cardinality(LetIn)' = Cardinality(LetIn) + Entering(to) - Entering(from)
      /\ Cardinality(Posting)' = Cardinality(Posting) + Leaving(to) - Leaving(from)
  BY <1>1, Counts
<1>4. sem' + Cardinality(LetIn)' + Cardinality(Posting)' = Stored'
  <2>1. /\ Entering(to) \in Int /\ Entering(from) \in Int
        /\ Leaving(to) \in Int /\ Leaving(from) \in Int
    BY DEF Entering, Leaving
  <2>2. \A a, b, c, d, e, f, g, h, x, y \in Int :
            /\ a + b + c = d
            /\ x + (e - f) + (g - h) - y = a - d
            => x + (b + e - f) + (c + g - h) = y
    OBVIOUS
  <2> QED BY <1>1, <1>2, <1>3, <2>1, <2>2
<1> QED BY <1>4 DEF SemaphoreCountsItems, LetIn, Posting

-----------------------------------------------------------------------------
(* The live slots.                                                         *)
\* The live slots stay as they are.
LEMMA KeepStep ==
    ASSUME RingInv, Keep
    PROVE  EachOffsetInOnePlace'
<1>1. \A k : SlotOf(k)' = SlotOf(k)
  BY DEF Keep, SlotOf
<1> QED BY <1>1 DEF RingInv, EachOffsetInOnePlace, Keep

\* Without its oldest slot the queue is the rest, one place further on.
LEMMA TakeStep ==
    ASSUME RingInv, Take
    PROVE  /\ EachOffsetInOnePlace'
           /\ \A k \in 0 .. Stored' - 1 : buffer'[SlotOf(k)'] = buffer[SlotOf(k + 1)]
<1>1. Stored \in Nat /\ First \in Slots /\ Away \subseteq Offsets /\ Stored <= MaxCnt
  BY StoredProperties, Room DEF RingInv
<1>2. \A k \in 0 .. Stored' - 1 : k + 1 \in 0 .. Stored - 1 /\ SlotOf(k)' = SlotOf(k + 1)
  BY <1>1, RingAssumption DEF Take, SlotOf, Slots
<1>3. \A k \in 0 .. Stored' - 1 : buffer'[SlotOf(k)'] = buffer[SlotOf(k + 1)]
  BY <1>2 DEF Take
<1>4. 0 \in 0 .. Stored - 1 /\ SlotOf(0) = First
  BY <1>1, RingAssumption DEF Take, SlotOf, Slots
<1> DEFINE item(k) == buffer[SlotOf(k)]
<1>5. /\ \A j, k \in 0 .. Stored - 1 : item(j) = item(k) => j = k
      /\ {item(k) : k \in 0 .. Stored - 1} = Offsets \ Away
  BY DEF RingInv, EachOffsetInOnePlace
<1>6. Away' = Away \cup {item(0)}
  BY <1>4 DEF Take
<1>7. \A k \in 0 .. Stored' - 1 : item(k)' = item(k + 1)
  BY <1>3
<1> HIDE DEF item
<1>8. \A j, k \in 0 .. Stored' - 1 : item(j)' = item(k)' => j = k
  <2> SUFFICES ASSUME NEW j \in 0 .. Stored' - 1, NEW k \in 0 .. Stored' - 1, item(j)' = item(k)'
               PROVE  j = k
    OBVIOUS
  <2>1. j + 1 = k + 1
    BY <1>2, <1>5, <1>7
  <2> QED BY <2>1
<1>9. {item(k)' : k \in 0 .. Stored' - 1} = Offsets \ Away'
  <2>1. \A k \in 0 .. Stored' - 1 : item(k)' \in Offsets \ Away'
    <3> SUFFICES ASSUME NEW k \in 0 .. Stored' - 1
                 PROVE  item(k)' \in Offsets \ Away'
      OBVIOUS
    <3>1. k + 1 \in 0 .. Stored - 1 /\ k + 1 # 0
      BY <1>2
    <3>2. item(k + 1) \in Offsets \ Away /\ item(k + 1) # item(0)
      BY <1>4, <1>5, <3>1
    <3> QED BY <1>6, <1>7, <3>2
  <2>2. ASSUME NEW x \in Offsets \ Away'
        PROVE  \E k \in 0 .. Stored' - 1 : x = item(k)'
    <3>1. PICK k \in 0 .. Stored - 1 : x = item(k)
      BY <1>5, <1>6
    <3>2. k # 0
      BY <1>6, <3>1
    <3>3. k - 1 \in 0 .. Stored' - 1 /\ (k - 1) + 1 = k
      BY <1>1, <3>2 DEF Take
    <3> QED BY <1>7, <3>1, <3>3
  <2> QED BY <2>1, <2>2
<1> QED BY <1>3, <1>8, <1>9 DEF EachOffsetInOnePlace, item

\* With a slot behind the last one the queue is the old one and the new offset.
LEMMA PutStep ==
    ASSUME RingInv, NEW v \in Offsets, Put(v)
    PROVE  /\ EachOffsetInOnePlace'
           /\ \A k \in 0 .. Stored : buffer'[SlotOf(k)'] = IF k = Stored THEN v ELSE buffer[SlotOf(k)]
<1>1. /\ Stored \in Nat /\ First \in Slots /\ Stored \in Slots
      /\ buffer \in [Slots -> Offsets \cup {Zero}]
  BY StoredProperties, RingAssumption DEF RingInv, Put, Slots, Control, TypeOK
<1>2. \A k : SlotOf(k)' = SlotOf(k)
  BY DEF Put, SlotOf
<1>3. \A k \in Slots : buffer'[SlotOf(k)] = IF k = Stored THEN v ELSE buffer[SlotOf(k)]
  BY <1>1, SlotProperties DEF Put
<1> DEFINE item(k) == buffer[SlotOf(k)]
           new(k) == buffer'[SlotOf(k)']
<1>4. /\ \A j, k \in 0 .. Stored - 1 : item(j) = item(k) => j = k
      /\ {item(k) : k \in 0 .. Stored - 1} = Offsets \ Away
  BY DEF RingInv, EachOffsetInOnePlace
<1>5. Stored' - 1 = Stored
  BY <1>1 DEF Put
<1>6. \A k \in 0 .. Stored : new(k) = IF k = Stored THEN v ELSE item(k)
  BY <1>1, <1>2, <1>3, RingAssumption DEF Slots
<1> HIDE DEF item, new
<1>7. v \in Away /\ Away' = Away \ {v}
  BY DEF Put
<1>8. \A k \in 0 .. Stored - 1 : item(k) \in Offsets \ Away /\ item(k) # v
  BY <1>4, <1>7
<1>9. \A j, k \in 0 .. Stored' - 1 : new(j) = new(k) => j = k
  BY <1>1, <1>4, <1>5, <1>6, <1>8
<1>10. {new(k) : k \in 0 .. Stored' - 1} = Offsets \ Away'
  <2>1. \A k \in 0 .. Stored' - 1 : new(k) \in Offsets \ Away'
    BY <1>1, <1>5, <1>6, <1>7, <1>8
  <2>2. ASSUME NEW x \in Offsets \ Away'
        PROVE  \E k \in 0 .. Stored' - 1 : x = new(k)
    <3>1. CASE x = v
      BY <1>1, <1>5, <1>6, <3>1
    <3>2. CASE x # v
      <4>1. PICK k \in 0 .. Stored - 1 : x = item(k)
        BY <1>4, <1>7, <3>2
      <4> QED BY <1>1, <1>5, <1>6, <4>1
    <3> QED BY <3>1, <3>2
  <2> QED BY <2>1, <2>2
<1>11. EachOffsetInOnePlace'
  BY <1>9, <1>10 DEF EachOffsetInOnePlace, new
<1> QED BY <1>2, <1>6, <1>11 DEF item, new

-----------------------------------------------------------------------------
(* The invariant.                                                          *)
Effect == Keep \/ Take \/ \E v \in Offsets : Put(v)

\* Every statement of pop and push keeps the invariant, and does to the queue one
\* of the three things.
LEMMA ThreadStep ==
    ASSUME RingInv, NEW t \in Threads, ring_buffer_pop(t) \/ ring_buffer_push(t)
    PROVE  RingInv' /\ Effect
<1>1. Stored \in Nat /\ sem \in Nat
  BY StoredProperties DEF RingInv, Control, TypeOK
<1>2. CASE PopWait(t)
  <2>1. Control' /\ Keep
    BY <1>2, PopWaitStep
  <2>3. EachOffsetInOnePlace' /\ Stored' = Stored /\ Stored' \in Nat
    BY <1>1, <2>1, KeepStep DEF Keep
  <2>4. Goto(t, "idle", "pop_lock") /\ sem' \in Nat
    BY <1>2, <2>1 DEF PopWait, Control, TypeOK
  <2>5. sem' + (Entering("pop_lock") - Entering("idle")) + (Leaving("pop_lock") - Leaving("idle")) - Stored'
          = sem - Stored
    BY <1>1, <1>2, <2>3 DEF PopWait, Entering, Leaving
  <2>6. SemaphoreCountsItems'
    BY <2>3, <2>4, <2>5, SemaphoreStep
  <2> QED BY <2>1, <2>3, <2>6 DEF RingInv, Effect
<1>3. CASE PopLock(t)
  <2>1. Control' /\ Keep
    BY <1>3, PopLockStep
  <2>3. EachOffsetInOnePlace' /\ Stored' = Stored /\ Stored' \in Nat
    BY <1>1, <2>1, KeepStep DEF Keep
  <2>4. Goto(t, "pop_lock", "pop_read") /\ sem' \in Nat
    BY <1>3, <2>1 DEF PopLock, Control, TypeOK
  <2>5. sem' + (Entering("pop_read") - Entering("pop_lock")) + (Leaving("pop_read") - Leaving("pop_lock")) - Stored'
          = sem - Stored
    BY <1>1, <1>3, <2>3 DEF PopLock, Entering, Leaving
  <2>6. SemaphoreCountsItems'
    BY <2>3, <2>4, <2>5, SemaphoreStep
  <2> QED BY <2>1, <2>3, <2>6 DEF RingInv, Effect
<1>4. CASE PopRead(t)
  <2>1. Control' /\ Take
    BY <1>4, PopReadStep
  <2>3. EachOffsetInOnePlace' /\ Stored' = Stored - 1 /\ Stored' \in Nat
    BY <1>1, <2>1, TakeStep DEF Take
  <2>4. Goto(t, "pop_read", "pop_wrap") /\ sem' \in Nat
    BY <1>4, <2>1 DEF PopRead, Control, TypeOK
  <2>5. sem' + (Entering("pop_wrap") - Entering("pop_read")) + (Leaving("pop_wrap") - Leaving("pop_read")) - Stored'
          = sem - Stored
    BY <1>1, <1>4, <2>3 DEF PopRead, Entering, Leaving
  <2>6. SemaphoreCountsItems'
    BY <2>3, <2>4, <2>5, SemaphoreStep
  <2> QED BY <2>1, <2>3, <2>6 DEF RingInv, Effect
<1>5. CASE PopWrap(t)
  <2>1. Control' /\ Keep
    BY <1>5, PopWrapStep
  <2>3. EachOffsetInOnePlace' /\ Stored' = Stored /\ Stored' \in Nat
    BY <1>1, <2>1, KeepStep DEF Keep
  <2>4. Goto(t, "pop_wrap", "pop_unlock") /\ sem' \in Nat
    BY <1>5, <2>1 DEF PopWrap, Control, TypeOK
  <2>5. sem' + (Entering("pop_unlock") - Entering("pop_wrap")) + (Leaving("pop_unlock") - Leaving("pop_wrap")) - Stored'
          = sem - Stored
    BY <1>1, <1>5, <2>3 DEF PopWrap, Entering, Leaving
  <2>6. SemaphoreCountsItems'
    BY <2>3, <2>4, <2>5, SemaphoreStep
  <2> QED BY <2>1, <2>3, <2>6 DEF RingInv, Effect
<1>6. CASE PopUnlock(t)
  <2>1. Control' /\ Keep
    BY <1>6, PopUnlockStep
  <2>3. EachOffsetInOnePlace' /\ Stored' = Stored /\ Stored' \in Nat
    BY <1>1, <2>1, KeepStep DEF Keep
  <2>4. Goto(t, "pop_unlock", "idle") /\ sem' \in Nat
    BY <1>6, <2>1 DEF PopUnlock, Control, TypeOK
  <2>5. sem' + (Entering("idle") - Entering("pop_unlock")) + (Leaving("idle") - Leaving("pop_unlock")) - Stored'
          = sem - Stored
    BY <1>1, <1>6, <2>3 DEF PopUnlock, Entering, Leaving
  <2>6. SemaphoreCountsItems'
    BY <2>3, <2>4, <2>5, SemaphoreStep
  <2> QED BY <2>1, <2>3, <2>6 DEF RingInv, Effect
<1>7. CASE \E v \in Offsets : PushLock(t, v)
  <2>0. PICK v \in Offsets : PushLock(t, v)
    BY <1>7
  <2>1. Control' /\ Keep
    BY <2>0, PushLockStep
  <2>3. EachOffsetInOnePlace' /\ Stored' = Stored /\ Stored' \in Nat
    BY <1>1, <2>1, KeepStep DEF Keep
  <2>4. Goto(t, "idle", "push_pos") /\ sem' \in Nat
    BY <2>0, <2>1 DEF PushLock, Control, TypeOK
  <2>5. sem' + (Entering("push_pos") - Entering("idle")) + (Leaving("push_pos") - Leaving("idle")) - Stored'
          = sem - Stored
    BY <1>1, <2>0, <2>3 DEF PushLock, Entering, Leaving
  <2>6. SemaphoreCountsItems'
    BY <2>3, <2>4, <2>5, SemaphoreStep
  <2> QED BY <2>1, <2>3, <2>6 DEF RingInv, Effect
<1>8. CASE PushPos(t)
  <2>1. Control' /\ Keep
    BY <1>8, PushPosStep
  <2>3. EachOffsetInOnePlace' /\ Stored' = Stored /\ Stored' \in Nat
    BY <1>1, <2>1, KeepStep DEF Keep
  <2>4. Goto(t, "push_pos", "push_wrap") /\ sem' \in Nat
    BY <1>8, <2>1 DEF PushPos, Control, TypeOK
  <2>5. sem' + (Entering("push_wrap") - Entering("push_pos")) + (Leaving("push_wrap") - Leaving("push_pos")) - Stored'
          = sem - Stored
    BY <1>1, <1>8, <2>3 DEF PushPos, Entering, Leaving
  <2>6. SemaphoreCountsItems'
    BY <2>3, <2>4, <2>5, SemaphoreStep
  <2> QED BY <2>1, <2>3, <2>6 DEF RingInv, Effect
<1>9. CASE PushWrap(t)
  <2>1. Control' /\ Keep
    BY <1>9, PushWrapStep
  <2>3. EachOffsetInOnePlace' /\ Stored' = Stored /\ Stored' \in Nat
    BY <1>1, <2>1, KeepStep DEF Keep
  <2>4. Goto(t, "push_wrap", "push_store") /\ sem' \in Nat
    BY <1>9, <2>1 DEF PushWrap, Control, TypeOK
  <2>5. sem' + (Entering("push_store") - Entering("push_wrap")) + (Leaving("push_store") - Leaving("push_wrap")) - Stored'
          = sem - Stored
    BY <1>1, <1>9, <2>3 DEF PushWrap, ringVars, Entering, Leaving
  <2>6. SemaphoreCountsItems'
    BY <2>3, <2>4, <2>5, SemaphoreStep
  <2> QED BY <2>1, <2>3, <2>6 DEF RingInv, Effect
<1>10. CASE PushStore(t)
  <2>1. Control' /\ Put(reg[t])
    BY <1>10, PushStoreStep
  <2>2. PICK v \in Offsets : Put(v)
    BY <1>10, <2>1 DEF RingInv, Control, Registers, Carrying, PushStore, Goto
  <2>3. EachOffsetInOnePlace' /\ Stored' = Stored + 1 /\ Stored' \in Nat
    <3>1. EachOffsetInOnePlace'
      BY <2>2, PutStep
    <3> QED BY <1>1, <2>2, <3>1 DEF Put
  <2>4. Goto(t, "push_store", "push_unlock") /\ sem' \in Nat
    BY <1>10, <2>1 DEF PushStore, Control, TypeOK
  <2>5. sem' + (Entering("push_unlock") - Entering("push_store")) + (Leaving("push_unlock") - Leaving("push_store")) - Stored'
          = sem - Stored
    BY <1>1, <1>10, <2>3 DEF PushStore, Entering, Leaving
  <2>6. SemaphoreCountsItems'
    BY <2>3, <2>4, <2>5, SemaphoreStep
  <2> QED BY <2>1, <2>2, <2>3, <2>6 DEF RingInv, Effect
<1>11. CASE PushUnlock(t)
  <2>1. Control' /\ Keep
    BY <1>11, PushUnlockStep
  <2>3. EachOffsetInOnePlace' /\ Stored' = Stored /\ Stored' \in Nat
    BY <1>1, <2>1, KeepStep DEF Keep
  <2>4. Goto(t, "push_unlock", "push_post") /\ sem' \in Nat
    BY <1>11, <2>1 DEF PushUnlock, Control, TypeOK
  <2>5. sem' + (Entering("push_post") - Entering("push_unlock")) + (Leaving("push_post") - Leaving("push_unlock")) - Stored'
          = sem - Stored
    BY <1>1, <1>11, <2>3 DEF PushUnlock, Entering, Leaving
  <2>6. SemaphoreCountsItems'
    BY <2>3, <2>4, <2>5, SemaphoreStep
  <2> QED BY <2>1, <2>3, <2>6 DEF RingInv, Effect
<1>12. CASE PushPost(t)
  <2>1. Control' /\ Keep
    BY <1>12, PushPostStep
  <2>3. EachOffsetInOnePlace' /\ Stored' = Stored /\ Stored' \in Nat
    BY <1>1, <2>1, KeepStep DEF Keep
  <2>4. Goto(t, "push_post", "idle") /\ sem' \in Nat
    BY <1>12, <2>1 DEF PushPost, Control, TypeOK
  <2>5. sem' + (Entering("idle") - Entering("push_post")) + (Leaving("idle") - Leaving("push_post")) - Stored'
          = sem - Stored
    BY <1>1, <1>12, <2>3 DEF PushPost, Entering, Leaving
  <2>6. SemaphoreCountsItems'
    BY <2>3, <2>4, <2>5, SemaphoreStep
  <2> QED BY <2>1, <2>3, <2>6 DEF RingInv, Effect
<1> QED BY <1>2, <1>3, <1>4, <1>5, <1>6, <1>7, <1>8, <1>9, <1>10, <1>11, <1>12 DEF ring_buffer_pop, ring_buffer_push

\* ring_buffer_create, empty or filled by its caller, establishes the invariant.
LEMMA RingInitial == Init => RingInv
<1> SUFFICES ASSUME Init
             PROVE  RingInv
  OBVIOUS
<1>1. PICK empty \in BOOLEAN : Create(empty)
  BY DEF Init
<1>2. \A t \in Threads : pc[t] = "idle"
  BY DEF Init
<1>3. ~Unsettled /\ Stored = used /\ First = 0 /\ Away = out
  BY <1>1, <1>2, RingAssumption DEF Unsettled, Stored, First, Away, Create
<1>4. \A k \in Slots : SlotOf(k) = k
  BY <1>3, RingAssumption DEF SlotOf, Slots
<1>5. TypeOK
  BY <1>1, RingAssumption DEF Init, Create, TypeOK, PopLabels, PushLabels
<1>6. Holder /\ Indices /\ Registers
  BY <1>1, <1>2, RingAssumption DEF Create, Holder, Indices, Registers, Critical, Carrying
<1>7. SemaphoreCountsItems
  <2>1. LetIn = {} /\ Posting = {}
    BY <1>2 DEF LetIn, Posting
  <2>2. Cardinality(LetIn) = 0 /\ Cardinality(Posting) = 0
    BY <2>1, FS_EmptySet
  <2>3. sem + Cardinality(LetIn) + Cardinality(Posting) = Stored
    BY <1>1, <1>3, <2>2, RingAssumption DEF Create
  <2> QED BY <2>3 DEF SemaphoreCountsItems, LetIn, Posting
<1>8. EachOffsetInOnePlace
  <2>1. CASE empty
    BY <1>1, <1>3, <2>1 DEF Create, EachOffsetInOnePlace
  <2>2. CASE ~empty
    <3>1. Stored = MaxCnt /\ 0 .. Stored - 1 = Slots /\ Away = {}
      BY <1>1, <1>3, <2>2 DEF Create, Slots
    <3>2. /\ \A r, q \in Slots : buffer[r] = buffer[q] => r = q
          /\ {buffer[q] : q \in Slots} = Offsets
      BY <1>1, <2>2 DEF Create
    <3>3. \A j, k \in Slots : buffer[SlotOf(j)] = buffer[SlotOf(k)] => j = k
      BY <1>4, <3>2
    <3>4. {buffer[SlotOf(k)] : k \in Slots} = Offsets \ Away
      BY <1>4, <3>1, <3>2
    <3> QED BY <3>1, <3>3, <3>4 DEF EachOffsetInOnePlace
  <2> QED BY <2>1, <2>2
<1> QED BY <1>5, <1>6, <1>7, <1>8 DEF RingInv, Control

\* Every step keeps the invariant.
LEMMA RingStep == RingInv /\ [Next]_vars => RingInv' /\ Effect
<1> SUFFICES ASSUME RingInv, [Next]_vars
             PROVE  RingInv' /\ Effect
  OBVIOUS
<1>1. CASE Next
  BY <1>1, ThreadStep DEF Next
<1>2. CASE UNCHANGED vars
  <2> USE <1>2 DEF vars
  <2>1. Control'
    BY DEF RingInv, Control, TypeOK, Holder, Indices, Registers, SlotOf, First
  <2>2. SemaphoreCountsItems'
    BY DEF RingInv, SemaphoreCountsItems, Stored, Unsettled
  <2>3. Keep
    BY DEF Keep, Stored, Unsettled, First, Away
  <2> QED BY <2>1, <2>2, <2>3, KeepStep DEF RingInv, Effect
<1> QED BY <1>1, <1>2

\* The inductive invariant of the ring: who holds the mutex, what the indices are
\* between two statements, and what the semaphore and the live slots hold.
THEOREM RingInvariance == Spec => []RingInv
BY RingInitial, RingStep, PTL DEF Spec

\* The ring's fields and the callers' locals keep their types.
THEOREM RingTypes == Spec => []TypeOK
<1>1. RingInv => TypeOK
  BY DEF RingInv, Control
<1> QED BY <1>1, RingInvariance, PTL

\* However many callers interleave, buffer[] is never indexed outside its slots.
THEOREM RingInBounds == Spec => []IndexInBounds
<1>1. RingInv => IndexInBounds
  <2> SUFFICES ASSUME RingInv, NEW t \in Threads
               PROVE  /\ pc[t] = "pop_read" => start \in Slots
                      /\ pc[t] = "push_store" => pos[t] \in Slots
    BY DEF IndexInBounds
  <2> USE DEF RingInv, Control
  <2>1. ASSUME pc[t] = "pop_read"
        PROVE  start \in Slots
    <3>1. ~(\E u \in Threads : pc[u] = "pop_wrap")
      BY <2>1 DEF Holder, Critical
    <3> QED BY <3>1, RingAssumption DEF Indices, Slots
  <2>2. ASSUME pc[t] = "push_store"
        PROVE  pos[t] \in Slots
    <3>1. Unsettled /\ Away = out \cup {reg[t]}
      BY <2>2, HolderAlone DEF Critical, Carrying, Halfway
    <3>2. Stored = used - 1 /\ Stored < MaxCnt /\ pos[t] = SlotOf(Stored)
      BY <2>2, <3>1, Room DEF Stored, Indices
    <3>3. First \in Slots /\ Stored \in Slots
      BY <3>2, StoredProperties, RingAssumption DEF Slots
    <3> QED BY <3>2, <3>3, SlotProperties
  <2> QED BY <2>1, <2>2
<1> QED BY <1>1, RingInvariance, PTL

\* The semaphore counts exactly the items no caller was let in for.
THEOREM RingSemaphore == Spec => []SemaphoreCountsItems
<1>1. RingInv => SemaphoreCountsItems
  BY DEF RingInv
<1> QED BY <1>1, RingInvariance, PTL

\* No interleaving of pops and pushes loses or doubles an offset.
THEOREM RingOwnership == Spec => []EachOffsetInOnePlace
<1>1. RingInv => EachOffsetInOnePlace
  BY DEF RingInv
<1> QED BY <1>1, RingInvariance, PTL

-----------------------------------------------------------------------------
(* The refinement: the live slots, oldest first, are the queue of FreeList. *)
Queue == [k \in 1 .. Stored |-> buffer[SlotOf(k - 1)]]

\* The live slots form a sequence of offsets.
LEMMA QueueIsSeq ==
    ASSUME RingInv
    PROVE  Queue \in Seq(Offsets) /\ Len(Queue) = Stored /\ Stored \in Nat
<1>1. Stored \in Nat
  BY StoredProperties DEF RingInv
<1>2. \A k \in 1 .. Stored : buffer[SlotOf(k - 1)] \in Offsets
  <2> SUFFICES ASSUME NEW k \in 1 .. Stored
               PROVE  buffer[SlotOf(k - 1)] \in Offsets
    OBVIOUS
  <2>1. k - 1 \in 0 .. Stored - 1
    BY <1>1
  <2> QED BY <2>1 DEF RingInv, EachOffsetInOnePlace
<1>3. Queue \in [1 .. Stored -> Offsets]
  BY <1>2 DEF Queue
<1> QED BY <1>1, <1>3, LenProperties

\* The ring starts as a full or an empty FreeList.
LEMMA InitialQueue == Init => Abstract!Init
<1> SUFFICES ASSUME Init
             PROVE  Abstract!Init
  OBVIOUS
<1>1. RingInv
  BY RingInitial
<1>2. Queue \in Seq(Offsets) /\ Len(Queue) = Stored /\ Stored \in Nat /\ Queue \in [1 .. Stored -> Offsets]
  BY <1>1, QueueIsSeq, LenProperties
<1>3. Stored = 0 \/ Stored = Cardinality(Offsets)
  BY RingAssumption DEF Init, Create, Stored, Unsettled
<1>4. Queue \in [1 .. Cardinality(Offsets) -> Offsets] \cup {<< >>}
  BY <1>2, <1>3
<1>5. \A j, k \in 1 .. Len(Queue) : Queue[j] = Queue[k] => j = k
  <2> SUFFICES ASSUME NEW j \in 1 .. Stored, NEW k \in 1 .. Stored, Queue[j] = Queue[k]
               PROVE  j = k
    BY <1>2
  <2>1. j - 1 \in 0 .. Stored - 1 /\ k - 1 \in 0 .. Stored - 1
    BY <1>2
  <2>2. j - 1 = k - 1
    BY <1>1, <2>1 DEF Queue, RingInv, EachOffsetInOnePlace
  <2> QED BY <1>2, <2>2
<1>6. Away = Offsets \ {Queue[k] : k \in 1 .. Len(Queue)}
  <2>1. {Queue[k] : k \in 1 .. Stored} = {buffer[SlotOf(k)] : k \in 0 .. Stored - 1}
    <3>1. \A k \in 1 .. Stored : k - 1 \in 0 .. Stored - 1 /\ Queue[k] = buffer[SlotOf(k - 1)]
      BY <1>2 DEF Queue
    <3>2. \A k \in 0 .. Stored - 1 : k + 1 \in 1 .. Stored /\ (k + 1) - 1 = k
      BY <1>2
    <3> QED BY <3>1, <3>2
  <2>2. Away \subseteq Offsets
    BY <1>1, StoredProperties DEF RingInv
  <2> QED BY <1>1, <1>2, <2>1, <2>2 DEF RingInv, EachOffsetInOnePlace
<1>7. Abstract!Init <=> /\ Queue \in [1 .. Cardinality(Offsets) -> Offsets] \cup {<< >>}
                        /\ \A j, k \in 1 .. Len(Queue) : Queue[j] = Queue[k] => j = k
                        /\ Away = Offsets \ {Queue[k] : k \in 1 .. Len(Queue)}
  <2>1. Abstract!Cardinality(Offsets) = Cardinality(Offsets)
    BY Zenon DEF Abstract!Cardinality, Cardinality
  <2> QED BY <2>1, Zenon DEF Abstract!Init, Queue
<1> QED BY <1>4, <1>5, <1>6, <1>7, Zenon

\* A step that keeps the queue is a stutter of FreeList.
LEMMA KeepStutters ==
    ASSUME Keep
    PROVE  Queue' = Queue /\ Away' = Away
<1>1. \A k : SlotOf(k)' = SlotOf(k)
  BY DEF Keep, SlotOf
<1> QED BY <1>1 DEF Queue, Keep

\* Reading buffer[start++] is FreeList's Pop.
LEMMA TakePops ==
    ASSUME RingInv, RingInv', Take
    PROVE  Queue # << >> /\ Queue' = Tail(Queue) /\ Away' = Away \cup {Head(Queue)}
<1>1. Queue \in Seq(Offsets) /\ Len(Queue) = Stored /\ Stored \in Nat /\ Stored > 0 /\ First \in Slots
  BY QueueIsSeq, StoredProperties DEF Take, RingInv
<1>2. Queue # << >>
  BY <1>1
<1>3. /\ Tail(Queue) \in Seq(Offsets) /\ Len(Tail(Queue)) = Stored - 1
      /\ \A i \in 1 .. Stored - 1 : Tail(Queue)[i] = Queue[i + 1]
  BY <1>1, <1>2, HeadTailProperties
<1>4. Queue' = [k \in 1 .. Stored - 1 |-> Queue[k + 1]]
  <2>1. \A k \in 1 .. Stored - 1 : buffer'[SlotOf(k - 1)'] = buffer[SlotOf(k)]
    <3> SUFFICES ASSUME NEW k \in 1 .. Stored - 1
                 PROVE  buffer'[SlotOf(k - 1)'] = buffer[SlotOf(k)]
      OBVIOUS
    <3>1. k - 1 \in 0 .. Stored' - 1 /\ (k - 1) + 1 = k
      BY <1>1 DEF Take
    <3> QED BY <3>1, TakeStep
  <2>2. \A k \in 1 .. Stored - 1 : Queue[k + 1] = buffer[SlotOf(k)]
    BY <1>1 DEF Queue
  <2> QED BY <1>1, <2>1, <2>2 DEF Queue, Take
<1>5. Tail(Queue) = [k \in 1 .. Stored - 1 |-> Queue[k + 1]]
  <2>1. Tail(Queue) \in [1 .. Stored - 1 -> Offsets]
    BY <1>3, LenProperties
  <2> QED BY <1>3, <2>1
<1>6. Head(Queue) = buffer[First]
  <2>1. Head(Queue) = Queue[1] /\ Queue[1] = buffer[SlotOf(0)] /\ SlotOf(0) = First
    BY <1>1, RingAssumption DEF Queue, SlotOf, Slots
  <2> QED BY <2>1
<1> QED BY <1>2, <1>4, <1>5, <1>6 DEF Take

\* Storing buffer[pos] is FreeList's Push.
LEMMA PutPushes ==
    ASSUME RingInv, NEW v \in Offsets, Put(v)
    PROVE  v \in Away /\ Queue' = Append(Queue, v) /\ Away' = Away \ {v}
<1>1. Queue \in Seq(Offsets) /\ Len(Queue) = Stored /\ Stored \in Nat
  BY QueueIsSeq
<1>2. \A k \in 1 .. Stored + 1 :
        buffer'[SlotOf(k - 1)'] = IF k = Stored + 1 THEN v ELSE buffer[SlotOf(k - 1)]
  <2> SUFFICES ASSUME NEW k \in 1 .. Stored + 1
               PROVE  buffer'[SlotOf(k - 1)'] = IF k = Stored + 1 THEN v ELSE buffer[SlotOf(k - 1)]
    OBVIOUS
  <2>1. k - 1 \in 0 .. Stored /\ (k - 1 = Stored <=> k = Stored + 1)
    BY <1>1
  <2> QED BY <2>1, PutStep
<1>3. Stored' = Stored + 1
  BY DEF Put
<1>4. Queue' = [k \in 1 .. Stored + 1 |-> IF k = Stored + 1 THEN v ELSE Queue[k]]
  <2>1. \A k \in 1 .. Stored : Queue[k] = buffer[SlotOf(k - 1)]
    BY DEF Queue
  <2> QED BY <1>1, <1>2, <1>3, <2>1 DEF Queue
<1>5. Append(Queue, v) = [k \in 1 .. Stored + 1 |-> IF k = Stored + 1 THEN v ELSE Queue[k]]
  <2>1. /\ Append(Queue, v) \in Seq(Offsets) /\ Len(Append(Queue, v)) = Stored + 1
        /\ \A k \in 1 .. Stored : Append(Queue, v)[k] = Queue[k]
        /\ Append(Queue, v)[Stored + 1] = v
    BY <1>1, AppendProperties
  <2>2. Append(Queue, v) \in [1 .. Stored + 1 -> Offsets]
    BY <2>1, LenProperties
  <2>3. \A k \in 1 .. Stored + 1 : Append(Queue, v)[k] = IF k = Stored + 1 THEN v ELSE Queue[k]
    BY <1>1, <2>1
  <2> DEFINE a == Append(Queue, v)
  <2>4. a \in [1 .. Stored + 1 -> Offsets]
        /\ \A k \in 1 .. Stored + 1 : a[k] = IF k = Stored + 1 THEN v ELSE Queue[k]
    BY <2>2, <2>3
  <2> HIDE DEF a
  <2>5. a = [k \in 1 .. Stored + 1 |-> IF k = Stored + 1 THEN v ELSE Queue[k]]
    BY <2>4
  <2> QED BY <2>5 DEF a
<1> QED BY <1>4, <1>5 DEF Put

\* misc/src/ring_buffer.c implements one atomic FIFO of offsets: the pop takes
\* effect where it reads buffer[start++], the push where it stores buffer[pos].
THEOREM RingImplementsFreeList == Spec => ImplementsFreeList
<1>1. RingInv /\ RingInv' /\ Effect => [Abstract!Next]_(Abstract!vars)
  <2> SUFFICES ASSUME RingInv, RingInv', Effect
               PROVE  [Abstract!Next]_(Abstract!vars)
    OBVIOUS
  <2>1. CASE Keep
    BY <2>1, KeepStutters DEF Abstract!vars, Queue
  <2>2. CASE Take
    <3>1. Abstract!Pop
      BY <2>2, TakePops DEF Abstract!Pop, Queue
    <3> QED BY <3>1 DEF Abstract!Next
  <2>3. CASE \E v \in Offsets : Put(v)
    <3>1. PICK v \in Offsets : Put(v)
      BY <2>3
    <3>2. Abstract!Push(v)
      BY <3>1, PutPushes DEF Abstract!Push, Queue
    <3> QED BY <3>2 DEF Abstract!Next
  <2> QED BY <2>1, <2>2, <2>3 DEF Effect
<1> QED BY <1>1, InitialQueue, RingInvariance, RingStep, PTL DEF Spec, ImplementsFreeList, Abstract!Spec
=============================================================================
