--------------------------- MODULE ProcessProofs ---------------------------
(***************************************************************************)
(* The process table, for any number of pipelines, children and entries:   *)
(* type correctness, and that no thread meets another thread's child.      *)
(* And the layout of the memory the table is in, for any sizes.            *)
(***************************************************************************)
EXTENDS ProcessManager, SharedMemory, TLAPS

\* Threads that start children at the same time get entries of their own.
EntriesAreDistinct ==
    \A t, u \in Tasks : id[t] # NoEntry /\ id[t] = id[u] => t = u

\* Every entry handed out lies below the counter, which never goes back.
EntriesCounted == \A t \in Tasks : id[t] < process_cnt

\* The thread between the check and the increment holds the mutex, and what
\* it checked is still true.
CheckStands ==
    \A t \in Tasks : pc[t] = "take" => process_mutex = t /\ process_cnt < TableSize

\* A thread that has come past the increment has an entry.
EntryHeld ==
    \A t \in Tasks : pc[t] \in {"fork", "record", "serve"} => id[t] # NoEntry

IInv == TypeOK /\ EntriesAreDistinct /\ EntriesCounted /\ CheckStands /\ EntryHeld

\* The steps of Next, without the definitions that only group them.
LEMMA StepCases ==
    ASSUME Next
    PROVE  \/ pipeline_init \/ Stop
           \/ \E p \in Pipelines : \/ process_subsystem_init(p)
                                   \/ process_subsystem_destroy(p)
                                   \/ shared_memory_destroy(p)
           \/ \E t \in Tasks : \/ LockAndCheck(t) \/ TakeId(t) \/ Fork(t) \/ Record(t)
                               \/ Exec(t) \/ Open(t) \/ ChildDies(t)
                               \/ \E u \in Tasks : StopChild(t, u)
           \/ SigWaitInfo \/ process_cleanup \/ signal_thread_destroy
  BY DEF Next, PipelineThread, Thread, process_start, Child, signal_thread

\* A thread is a pair that begins with a pipeline; nobody is none of them.
LEMMA TaskFacts ==
    /\ Nobody \notin Tasks
    /\ \A t \in Tasks : t[1] \in Pipelines
    /\ \A p \in Pipelines, w \in Workers : <<p, w>> \in Tasks
  BY ProcessManagerAssumption DEF Tasks, Pipelines, Nobody, NULL

\* process_mngr.c starts with no table and nothing counted.
LEMMA InitInv ==
    ASSUME Init
    PROVE  IInv
  <1> USE ProcessManagerAssumption DEF Init
  <1>1. NoEntry \in NoEntry .. TableSize - 1 /\ NoEntry < 0
    BY DEF NoEntry
  <1>2. st \in {"none", "wait", "cleanup", "ended"}
    BY Zenon
  <1>3. /\ pt \in [Pipelines -> {"none", "init", "run", "unmap", "ended"}]
        /\ pc \in [Tasks -> {"none", "lock", "take", "fork", "record", "serve", "done", "astray"}]
        /\ id \in [Tasks -> NoEntry .. TableSize - 1]
        /\ child \in [Tasks -> {"none", "exec", "astray", "open", "serving", "zombie", "reaped"}]
        /\ shmem \in [Tasks -> Pipelines \cup {NULL}]
    BY <1>1
  <1>4. /\ process_cnt \in 0 .. TableSize
        /\ inits \in 0 .. MaxPipelines
    BY SMT
  <1>5. /\ program \in {"pipeline", "streamer"}
        /\ process_mutex \in Tasks \cup {Nobody}
        /\ process_cnt_max \in {0, TableSize}
        /\ process_info \in Pipelines \cup {NULL}
        /\ path \in Pipelines \cup {NULL}
        /\ stopping \in BOOLEAN
        /\ failed \subseteq Tasks
        /\ sigchld \in BOOLEAN
    BY Zenon
  <1>6. TypeOK
    BY <1>2, <1>3, <1>4, <1>5, Zenon DEF TypeOK
  <1>7. EntriesAreDistinct /\ EntriesCounted /\ CheckStands /\ EntryHeld
    BY <1>1 DEF EntriesAreDistinct, EntriesCounted, CheckStands, EntryHeld
  <1>8. QED
    BY <1>6, <1>7 DEF IInv

\* A step keeps the types; TakeId stays within the table because of CheckStands.
LEMMA TypeStep ==
    ASSUME IInv, [Next]_vars
    PROVE  TypeOK'
  <1> USE ProcessManagerAssumption DEF IInv, TypeOK
  <1>1. CASE UNCHANGED vars
    BY <1>1 DEF vars, pipelineVars, tableVars, childVars
  <1>2. CASE pipeline_init
    <2>1. inits + 1 \in Pipelines
      BY <1>2 DEF pipeline_init, Pipelines
    <2>2. QED
      BY <1>2, <2>1 DEF pipeline_init, tableVars, childVars, Pipelines
  <1>3. CASE Stop
    BY <1>3 DEF Stop, tableVars, childVars
  <1>4. ASSUME NEW p \in Pipelines, process_subsystem_init(p)
        PROVE  TypeOK'
    BY <1>4 DEF process_subsystem_init, childVars
  <1>5. ASSUME NEW p \in Pipelines, process_subsystem_destroy(p)
        PROVE  TypeOK'
    BY <1>5 DEF process_subsystem_destroy, childVars
  <1>6. ASSUME NEW p \in Pipelines, shared_memory_destroy(p)
        PROVE  TypeOK'
    BY <1>6 DEF shared_memory_destroy, tableVars, childVars
  <1>7. ASSUME NEW t \in Tasks, LockAndCheck(t)
        PROVE  TypeOK'
    BY <1>7 DEF LockAndCheck, Goto, pipelineVars, childVars
  <1>8. ASSUME NEW t \in Tasks, TakeId(t)
        PROVE  TypeOK'
    <2>1. process_cnt < TableSize
      BY <1>8 DEF TakeId, Goto, CheckStands
    <2>2. process_cnt \in NoEntry .. TableSize - 1 /\ process_cnt + 1 \in 0 .. TableSize
      BY <2>1 DEF NoEntry
    <2>3. QED
      BY <1>8, <2>2 DEF TakeId, Goto, pipelineVars, childVars
  <1>9. ASSUME NEW t \in Tasks, Fork(t)
        PROVE  TypeOK'
    BY <1>9 DEF Fork, Fault, Goto, pipelineVars, tableVars
  <1>10. ASSUME NEW t \in Tasks, Record(t)
         PROVE  TypeOK'
    BY <1>10 DEF Record, Goto, pipelineVars, tableVars, childVars
  <1>11. ASSUME NEW t \in Tasks, Exec(t)
         PROVE  TypeOK'
    BY <1>11 DEF Exec, Fault, pipelineVars, tableVars
  <1>12. ASSUME NEW t \in Tasks, Open(t)
         PROVE  TypeOK'
    <2>1. CASE path = NULL
      BY <1>12, <2>1 DEF Open, Exit, pipelineVars, tableVars
    <2>2. CASE path # NULL
      BY <1>12, <2>2 DEF Open, pipelineVars, tableVars
    <2>3. QED
      BY <2>1, <2>2
  <1>13. ASSUME NEW t \in Tasks, ChildDies(t)
         PROVE  TypeOK'
    BY <1>13 DEF ChildDies, Fault, Exit, pipelineVars, tableVars
  <1>14. ASSUME NEW t \in Tasks, NEW u \in Tasks, StopChild(t, u)
         PROVE  TypeOK'
    BY <1>14 DEF StopChild, Exit, pipelineVars, tableVars
  <1>15. CASE SigWaitInfo
    BY <1>15 DEF SigWaitInfo, pipelineVars, tableVars
  <1>16. CASE process_cleanup
    BY <1>16 DEF process_cleanup, Zombies, pipelineVars, tableVars
  <1>17. CASE signal_thread_destroy
    BY <1>17 DEF signal_thread_destroy, pipelineVars, tableVars, childVars
  <1>18. QED
    BY <1>1, <1>2, <1>3, <1>4, <1>5, <1>6, <1>7, <1>8, <1>9, <1>10, <1>11, <1>12,
       <1>13, <1>14, <1>15, <1>16, <1>17, StepCases

\* A thread does not come past the check or the increment.
SamePlace(t) ==
    /\ pc'[t] = "take" => pc[t] = "take"
    /\ pc'[t] \in {"fork", "record", "serve"} => pc[t] \in {"fork", "record", "serve"}

\* What a step may do to the counter, the mutex and the entries: check under
\* the mutex, take an entry, or neither.
LEMMA CounterStep ==
    ASSUME IInv, [Next]_vars
    PROVE  \/ /\ UNCHANGED <<process_cnt, id, process_mutex>>
              /\ \A t \in Tasks : SamePlace(t)
           \/ \E t \in Tasks : LockAndCheck(t) \/ TakeId(t)
  <1> USE DEF IInv, TypeOK, SamePlace
  <1>1. CASE UNCHANGED vars
    BY <1>1 DEF vars, tableVars
  <1>2. CASE pipeline_init \/ Stop \/ SigWaitInfo \/ process_cleanup \/ signal_thread_destroy
    BY <1>2 DEF pipeline_init, Stop, SigWaitInfo, process_cleanup,
                signal_thread_destroy, tableVars
  <1>3. ASSUME NEW p \in Pipelines,
               process_subsystem_init(p) \/ process_subsystem_destroy(p)
                 \/ shared_memory_destroy(p)
        PROVE  /\ UNCHANGED <<process_cnt, id, process_mutex>>
               /\ \A t \in Tasks : SamePlace(t)
    BY <1>3 DEF process_subsystem_init, process_subsystem_destroy,
                shared_memory_destroy, tableVars
  <1>4. ASSUME NEW t \in Tasks, Fork(t) \/ Record(t)
        PROVE  /\ UNCHANGED <<process_cnt, id, process_mutex>>
               /\ \A u \in Tasks : SamePlace(u)
    BY <1>4 DEF Fork, Record, Goto, tableVars
  <1>5. ASSUME NEW t \in Tasks, Exec(t) \/ Open(t) \/ ChildDies(t)
        PROVE  /\ UNCHANGED <<process_cnt, id, process_mutex>>
               /\ \A u \in Tasks : SamePlace(u)
    BY <1>5 DEF Exec, Open, ChildDies, tableVars
  <1>6. ASSUME NEW t \in Tasks, NEW u \in Tasks, StopChild(t, u)
        PROVE  /\ UNCHANGED <<process_cnt, id, process_mutex>>
               /\ \A v \in Tasks : SamePlace(v)
    BY <1>6 DEF StopChild, tableVars
  <1>7. QED
    BY <1>1, <1>2, <1>3, <1>4, <1>5, <1>6, StepCases

\* process_start keeps the entries apart.
LEMMA EntriesStep ==
    ASSUME IInv, [Next]_vars
    PROVE  EntriesAreDistinct' /\ EntriesCounted' /\ CheckStands' /\ EntryHeld'
  <1> USE ProcessManagerAssumption, TaskFacts
      DEF IInv, TypeOK, EntriesAreDistinct, EntriesCounted, CheckStands, EntryHeld
  <1>1. CASE /\ UNCHANGED <<process_cnt, id, process_mutex>>
             /\ \A t \in Tasks : SamePlace(t)
    BY <1>1 DEF SamePlace
  <1>2. ASSUME NEW t \in Tasks, LockAndCheck(t)
        PROVE  EntriesAreDistinct' /\ EntriesCounted' /\ CheckStands' /\ EntryHeld'
    BY <1>2 DEF LockAndCheck, Goto
  <1>3. ASSUME NEW t \in Tasks, TakeId(t)
        PROVE  EntriesAreDistinct' /\ EntriesCounted' /\ CheckStands' /\ EntryHeld'
    BY <1>3 DEF TakeId, Goto
  <1>4. QED
    BY <1>1, <1>2, <1>3, CounterStep

\* The invariant of the process table.
LEMMA Invariance == Spec => []IInv
  <1>1. Init => IInv
    BY InitInv
  <1>2. IInv /\ [Next]_vars => IInv'
    BY TypeStep, EntriesStep DEF IInv
  <1>3. QED
    BY <1>1, <1>2, PTL DEF Spec

\* Every variable of process_mngr.c keeps its type; with it, the table is not
\* indexed beyond its end: process_start hands out entries below TableSize.
THEOREM TypeCorrect == Spec => []TypeOK
  <1>1. IInv => TypeOK
    BY DEF IInv
  <1>2. QED
    BY <1>1, Invariance, PTL

\* No thread of the server ever meets a child that another thread started,
\* however many pipelines share the name of the memory and whatever fails.
THEOREM ChildrenAreNotMixedUp == Spec => []OwnChildOnly
  <1>1. IInv => OwnChildOnly
    <2>1. SUFFICES ASSUME IInv, NEW t \in Tasks, NEW u \in Tasks, Meet(t, u)
                   PROVE  t = u
      BY DEF OwnChildOnly
    <2>2. QED
      BY <2>1 DEF Meet, IInv, EntriesAreDistinct, EntryHeld
  <1>2. QED
    BY <1>1, Invariance, PTL

-----------------------------------------------------------------------------
\* What is aligned is no smaller, and a multiple of 256.
LEMMA AlignFacts ==
    ASSUME NEW s \in Nat
    PROVE  MEMORY_ALIGN(s) \in Nat /\ MEMORY_ALIGN(s) >= s /\ MEMORY_ALIGN(s) % 256 = 0
<1>1. PICK q \in Nat : q = (s + 255) \div 256 OBVIOUS
<1>2. q * 256 >= s BY <1>1
<1>3. (q * 256) % 256 = 0 BY <1>1
<1> QED BY <1>1, <1>2, <1>3 DEF MEMORY_ALIGN

\* Records of one size, one behind the other: they fit, and lie apart.
LEMMA ArrayFacts ==
    ASSUME NEW n \in Nat, NEW s \in Nat
    PROVE  /\ s * n \in Nat
           /\ \A i \in 0 .. n - 1 : i * s \in Nat /\ i * s + s <= s * n
           /\ \A i, j \in 0 .. n - 1 : i < j => i * s + s <= j * s
<1>1. \A i, j \in Nat : i < j => i * s + s <= j * s
  <2>1. SUFFICES ASSUME NEW i \in Nat, NEW j \in Nat, i < j PROVE i * s + s <= j * s OBVIOUS
  <2>2. PICK e \in Nat : j = i + 1 + e
    <3>1. j - i - 1 \in Nat /\ j = i + 1 + (j - i - 1) BY <2>1
    <3> QED BY <3>1
  <2>3. j * s = i * s + s + e * s BY <2>2
  <2>4. e * s >= 0 OBVIOUS
  <2> QED BY <2>3, <2>4
<1>2. s * n = n * s OBVIOUS
<1>3. \A i \in 0 .. n - 1 : i \in Nat /\ i < n OBVIOUS
<1>4. \A i \in Nat : i * s \in Nat OBVIOUS
<1> QED BY <1>1, <1>2, <1>3, <1>4

\* For any number and size of entries and buffers the parts of the shared
\* memory lie apart and inside it (shared_memory_map.h): a child that writes its
\* buffer touches no other buffer, no process_info and not the map.
THEOREM LayoutIsSafe == \A map \in memory_map : LayoutOf(map)
<1> SUFFICES ASSUME NEW map \in memory_map PROVE LayoutOf(map) OBVIOUS
<1>1. PICK n \in Nat, s \in Nat : n = map.process_cnt /\ s = map.process_size BY DEF memory_map
<1>2. PICK m \in Nat, d \in Nat : m = map.data_cnt /\ d = map.data_size BY DEF memory_map
<1>3. PICK a \in Nat : a = MEMORY_MAP_SIZE /\ a >= 32 /\ a % 256 = 0
  BY AlignFacts DEF MEMORY_MAP_SIZE, sizeof_memory_map
<1>4. PICK t \in Nat : t = MEMORY_ALIGN(s * n) /\ t >= s * n /\ t % 256 = 0 BY ArrayFacts, AlignFacts
<1>5. PICK b \in Nat : b = MEMORY_ALIGN(d * m) /\ b >= d * m BY ArrayFacts, AlignFacts
<1>6. /\ memory_get_processoffset(map) = a /\ memory_get_dataoffset(map) = a + t
      /\ memory_get_size(map) = a + t + b
  BY <1>1, <1>2, <1>3, <1>4, <1>5
  DEF memory_get_processoffset, memory_get_dataoffset, memory_get_size
<1>7. /\ \A i : Info(map, i) = Area(a + i * s, s)
      /\ \A k : Data(map, k) = Area((a + t) + k * d, d)
  BY <1>1, <1>2, <1>6 DEF Info, Data
<1>8. (a + t) % 256 = 0 BY <1>3, <1>4
<1>9. ASSUME NEW i \in 0 .. n - 1
      PROVE  Inside(Info(map, i), map) /\ Apart(Area(0, 32), Info(map, i))
  <2>1. PICK x \in Nat : x = i * s /\ x + s <= s * n BY ArrayFacts
  <2>2. PICK y \in Nat : y = s * n BY ArrayFacts
  <2>3. a + x + s <= a + t + b /\ 0 + 32 <= a + x BY <1>3, <1>4, <2>1, <2>2
  <2> QED BY <1>6, <1>7, <2>1, <2>3 DEF Inside, Apart, Area
<1>10. ASSUME NEW k \in 0 .. m - 1
       PROVE  Inside(Data(map, k), map) /\ Apart(Area(0, 32), Data(map, k))
  <2>1. PICK x \in Nat : x = k * d /\ x + d <= d * m BY ArrayFacts
  <2>2. PICK y \in Nat : y = d * m BY ArrayFacts
  <2>3. (a + t) + x + d <= a + t + b /\ 0 + 32 <= (a + t) + x BY <1>3, <1>4, <1>5, <2>1, <2>2
  <2> QED BY <1>6, <1>7, <2>1, <2>3 DEF Inside, Apart, Area
<1>11. ASSUME NEW i \in 0 .. n - 1, NEW j \in 0 .. n - 1, i # j
       PROVE  Apart(Info(map, i), Info(map, j))
  <2>1. PICK x \in Nat, y \in Nat : x = i * s /\ y = j * s BY ArrayFacts
  <2>2. i < j \/ j < i BY <1>11
  <2>3. x + s <= y \/ y + s <= x BY <2>1, <2>2, ArrayFacts
  <2>4. (a + x) + s <= a + y \/ (a + y) + s <= a + x BY <2>1, <2>3
  <2> QED BY <1>7, <2>1, <2>4 DEF Apart, Area
<1>12. ASSUME NEW k \in 0 .. m - 1, NEW l \in 0 .. m - 1, k # l
       PROVE  Apart(Data(map, k), Data(map, l))
  <2>1. PICK x \in Nat, y \in Nat : x = k * d /\ y = l * d BY ArrayFacts
  <2>2. k < l \/ l < k BY <1>12
  <2>3. x + d <= y \/ y + d <= x BY <2>1, <2>2, ArrayFacts
  <2>4. ((a + t) + x) + d <= (a + t) + y \/ ((a + t) + y) + d <= (a + t) + x BY <2>1, <2>3
  <2> QED BY <1>7, <2>1, <2>4 DEF Apart, Area
<1>13. ASSUME NEW i \in 0 .. n - 1, NEW k \in 0 .. m - 1
       PROVE  Apart(Info(map, i), Data(map, k))
  <2>1. PICK x \in Nat : x = i * s /\ x + s <= s * n BY ArrayFacts
  <2>2. PICK y \in Nat : y = k * d BY ArrayFacts
  <2>3. PICK z \in Nat : z = s * n BY ArrayFacts
  <2>4. (a + x) + s <= (a + t) + y BY <1>4, <2>1, <2>2, <2>3
  <2> QED BY <1>7, <2>1, <2>2, <2>4 DEF Apart, Area
<1> QED BY <1>1, <1>2, <1>3, <1>6, <1>8, <1>9, <1>10, <1>11, <1>12, <1>13 DEF LayoutOf, sizeof_memory_map
=============================================================================
