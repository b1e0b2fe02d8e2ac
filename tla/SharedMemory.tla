---------------------------- MODULE SharedMemory ----------------------------
(***************************************************************************)
(* The layout of the shared memory: shmem/shared_memory_map.h, with what   *)
(* pipeline_thread and the children take from it.                          *)
(*                                                                         *)
(*     map | table of process_info | buffers                               *)
(*                                                                         *)
(* each part at a multiple of 256.  Pipeline speaks of buffer k and entry  *)
(* i; this is where they lie.  The sizes are those the callers give, far   *)
(* below 2^64, so that nothing wraps.                                      *)
(***************************************************************************)
EXTENDS Integers

\* memory_map_t with 64 bit: two ints, each padded to a word, and two sizes.
sizeof_memory_map == 32

\* ((size + 255) >> 8) << 8
MEMORY_ALIGN(size) == ((size + 255) \div 256) * 256
MEMORY_MAP_SIZE == MEMORY_ALIGN(sizeof_memory_map)

memory_map == [process_cnt : Nat, process_size : Nat, data_cnt : Nat, data_size : Nat]
memory_map_create(proc_cnt, proc_size, cnt, size) ==
    [process_cnt |-> proc_cnt, process_size |-> proc_size, data_cnt |-> cnt, data_size |-> size]

memory_get_processoffset(map) == MEMORY_MAP_SIZE
memory_get_dataoffset(map) == MEMORY_MAP_SIZE + MEMORY_ALIGN(map.process_size * map.process_cnt)
memory_get_size(map) ==
    MEMORY_MAP_SIZE + MEMORY_ALIGN(map.process_size * map.process_cnt)
                    + MEMORY_ALIGN(map.data_size * map.data_cnt)

\* An area of the memory, and where the code puts entry i and buffer k.
Area(at, size) == [at |-> at, size |-> size]
Info(map, i) == Area(memory_get_processoffset(map) + i * map.process_size, map.process_size)
Data(map, k) == Area(memory_get_dataoffset(map) + k * map.data_size, map.data_size)

-----------------------------------------------------------------------------
Inside(a, map) == a.at + a.size <= memory_get_size(map)
Apart(a, b) == a.at + a.size <= b.at \/ b.at + b.size <= a.at

\* Entries and buffers lie behind the map and inside the memory, no two of them
\* have a byte in common, and table and buffers begin at a multiple of 256.
LayoutOf(map) ==
    LET Infos == 0 .. map.process_cnt - 1
        Datas == 0 .. map.data_cnt - 1
        Map == Area(0, sizeof_memory_map)
    IN /\ memory_get_processoffset(map) % 256 = 0 /\ memory_get_dataoffset(map) % 256 = 0
       /\ \A i \in Infos : Inside(Info(map, i), map) /\ Apart(Map, Info(map, i))
       /\ \A k \in Datas : Inside(Data(map, k), map) /\ Apart(Map, Data(map, k))
       /\ \A i, j \in Infos : i # j => Apart(Info(map, i), Info(map, j))
       /\ \A k, l \in Datas : k # l => Apart(Data(map, k), Data(map, l))
       /\ \A i \in Infos, k \in Datas : Apart(Info(map, i), Data(map, k))
=============================================================================
