------------------------------ MODULE Pipeline ------------------------------
(***************************************************************************)
(* pipeline/src/pipeline_server.c and pipeline_client.c: a chain of        *)
(* modules 0 .. Last.  Module 0 is the source, the modules between are     *)
(* processors, module Last is the finalization.  Each module has a thread  *)
(* of the server; all but the last also have a child process that works on *)
(* the data in shared memory.                                              *)
(*                                                                         *)
(*   struct module        thread i-1 hands a command and an offset to      *)
(*                        thread i through cmd and dataoffset, under the   *)
(*                        semaphores result (slot free) and new_cmd (slot  *)
(*                        full);                                           *)
(*   struct process_info  thread i hands its child a job through cmd and   *)
(*                        cmd_offs, under sem_job and sem_result;          *)
(*   data_ring            offsets of free buffers: popped by the source,   *)
(*                        pushed back by a processor that drops the data   *)
(*                        and by the finalization.  It is used here as     *)
(*                        FreeList describes it (see RingBuffer).          *)
(*                                                                         *)
(* A step is one semaphore operation, or one access to memory another      *)
(* thread or process may also access.                                      *)
(***************************************************************************)
EXTENDS Integers, Sequences, FiniteSets

CONSTANTS Last,         \* index of the finalization module, modules_count - 1
          DataCnt,      \* map->data_cnt, the number of data buffers
          InitialCmds,  \* what module->cmd may hold once the modules are set up
          Statuses,     \* what a child's pipeline_action may return
          Mortal        \* the children that may die of a fault of their own

\* Commands; only PROCESS_CMD_STOP is told apart from the rest by a child.
PROCESS_CMD_STOP == 0
PROCESS_CMD_JOB == 1

ASSUME PipelineAssumption ==
    /\ Last \in Nat \ {0}
    /\ DataCnt \in Nat \ {0}
    /\ InitialCmds # {} /\ InitialCmds \subseteq {PROCESS_CMD_STOP, PROCESS_CMD_JOB}
    /\ Statuses # {} /\ Statuses \subseteq {-1, 0, 1}
    /\ Mortal \subseteq 0 .. Last - 1

Modules == 0 .. Last
Workers == 0 .. Last - 1         \* modules with a child process
Receivers == 1 .. Last           \* modules with a predecessor
Offsets == 0 .. DataCnt - 1      \* the i-th buffer stands for its offset
NoOffset == -1
Cmds == {PROCESS_CMD_STOP, PROCESS_CMD_JOB}

VARIABLES
    exit_flag,                        \* pdesc->exit_flag
    main,                             \* the thread that calls pipeline_destroy
    pt,                               \* pipeline_thread
    ring,                             \* data_ring, oldest first
    pc, cmd, off,                     \* each module's thread and its locals
    m_cmd, m_off, new_cmd, result,    \* struct module
    i_cmd, i_offs, i_result,          \* struct process_info
    sem_job, sem_result,
    cpc, data,                        \* each child and the data it works on
    failed                            \* children gone without being stopped

controlVars == <<exit_flag, main, pt>>
localVars == <<cmd, off>>
moduleVars == <<m_cmd, m_off, new_cmd, result>>
infoVars == <<i_cmd, i_offs, i_result, sem_job, sem_result>>
childVars == <<cpc, data, failed>>
vars == <<controlVars, ring, pc, localVars, moduleVars, infoVars, childVars>>

-----------------------------------------------------------------------------
Goto(i, from, to) ==
    /\ pc[i] = from
    /\ pc' = [pc EXCEPT ![i] = to]

\* sem_wait and sem_post on the semaphore of module or process i.
Wait(sem, i) ==
    /\ sem[i] > 0
    /\ sem' = [sem EXCEPT ![i] = @ - 1]

Post(sem, i) == sem' = [sem EXCEPT ![i] = @ + 1]

ring_buffer_push(v) == ring' = Append(ring, v)

-----------------------------------------------------------------------------
(* pipeline_init: the structures are allocated and pipeline_thread created. *)
Init ==
    /\ exit_flag = FALSE
    /\ main = "running"
    /\ pt = "setup"
    /\ ring = << >>
    /\ pc = [i \in Modules |-> "none"]
    /\ cmd = [i \in Modules |-> PROCESS_CMD_JOB]
    /\ off = [i \in Modules |-> NoOffset]
    /\ m_cmd \in [Modules -> InitialCmds]
    /\ m_off = [i \in Modules |-> NoOffset]
    /\ new_cmd = [i \in Modules |-> 0]
    /\ result = [i \in Modules |-> 0]
    /\ i_cmd = [i \in Workers |-> PROCESS_CMD_STOP]
    /\ i_offs = [i \in Workers |-> NoOffset]
    /\ i_result = [i \in Workers |-> 0]
    /\ sem_job = [i \in Workers |-> 0]
    /\ sem_result = [i \in Workers |-> 0]
    /\ cpc = [i \in Workers |-> "none"]
    /\ data = [i \in Workers |-> NoOffset]
    /\ failed = {}

(* pipeline_thread up to the creation of the module threads: the process   *)
(* table is cleared, the ring filled with every buffer, the semaphores set *)
(* to "no command" and "slot free".                                        *)
PipelineSetup ==
    /\ pt = "setup"
    /\ pt' = "join"
    /\ ring' = [k \in 1 .. DataCnt |-> k - 1]
    /\ new_cmd' = [i \in Modules |-> 0]
    /\ result' = [i \in Modules |-> 1]
    /\ pc' = [i \in Modules |-> IF i = Last THEN "wait_cmd" ELSE "start"]
    /\ UNCHANGED <<exit_flag, main, localVars, m_cmd, m_off, infoVars, childVars>>

(* ... and from the joins to its end: ring_buffer_destroy, then            *)
(* process_subsystem_destroy.                                              *)
PipelineJoined ==
    /\ pt = "join"
    /\ \A i \in Modules : pc[i] = "done"
    /\ pt' = "ring_destroyed"
    /\ UNCHANGED <<exit_flag, main, ring, pc, localVars, moduleVars, infoVars, childVars>>

SubsystemDestroy ==
    /\ pt = "ring_destroyed"
    /\ pt' = "exited"
    /\ UNCHANGED <<exit_flag, main, ring, pc, localVars, moduleVars, infoVars, childVars>>

pipeline_thread == PipelineSetup \/ PipelineJoined \/ SubsystemDestroy

(* pipeline_destroy: raise the flag, join pipeline_thread, unmap.          *)
RaiseExitFlag ==
    /\ main = "running"
    /\ main' = "join"
    /\ exit_flag' = TRUE
    /\ UNCHANGED <<pt, ring, pc, localVars, moduleVars, infoVars, childVars>>

DestroyMemory ==
    /\ main = "join"
    /\ pt = "exited"
    /\ main' = "unmapped"
    /\ UNCHANGED <<exit_flag, pt, ring, pc, localVars, moduleVars, infoVars, childVars>>

-----------------------------------------------------------------------------
(* Steps shared by the module threads.                                     *)

\* process_start: the child is forked and waits for its first job.
process_start(i) ==
    /\ Goto(i, "start", IF i = 0 THEN "check_exit" ELSE "wait_cmd")
    /\ cpc' = [cpc EXCEPT ![i] = "wait"]
    /\ UNCHANGED <<controlVars, ring, localVars, moduleVars, infoVars, data, failed>>

\* Mutant: the child is not told which buffer to work on.
SetJobStaleOffset(i) ==
    /\ Goto(i, "set_job", "post_job")
    /\ i_cmd' = [i_cmd EXCEPT ![i] = cmd[i]]
    /\ UNCHANGED <<controlVars, ring, localVars, moduleVars,
                   i_offs, i_result, sem_job, sem_result, childVars>>

\* Hand the child the command and the offset, and wait until it is done.
SetJob(i) ==
    /\ Goto(i, "set_job", "post_job")
    /\ i_cmd' = [i_cmd EXCEPT ![i] = cmd[i]]
    /\ i_offs' = [i_offs EXCEPT ![i] = off[i]]
    /\ UNCHANGED <<controlVars, ring, localVars, moduleVars,
                   i_result, sem_job, sem_result, childVars>>

PostJob(i) ==
    /\ Goto(i, "post_job", "wait_result") \/ Goto(i, "stop_post_job", "stop_wait_result")
    /\ Post(sem_job, i)
    /\ UNCHANGED <<controlVars, ring, localVars, moduleVars,
                   i_cmd, i_offs, i_result, sem_result, childVars>>

\* Mutant: a thread that goes on without waiting for its child.
WaitResultUnguarded(i) ==
    /\ \/ Goto(i, "wait_result", IF i = 0 THEN "wait_next" ELSE "test_result")
       \/ Goto(i, "stop_wait_result", "done")
    /\ UNCHANGED <<controlVars, ring, localVars, moduleVars, infoVars, childVars>>

\* The source does not look at the child's result, a processor does.
WaitResult(i) ==
    /\ \/ Goto(i, "wait_result", IF i = 0 THEN "wait_next" ELSE "test_result")
       \/ Goto(i, "stop_wait_result", "done")
    /\ Wait(sem_result, i)
    /\ UNCHANGED <<controlVars, ring, localVars, moduleVars,
                   i_cmd, i_offs, i_result, sem_job, childVars>>

\* Mutant: a thread that fills the next module's slot without waiting for it.
WaitNextUnguarded(i) ==
    /\ \/ Goto(i, "wait_next", "set_next")
       \/ Goto(i, "stop_wait_next", "stop_set_next")
    /\ UNCHANGED <<controlVars, ring, localVars, moduleVars, infoVars, childVars>>

\* Wait until the next module's slot is free, fill it, announce it.
WaitNext(i) ==
    /\ \/ Goto(i, "wait_next", "set_next")
       \/ Goto(i, "stop_wait_next", "stop_set_next")
    /\ Wait(result, i + 1)
    /\ UNCHANGED <<controlVars, ring, localVars, m_cmd, m_off, new_cmd, infoVars, childVars>>

\* Mutant: the offset is not handed on.
SetNextNoOffset(i) ==
    /\ \/ /\ Goto(i, "set_next", "post_next")
          /\ m_cmd' = [m_cmd EXCEPT ![i + 1] = PROCESS_CMD_JOB]
       \/ /\ Goto(i, "stop_set_next", "stop_post_next")
          /\ m_cmd' = [m_cmd EXCEPT ![i + 1] = PROCESS_CMD_STOP]
    /\ UNCHANGED <<controlVars, ring, localVars, m_off, new_cmd, result, infoVars, childVars>>

SetNext(i) ==
    /\ \/ /\ Goto(i, "set_next", "post_next")
          /\ m_cmd' = [m_cmd EXCEPT ![i + 1] = PROCESS_CMD_JOB]
          /\ m_off' = [m_off EXCEPT ![i + 1] = off[i]]
       \/ /\ Goto(i, "stop_set_next", "stop_post_next")
          /\ m_cmd' = [m_cmd EXCEPT ![i + 1] = PROCESS_CMD_STOP]
          /\ UNCHANGED m_off
    /\ UNCHANGED <<controlVars, ring, localVars, new_cmd, result, infoVars, childVars>>

PostNext(i) ==
    /\ \/ Goto(i, "post_next", IF i = 0 THEN "check_exit" ELSE "wait_cmd")
       \/ Goto(i, "stop_post_next", "stop_set_job")
    /\ Post(new_cmd, i + 1)
    /\ UNCHANGED <<controlVars, ring, localVars, m_cmd, m_off, result, infoVars, childVars>>

\* The last thing a thread does: stop its child and wait for it.
StopJob(i) ==
    /\ Goto(i, "stop_set_job", "stop_post_job")
    /\ i_cmd' = [i_cmd EXCEPT ![i] = PROCESS_CMD_STOP]
    /\ UNCHANGED <<controlVars, ring, localVars, moduleVars,
                   i_offs, i_result, sem_job, sem_result, childVars>>

\* Mutant: the slot is given back before it is read.
WaitCmdEarlyResult(i) ==
    /\ Goto(i, "wait_cmd", "read_cmd")
    /\ Wait(new_cmd, i)
    /\ Post(result, i)
    /\ UNCHANGED <<controlVars, ring, localVars, m_cmd, m_off, infoVars, childVars>>

\* Take a command out of the thread's own slot.
WaitCmd(i) ==
    /\ Goto(i, "wait_cmd", "read_cmd")
    /\ Wait(new_cmd, i)
    /\ UNCHANGED <<controlVars, ring, localVars, m_cmd, m_off, result, infoVars, childVars>>

ReadCmd(i) ==
    /\ Goto(i, "read_cmd", "post_slot")
    /\ cmd' = [cmd EXCEPT ![i] = m_cmd[i]]
    /\ off' = [off EXCEPT ![i] = m_off[i]]
    /\ UNCHANGED <<controlVars, ring, moduleVars, infoVars, childVars>>

\* Mutant: a thread that looks at the exit flag instead of its command.
AfterCmdByFlag(i) ==
    IF exit_flag
    THEN IF i = Last THEN "done" ELSE "stop_wait_next"
    ELSE IF i = Last THEN "recycle" ELSE "set_job"

\* Where a command leads: at STOP the finalization is done, a processor
\* passes it on; a job goes to the child, or is printed and recycled.
AfterCmd(i) ==
    IF cmd[i] = PROCESS_CMD_STOP
    THEN IF i = Last THEN "done" ELSE "stop_wait_next"
    ELSE IF i = Last THEN "recycle" ELSE "set_job"

\* Mutant: the slot is not given back.
PostSlotNoPost(i) ==
    /\ Goto(i, "post_slot", AfterCmd(i))
    /\ UNCHANGED <<controlVars, ring, localVars, moduleVars, infoVars, childVars>>

PostSlot(i) ==
    /\ Goto(i, "post_slot", AfterCmd(i))
    /\ Post(result, i)
    /\ UNCHANGED <<controlVars, ring, localVars, m_cmd, m_off, new_cmd, infoVars, childVars>>

-----------------------------------------------------------------------------
(* source_thread                                                           *)
CheckExit ==
    /\ \/ /\ ~exit_flag
          /\ Goto(0, "check_exit", "pop")
          /\ cmd' = [cmd EXCEPT ![0] = m_cmd[0]]
       \/ /\ exit_flag
          /\ Goto(0, "check_exit", "stop_wait_next")
          /\ UNCHANGED cmd
    /\ UNCHANGED <<controlVars, ring, off, moduleVars, infoVars, childVars>>

ring_buffer_pop ==
    /\ Goto(0, "pop", "set_job")
    /\ ring # << >>
    /\ off' = [off EXCEPT ![0] = Head(ring)]
    /\ ring' = Tail(ring)
    /\ UNCHANGED <<controlVars, cmd, moduleVars, infoVars, childVars>>

Stopping(i) ==
    \/ WaitNext(i) \/ SetNext(i) \/ PostNext(i)
    \/ StopJob(i) \/ PostJob(i) \/ WaitResult(i)

source_thread ==
    process_start(0) \/ CheckExit \/ ring_buffer_pop \/ SetJob(0) \/ Stopping(0)

(* process_thread                                                          *)
TestResult(i) ==
    /\ Goto(i, "test_result", IF i_result[i] # 0 THEN "drop" ELSE "wait_next")
    /\ UNCHANGED <<controlVars, ring, localVars, moduleVars, infoVars, childVars>>

\* Mutant: a drop that also lets the data go on.
DropAndForward(i) ==
    /\ Goto(i, "drop", "wait_next")
    /\ ring_buffer_push(off[i])
    /\ UNCHANGED <<controlVars, localVars, moduleVars, infoVars, childVars>>

\* Mutant: a drop that forgets the buffer.
DropLeaks(i) ==
    /\ Goto(i, "drop", "wait_cmd")
    /\ UNCHANGED <<controlVars, ring, localVars, moduleVars, infoVars, childVars>>

Drop(i) ==
    /\ Goto(i, "drop", "wait_cmd")
    /\ ring_buffer_push(off[i])
    /\ UNCHANGED <<controlVars, localVars, moduleVars, infoVars, childVars>>

process_thread(i) ==
    \/ process_start(i) \/ WaitCmd(i) \/ ReadCmd(i) \/ PostSlot(i)
    \/ SetJob(i) \/ TestResult(i) \/ Drop(i) \/ Stopping(i)

(* finalization_thread                                                     *)
Recycle ==
    /\ Goto(Last, "recycle", "wait_cmd")
    /\ ring_buffer_push(off[Last])
    /\ UNCHANGED <<controlVars, localVars, moduleVars, infoVars, childVars>>

finalization_thread == WaitCmd(Last) \/ ReadCmd(Last) \/ PostSlot(Last) \/ Recycle

-----------------------------------------------------------------------------
(* pipeline_process, the loop of a child (pipeline_client.c).              *)
ChildGoto(i, from, to) ==
    /\ cpc[i] = from
    /\ cpc' = [cpc EXCEPT ![i] = to]

ChildWait(i) ==
    /\ ChildGoto(i, "wait", "read")
    /\ Wait(sem_job, i)
    /\ UNCHANGED <<controlVars, ring, pc, localVars, moduleVars,
                   i_cmd, i_offs, i_result, sem_result, data, failed>>

ChildRead(i) ==
    /\ \/ /\ i_cmd[i] = PROCESS_CMD_STOP
          /\ ChildGoto(i, "read", "last_post")
          /\ i_result' = [i_result EXCEPT ![i] = 0]
          /\ UNCHANGED data
       \/ /\ i_cmd[i] # PROCESS_CMD_STOP
          /\ ChildGoto(i, "read", "act")
          /\ data' = [data EXCEPT ![i] = i_offs[i]]
          /\ UNCHANGED i_result
    /\ UNCHANGED <<controlVars, ring, pc, localVars, moduleVars,
                   i_cmd, i_offs, sem_job, sem_result, failed>>

\* pipeline_action works on the data; status -1 makes the child exit after
\* it has reported success.
ChildAct(i, status) ==
    /\ ChildGoto(i, "act", IF status = -1 THEN "last_post" ELSE "post")
    /\ i_result' = [i_result EXCEPT ![i] = IF status = -1 THEN 0 ELSE status]
    /\ failed' = IF status = -1 THEN failed \cup {i} ELSE failed
    /\ UNCHANGED <<controlVars, ring, pc, localVars, moduleVars,
                   i_cmd, i_offs, sem_job, sem_result, data>>

ChildPost(i) ==
    /\ ChildGoto(i, "post", "wait") \/ ChildGoto(i, "last_post", "exited")
    /\ Post(sem_result, i)
    /\ UNCHANGED <<controlVars, ring, pc, localVars, moduleVars,
                   i_cmd, i_offs, i_result, sem_job, data, failed>>

pipeline_process(i) ==
    \/ ChildWait(i) \/ ChildRead(i) \/ ChildPost(i)
    \/ \E status \in Statuses : ChildAct(i, status)

\* A child killed by a signal or a fault: it never posts sem_result again.
ChildDies(i) ==
    /\ i \in Mortal
    /\ cpc[i] \in {"wait", "read", "act", "post", "last_post"}
    /\ cpc' = [cpc EXCEPT ![i] = "exited"]
    /\ failed' = failed \cup {i}
    /\ UNCHANGED <<controlVars, ring, pc, localVars, moduleVars, infoVars, data>>

-----------------------------------------------------------------------------
ModuleThread(i) ==
    \/ i = 0 /\ source_thread
    \/ i \in 1 .. Last - 1 /\ process_thread(i)
    \/ i = Last /\ finalization_thread

Next ==
    \/ pipeline_thread \/ RaiseExitFlag \/ DestroyMemory
    \/ \E i \in Modules : ModuleThread(i)
    \/ \E i \in Workers : pipeline_process(i) \/ ChildDies(i)

(* The threads and processes are scheduled by the kernel; each semaphore,  *)
(* and the ring, has a single waiter, so weak fairness per thread is what  *)
(* the scheduler gives.  A child's action ends: the components read a line *)
(* or scan a buffer.  Nobody is obliged to call pipeline_destroy.          *)
Fairness ==
    /\ WF_vars(pipeline_thread)
    /\ WF_vars(DestroyMemory)
    /\ \A i \in Modules : WF_vars(ModuleThread(i))
    /\ \A i \in Workers : WF_vars(pipeline_process(i))

Spec == Init /\ [][Next]_vars /\ Fairness
-----------------------------------------------------------------------------
JobLabels == {"start", "check_exit", "pop", "set_job", "post_job", "wait_result",
              "test_result", "drop", "wait_next", "set_next", "post_next",
              "wait_cmd", "read_cmd", "post_slot", "recycle"}
StopLabels == {"stop_wait_next", "stop_set_next", "stop_post_next", "stop_set_job",
               "stop_post_job", "stop_wait_result", "done"}
Labels == {"none"} \cup JobLabels \cup StopLabels
ChildLabels == {"none", "wait", "read", "act", "post", "last_post", "exited"}

TypeOK ==
    /\ exit_flag \in BOOLEAN
    /\ main \in {"running", "join", "unmapped"}
    /\ pt \in {"setup", "join", "ring_destroyed", "exited"}
    /\ ring \in Seq(Offsets)
    /\ pc \in [Modules -> Labels]
    /\ cmd \in [Modules -> Cmds]
    /\ off \in [Modules -> Offsets \cup {NoOffset}]
    /\ m_cmd \in [Modules -> Cmds]
    /\ m_off \in [Modules -> Offsets \cup {NoOffset}]
    /\ new_cmd \in [Modules -> Nat]
    /\ result \in [Modules -> Nat]
    /\ i_cmd \in [Workers -> Cmds]
    /\ i_offs \in [Workers -> Offsets \cup {NoOffset}]
    /\ i_result \in [Workers -> Int]
    /\ sem_job \in [Workers -> Nat]
    /\ sem_result \in [Workers -> Nat]
    /\ cpc \in [Workers -> ChildLabels]
    /\ data \in [Workers -> Offsets \cup {NoOffset}]
    /\ failed \subseteq Workers

(* Where a buffer is: in the ring, in the hands of thread i (and of its    *)
(* child, while the thread waits for it), or in module i's slot.           *)
InRing(o) == \E k \in 1 .. Len(ring) : ring[k] = o

Holding(i) ==
    \/ pc[i] \in {"set_job", "post_job", "wait_result", "test_result", "drop",
                  "wait_next", "set_next", "post_next", "recycle"}
    \/ pc[i] = "post_slot" /\ cmd[i] # PROCESS_CMD_STOP

SlotFull(i) ==
    /\ new_cmd[i] > 0 \/ pc[i] = "read_cmd"
    /\ m_cmd[i] # PROCESS_CMD_STOP

\* A thread writes the next module's slot only when the command before it has
\* been taken out: no command or buffer is overwritten, none is read half
\* written.
NoCommandOverwritten ==
    \A i \in Receivers :
        pc[i - 1] \in {"set_next", "stop_set_next"} =>
            new_cmd[i] = 0 /\ pc[i] # "read_cmd"

\* A thread touches its child's process_info only while the child does not:
\* neither has a job, or a result, that the other has not seen.
ProcessInfoExclusive ==
    \A i \in Workers :
        pc[i] \in {"set_job", "stop_set_job", "test_result"} =>
            /\ sem_job[i] = 0 /\ sem_result[i] = 0
            /\ cpc[i] \notin {"read", "act", "post", "last_post"}

\* No buffer is in two places: two threads, a thread and the ring, a slot and
\* a thread, or twice in the ring.
OneOwner ==
    /\ \A j, k \in 1 .. Len(ring) : ring[j] = ring[k] => j = k
    /\ \A i \in Modules : Holding(i) => ~InRing(off[i])
    /\ \A i \in Receivers : SlotFull(i) => ~InRing(m_off[i])
    /\ \A i, j \in Modules :
          i # j /\ Holding(i) /\ Holding(j) => off[i] # off[j]
    /\ \A i, j \in Receivers :
          i # j /\ SlotFull(i) /\ SlotFull(j) => m_off[i] # m_off[j]
    /\ \A i \in Modules, j \in Receivers :
          Holding(i) /\ SlotFull(j) => off[i] # m_off[j]

\* No buffer is lost: dropped data, data in flight at the stop command, data
\* of a dead child are all still in some place.
NoLeak ==
    pt # "setup" => \A o \in Offsets :
        \/ InRing(o)
        \/ \E i \in Modules : Holding(i) /\ off[i] = o
        \/ \E i \in Receivers : SlotFull(i) /\ m_off[i] = o

\* A child works on the buffer its own thread holds and waits for: with
\* OneOwner, no two processes ever work on the same shared memory.
ChildWorksOnOwnBuffer ==
    \A i \in Workers :
        cpc[i] = "act" =>
            /\ pc[i] = "wait_result"
            /\ data[i] = off[i]
            /\ data[i] \in Offsets

\* ring_buffer_push has no overflow check: "should not happen".
NoRingOverflow ==
    \A i \in Modules : pc[i] \in {"drop", "recycle"} => Len(ring) < DataCnt

\* The stop command does not overtake data: once a module has it, no module
\* before it holds a buffer and no slot up to it is full.
StopIsLast ==
    \A i \in Receivers : pc[i] \in StopLabels =>
        \A j \in Modules : j < i => ~Holding(j) /\ ~SlotFull(j + 1)

\* When the ring and the process table are destroyed every buffer is back in
\* the ring and every child has left its loop: none will use a semaphore again.
CleanShutdown ==
    pt \in {"ring_destroyed", "exited"} =>
        /\ Len(ring) = DataCnt
        /\ \A i \in Workers : cpc[i] = "exited"

\* pipeline_destroy returns, unless a child went without being stopped.
ShutdownCompletes ==
    [](failed = {}) => (exit_flag ~> main = "unmapped")

\* Every buffer comes back to the ring, unless a child went without being
\* stopped: the source never waits for a free buffer for ever.
BuffersComeBack ==
    [](failed = {}) =>
        \A o \in Offsets : (pt = "join" /\ ~InRing(o)) ~> InRing(o)
=============================================================================
