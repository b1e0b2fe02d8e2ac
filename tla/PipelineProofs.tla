--------------------------- MODULE PipelineProofs ---------------------------
(***************************************************************************)
(* The safety properties of Pipeline, for every number of modules and of   *)
(* buffers, whatever statuses the children return and whichever of them    *)
(* die.  The inductive invariant says who owns each semaphore token:       *)
(*   SlotToken   the slot of a module is free, full, being written by the  *)
(*               module before it or being read by its own thread;         *)
(*   JobToken    a job, a working child or a result exists only while the  *)
(*               thread waits for it, and at most one of them;             *)
(*   Handover    what was written under a token is what will be read.      *)
(* From it follow the ownership of the buffers, the clean shutdown and the *)
(* refinement of Conveyor, in the second, third and fourth part.  Model    *)
(* inherits the last two.                                                  *)
(***************************************************************************)
EXTENDS Model, FiniteSetTheorems, SequenceTheorems, WellFoundedInduction, TLAPS

Writing(i) == pc[i - 1] \in {"set_next", "post_next", "stop_set_next", "stop_post_next"}
Reading(i) == pc[i] \in {"read_cmd", "post_slot"}

\* The tokens of slot r, of process w; what thread i is about to hand over.
SlotTokenAt(r) ==
    new_cmd[r] + result[r] + (IF Writing(r) THEN 1 ELSE 0) + (IF Reading(r) THEN 1 ELSE 0)
    = (IF pt = "setup" THEN 0 ELSE 1)

JobTokenAt(w) ==
    sem_job[w] + sem_result[w]
        + (IF cpc[w] \in {"read", "act", "post", "last_post"} THEN 1 ELSE 0)
    <= (IF pc[w] \in {"wait_result", "stop_wait_result"} THEN 1 ELSE 0)

HoldsOffset(i) == Holding(i) => off[i] \in Offsets

HandoverSlot(r) ==
    /\ SlotFull(r) => m_off[r] \in Offsets
    /\ pc[r - 1] = "post_next" => m_cmd[r] = PROCESS_CMD_JOB /\ m_off[r] = off[r - 1]
    /\ pc[r - 1] = "stop_post_next" => m_cmd[r] = PROCESS_CMD_STOP

HandoverJob(w) ==
    /\ pc[w] \in {"post_job", "wait_result"} => i_offs[w] = off[w]
    /\ pc[w] \in {"stop_post_job", "stop_wait_result"} => i_cmd[w] = PROCESS_CMD_STOP

ChildWorks(w) ==
    cpc[w] = "act" => pc[w] = "wait_result" /\ data[w] = off[w] /\ data[w] \in Offsets

SlotToken == \A r \in Receivers : SlotTokenAt(r)
JobToken == \A w \in Workers : JobTokenAt(w)
Handover ==
    /\ \A i \in Modules : HoldsOffset(i)
    /\ \A r \in Receivers : HandoverSlot(r)
    /\ \A w \in Workers : HandoverJob(w)

\* Nothing runs before the set-up, and each label belongs to its kind of module.
Places ==
    /\ pt = "setup" => ring = << >> /\ \A i \in Modules : pc[i] = "none"
    /\ pc[0] \notin {"wait_cmd", "read_cmd", "post_slot", "test_result", "drop", "recycle"}
    /\ pc[Last] \in {"none", "wait_cmd", "read_cmd", "post_slot", "recycle", "done"}

IInv ==
    TypeOK /\ Places /\ SlotToken /\ JobToken /\ Handover /\ ChildWorksOnOwnBuffer

-----------------------------------------------------------------------------
\* Every step is one of these: Next with the module indices spelled out.
ControlStep ==
    PipelineJoined \/ SubsystemDestroy \/ RaiseExitFlag \/ DestroyMemory

WorkerStep(i) ==
    \/ process_start(i) \/ SetJob(i) \/ PostJob(i) \/ WaitResult(i)
    \/ WaitNext(i) \/ SetNext(i) \/ PostNext(i) \/ StopJob(i)

ReceiverStep(i) == WaitCmd(i) \/ ReadCmd(i) \/ PostSlot(i)

ChildStep(i) ==
    \/ ChildWait(i) \/ ChildRead(i) \/ ChildPost(i) \/ ChildDies(i)
    \/ \E status \in Statuses : ChildAct(i, status)

\* The steps of the pipeline, by who takes them.
LEMMA StepCases ==
    ASSUME [Next]_vars
    PROVE  \/ PipelineSetup \/ ControlStep \/ CheckExit \/ ring_buffer_pop \/ Recycle
           \/ \E i \in Workers : WorkerStep(i)
           \/ \E i \in Receivers : ReceiverStep(i)
           \/ \E i \in 1 .. Last - 1 : TestResult(i) \/ Drop(i)
           \/ \E i \in Workers : ChildStep(i)
           \/ UNCHANGED vars
<1> USE PipelineAssumption DEF Modules, Workers, Receivers
<1>1. ASSUME NEW i \in Modules, ModuleThread(i)
      PROVE  \/ CheckExit \/ ring_buffer_pop \/ Recycle
             \/ \E j \in Workers : WorkerStep(j)
             \/ \E j \in Receivers : ReceiverStep(j)
             \/ \E j \in 1 .. Last - 1 : TestResult(j) \/ Drop(j)
  <2>1. CASE i = 0 /\ source_thread
    BY <2>1, 0 \in Workers DEF source_thread, Stopping, WorkerStep
  <2>2. CASE i \in 1 .. Last - 1 /\ process_thread(i)
    BY <2>2, i \in Workers, i \in Receivers
       DEF process_thread, Stopping, WorkerStep, ReceiverStep
  <2>3. CASE i = Last /\ finalization_thread
    BY <2>3, Last \in Receivers DEF finalization_thread, ReceiverStep
  <2> QED BY <1>1, <2>1, <2>2, <2>3 DEF ModuleThread
<1>2. ASSUME NEW i \in Workers, pipeline_process(i) \/ ChildDies(i)
      PROVE  ChildStep(i)
  BY <1>2 DEF pipeline_process, ChildStep
<1> QED BY <1>1, <1>2 DEF Next, pipeline_thread, ControlStep

\* Neighbours in the chain of modules.
LEMMA Indices ==
    /\ Workers \subseteq Modules /\ Receivers \subseteq Modules
    /\ 0 \in Workers /\ Last \in Receivers
    /\ \A i \in Workers : i + 1 \in Receivers /\ i # Last /\ i \in Int
    /\ \A i \in Receivers : i - 1 \in Workers /\ i # 0 /\ i \in Int
    /\ 1 .. Last - 1 \subseteq Workers /\ 1 .. Last - 1 \subseteq Receivers
BY PipelineAssumption DEF Modules, Workers, Receivers

\* The tokens before the set-up.
LEMMA InitInv == Init => IInv
<1> SUFFICES ASSUME Init PROVE IInv
  OBVIOUS
<1> USE PipelineAssumption, Indices DEF Init
<1>1. TypeOK
  <2>1. m_cmd \in [Modules -> Cmds]
    BY DEF Cmds
  <2>2. ring \in Seq(Offsets)
    OBVIOUS
  <2>3. PROCESS_CMD_JOB \in Cmds /\ PROCESS_CMD_STOP \in Cmds
    BY DEF Cmds
  <2> QED BY <2>1, <2>2, <2>3 DEF TypeOK, Labels, ChildLabels
<1>2. Places
  BY DEF Places
<1>3. SlotToken
  BY DEF SlotToken, SlotTokenAt, Writing, Reading
<1>4. JobToken
  BY DEF JobToken, JobTokenAt
<1>5. Handover
  BY DEF Handover, HoldsOffset, HandoverSlot, HandoverJob, Holding, SlotFull
<1>6. ChildWorksOnOwnBuffer
  BY DEF ChildWorksOnOwnBuffer
<1> QED BY <1>1, <1>2, <1>3, <1>4, <1>5, <1>6 DEF IInv

-----------------------------------------------------------------------------
\* Types are preserved: what is pushed to the ring is an offset (Handover).
LEMMA TypeStep == IInv /\ [Next]_vars => TypeOK'
<1> SUFFICES ASSUME IInv, [Next]_vars PROVE TypeOK'
  OBVIOUS
<1> USE PipelineAssumption
    DEF IInv, TypeOK, Goto, Wait, Post, ChildGoto,
        controlVars, localVars, moduleVars, infoVars, childVars
<1>1. CASE PipelineSetup
  <2>1. pt' \in {"setup", "join", "ring_destroyed", "exited"}
    BY <1>1 DEF PipelineSetup
  <2>2. ring' \in Seq(Offsets)
    BY <1>1 DEF PipelineSetup, Offsets
  <2>3. new_cmd' \in [Modules -> Nat]
    BY <1>1 DEF PipelineSetup
  <2>4. result' \in [Modules -> Nat]
    BY <1>1 DEF PipelineSetup
  <2>5. pc' \in [Modules -> Labels]
    BY <1>1 DEF PipelineSetup, Labels, JobLabels, StopLabels
  <2> QED BY <1>1, <2>1, <2>2, <2>3, <2>4, <2>5 DEF PipelineSetup
<1>2. CASE ControlStep
  <2>1. exit_flag' \in BOOLEAN
    BY <1>2 DEF ControlStep, PipelineJoined, SubsystemDestroy, RaiseExitFlag, DestroyMemory
  <2>2. main' \in {"running", "join", "unmapped"}
    BY <1>2 DEF ControlStep, PipelineJoined, SubsystemDestroy, RaiseExitFlag, DestroyMemory
  <2>3. pt' \in {"setup", "join", "ring_destroyed", "exited"}
    BY <1>2 DEF ControlStep, PipelineJoined, SubsystemDestroy, RaiseExitFlag, DestroyMemory
  <2> QED BY <1>2, <2>1, <2>2, <2>3 DEF ControlStep, PipelineJoined, SubsystemDestroy, RaiseExitFlag, DestroyMemory
<1>3. CASE CheckExit
  <2>0. 0 \in Modules /\ Last \in Modules
    BY Indices
  <2>1. pc' \in [Modules -> Labels]
    BY <1>3, <2>0 DEF CheckExit, Labels, JobLabels, StopLabels
  <2>2. cmd' \in [Modules -> Cmds]
    BY <1>3, <2>0 DEF CheckExit
  <2> QED BY <1>3, <2>1, <2>2 DEF CheckExit
<1>4. CASE ring_buffer_pop
  <2>0. 0 \in Modules /\ Last \in Modules
    BY Indices
  <2>1. pc' \in [Modules -> Labels]
    BY <1>4, <2>0 DEF ring_buffer_pop, Labels, JobLabels, StopLabels
  <2>2. off' \in [Modules -> Offsets \cup {NoOffset}]
    BY <1>4, <2>0 DEF ring_buffer_pop
  <2>3. ring' \in Seq(Offsets)
    BY <1>4, <2>0 DEF ring_buffer_pop
  <2> QED BY <1>4, <2>1, <2>2, <2>3 DEF ring_buffer_pop
<1>5. CASE Recycle
  <2>0. 0 \in Modules /\ Last \in Modules
    BY Indices
  <2>1. pc' \in [Modules -> Labels]
    BY <1>5, <2>0 DEF Recycle, ring_buffer_push, Labels, JobLabels, StopLabels
  <2>2. ring' \in Seq(Offsets)
    BY <1>5, <2>0 DEF Recycle, ring_buffer_push, Handover, HoldsOffset, Holding
  <2> QED BY <1>5, <2>1, <2>2 DEF Recycle, ring_buffer_push
<1>6. ASSUME NEW i \in Workers, process_start(i) PROVE TypeOK'
  <2>0. i \in Modules /\ i + 1 \in Modules /\ i + 1 \in Receivers /\ i # Last
    BY Indices
  <2>1. pc' \in [Modules -> Labels]
    BY <1>6, <2>0 DEF process_start, Labels, JobLabels, StopLabels
  <2>2. cpc' \in [Workers -> ChildLabels]
    BY <1>6, <2>0 DEF process_start, ChildLabels
  <2> QED BY <1>6, <2>1, <2>2 DEF process_start
<1>7. ASSUME NEW i \in Workers, SetJob(i) PROVE TypeOK'
  <2>0. i \in Modules /\ i + 1 \in Modules /\ i + 1 \in Receivers /\ i # Last
    BY Indices
  <2>1. pc' \in [Modules -> Labels]
    BY <1>7, <2>0 DEF SetJob, Labels, JobLabels, StopLabels
  <2>2. i_cmd' \in [Workers -> Cmds]
    BY <1>7, <2>0 DEF SetJob, Cmds
  <2>3. i_offs' \in [Workers -> Offsets \cup {NoOffset}]
    BY <1>7, <2>0 DEF SetJob
  <2> QED BY <1>7, <2>1, <2>2, <2>3 DEF SetJob
<1>8. ASSUME NEW i \in Workers, PostJob(i) PROVE TypeOK'
  <2>0. i \in Modules /\ i + 1 \in Modules /\ i + 1 \in Receivers /\ i # Last
    BY Indices
  <2>1. pc' \in [Modules -> Labels]
    BY <1>8, <2>0 DEF PostJob, Labels, JobLabels, StopLabels
  <2>2. sem_job' \in [Workers -> Nat]
    BY <1>8, <2>0 DEF PostJob
  <2> QED BY <1>8, <2>1, <2>2 DEF PostJob
<1>9. ASSUME NEW i \in Workers, WaitResult(i) PROVE TypeOK'
  <2>0. i \in Modules /\ i + 1 \in Modules /\ i + 1 \in Receivers /\ i # Last
    BY Indices
  <2>1. pc' \in [Modules -> Labels]
    BY <1>9, <2>0 DEF WaitResult, Labels, JobLabels, StopLabels
  <2>2. sem_result' \in [Workers -> Nat]
    BY <1>9, <2>0 DEF WaitResult
  <2> QED BY <1>9, <2>1, <2>2 DEF WaitResult
<1>10. ASSUME NEW i \in Workers, WaitNext(i) PROVE TypeOK'
  <2>0. i \in Modules /\ i + 1 \in Modules /\ i + 1 \in Receivers /\ i # Last
    BY Indices
  <2>1. pc' \in [Modules -> Labels]
    BY <1>10, <2>0 DEF WaitNext, Labels, JobLabels, StopLabels
  <2>2. result' \in [Modules -> Nat]
    BY <1>10, <2>0 DEF WaitNext
  <2> QED BY <1>10, <2>1, <2>2 DEF WaitNext
<1>11. ASSUME NEW i \in Workers, SetNext(i) PROVE TypeOK'
  <2>0. i \in Modules /\ i + 1 \in Modules /\ i + 1 \in Receivers /\ i # Last
    BY Indices
  <2>1. pc' \in [Modules -> Labels]
    BY <1>11, <2>0 DEF SetNext, Labels, JobLabels, StopLabels
  <2>2. m_cmd' \in [Modules -> Cmds]
    BY <1>11, <2>0 DEF SetNext, Cmds
  <2>3. m_off' \in [Modules -> Offsets \cup {NoOffset}]
    BY <1>11, <2>0 DEF SetNext
  <2> QED BY <1>11, <2>1, <2>2, <2>3 DEF SetNext
<1>12. ASSUME NEW i \in Workers, PostNext(i) PROVE TypeOK'
  <2>0. i \in Modules /\ i + 1 \in Modules /\ i + 1 \in Receivers /\ i # Last
    BY Indices
  <2>1. pc' \in [Modules -> Labels]
    BY <1>12, <2>0 DEF PostNext, Labels, JobLabels, StopLabels
  <2>2. new_cmd' \in [Modules -> Nat]
    BY <1>12, <2>0 DEF PostNext
  <2> QED BY <1>12, <2>1, <2>2 DEF PostNext
<1>13. ASSUME NEW i \in Workers, StopJob(i) PROVE TypeOK'
  <2>0. i \in Modules /\ i + 1 \in Modules /\ i + 1 \in Receivers /\ i # Last
    BY Indices
  <2>1. pc' \in [Modules -> Labels]
    BY <1>13, <2>0 DEF StopJob, Labels, JobLabels, StopLabels
  <2>2. i_cmd' \in [Workers -> Cmds]
    BY <1>13, <2>0 DEF StopJob, Cmds
  <2> QED BY <1>13, <2>1, <2>2 DEF StopJob
<1>14. ASSUME NEW i \in Receivers, WaitCmd(i) PROVE TypeOK'
  <2>0. i \in Modules /\ i - 1 \in Modules /\ i - 1 \in Workers /\ i # 0
    BY Indices
  <2>1. pc' \in [Modules -> Labels]
    BY <1>14, <2>0 DEF WaitCmd, Labels, JobLabels, StopLabels
  <2>2. new_cmd' \in [Modules -> Nat]
    BY <1>14, <2>0 DEF WaitCmd
  <2> QED BY <1>14, <2>1, <2>2 DEF WaitCmd
<1>15. ASSUME NEW i \in Receivers, ReadCmd(i) PROVE TypeOK'
  <2>0. i \in Modules /\ i - 1 \in Modules /\ i - 1 \in Workers /\ i # 0
    BY Indices
  <2>1. pc' \in [Modules -> Labels]
    BY <1>15, <2>0 DEF ReadCmd, Labels, JobLabels, StopLabels
  <2>2. cmd' \in [Modules -> Cmds]
    BY <1>15, <2>0 DEF ReadCmd
  <2>3. off' \in [Modules -> Offsets \cup {NoOffset}]
    BY <1>15, <2>0 DEF ReadCmd
  <2> QED BY <1>15, <2>1, <2>2, <2>3 DEF ReadCmd
<1>16. ASSUME NEW i \in Receivers, PostSlot(i) PROVE TypeOK'
  <2>0. i \in Modules /\ i - 1 \in Modules /\ i - 1 \in Workers /\ i # 0
    BY Indices
  <2>1. pc' \in [Modules -> Labels]
    BY <1>16, <2>0 DEF PostSlot, AfterCmd, Labels, JobLabels, StopLabels
  <2>2. result' \in [Modules -> Nat]
    BY <1>16, <2>0 DEF PostSlot, AfterCmd
  <2> QED BY <1>16, <2>1, <2>2 DEF PostSlot, AfterCmd
<1>17. ASSUME NEW i \in 1 .. Last - 1, TestResult(i) PROVE TypeOK'
  <2>0. i \in Modules /\ i \in Workers /\ i # 0 /\ i # Last
    BY Indices
  <2>1. pc' \in [Modules -> Labels]
    BY <1>17, <2>0 DEF TestResult, Labels, JobLabels, StopLabels
  <2> QED BY <1>17, <2>1 DEF TestResult
<1>18. ASSUME NEW i \in 1 .. Last - 1, Drop(i) PROVE TypeOK'
  <2>0. i \in Modules /\ i \in Workers /\ i # 0 /\ i # Last
    BY Indices
  <2>1. pc' \in [Modules -> Labels]
    BY <1>18, <2>0 DEF Drop, ring_buffer_push, Labels, JobLabels, StopLabels
  <2>2. ring' \in Seq(Offsets)
    BY <1>18, <2>0 DEF Drop, ring_buffer_push, Handover, HoldsOffset, Holding
  <2> QED BY <1>18, <2>1, <2>2 DEF Drop, ring_buffer_push
<1>19. ASSUME NEW i \in Workers, ChildWait(i) PROVE TypeOK'
  <2>0. i \in Modules /\ i + 1 \in Modules /\ i + 1 \in Receivers /\ i # Last
    BY Indices
  <2>1. cpc' \in [Workers -> ChildLabels]
    BY <1>19, <2>0 DEF ChildWait, ChildLabels
  <2>2. sem_job' \in [Workers -> Nat]
    BY <1>19, <2>0 DEF ChildWait
  <2> QED BY <1>19, <2>1, <2>2 DEF ChildWait
<1>20. ASSUME NEW i \in Workers, ChildRead(i) PROVE TypeOK'
  <2>0. i \in Modules /\ i + 1 \in Modules /\ i + 1 \in Receivers /\ i # Last
    BY Indices
  <2>1. cpc' \in [Workers -> ChildLabels]
    BY <1>20, <2>0 DEF ChildRead, ChildLabels
  <2>2. i_result' \in [Workers -> Int]
    BY <1>20, <2>0 DEF ChildRead
  <2>3. data' \in [Workers -> Offsets \cup {NoOffset}]
    BY <1>20, <2>0 DEF ChildRead
  <2> QED BY <1>20, <2>1, <2>2, <2>3 DEF ChildRead
<1>21. ASSUME NEW i \in Workers, ChildPost(i) PROVE TypeOK'
  <2>0. i \in Modules /\ i + 1 \in Modules /\ i + 1 \in Receivers /\ i # Last
    BY Indices
  <2>1. cpc' \in [Workers -> ChildLabels]
    BY <1>21, <2>0 DEF ChildPost, ChildLabels
  <2>2. sem_result' \in [Workers -> Nat]
    BY <1>21, <2>0 DEF ChildPost
  <2> QED BY <1>21, <2>1, <2>2 DEF ChildPost
<1>22. ASSUME NEW i \in Workers, ChildDies(i) PROVE TypeOK'
  <2>0. i \in Modules /\ i + 1 \in Modules /\ i + 1 \in Receivers /\ i # Last
    BY Indices
  <2>1. cpc' \in [Workers -> ChildLabels]
    BY <1>22, <2>0 DEF ChildDies, ChildLabels
  <2>2. failed' \in SUBSET Workers
    BY <1>22, <2>0 DEF ChildDies
  <2> QED BY <1>22, <2>1, <2>2 DEF ChildDies
<1>23. ASSUME NEW i \in Workers, NEW status \in Statuses, ChildAct(i, status)
      PROVE  TypeOK'
  <2>0. i \in Modules /\ i + 1 \in Modules /\ i + 1 \in Receivers /\ i # Last
    BY Indices
  <2>1. cpc' \in [Workers -> ChildLabels]
    BY <1>23, <2>0 DEF ChildAct, ChildLabels
  <2>2. i_result' \in [Workers -> Int]
    BY <1>23, <2>0 DEF ChildAct
  <2>3. failed' \in SUBSET Workers
    BY <1>23, <2>0 DEF ChildAct
  <2> QED BY <1>23, <2>1, <2>2, <2>3 DEF ChildAct
<1>24. CASE UNCHANGED vars
  BY <1>24 DEF vars
<1> QED
  BY StepCases, <1>1, <1>2, <1>3, <1>4, <1>5, <1>6, <1>7, <1>8, <1>9, <1>10,
     <1>11, <1>12, <1>13, <1>14, <1>15, <1>16, <1>17, <1>18, <1>19, <1>20,
     <1>21, <1>22, <1>23, <1>24
     DEF WorkerStep, ReceiverStep, ChildStep

\* The token of a slot moves; it is neither lost nor doubled.
LEMMA SlotStep == IInv /\ [Next]_vars => SlotToken'
<1> SUFFICES ASSUME IInv, [Next]_vars, NEW r \in Receivers PROVE SlotTokenAt(r)'
  BY DEF SlotToken, Modules, Workers, Receivers
<1>a. /\ r \in Modules /\ r - 1 \in Modules /\ r - 1 \in Workers /\ r \in Int
      /\ new_cmd[r] \in Nat /\ result[r] \in Nat /\ SlotTokenAt(r)
      /\ pc[r] \in Labels /\ pc[r - 1] \in Labels /\ Places
  BY Indices DEF IInv, TypeOK, SlotToken
<1>b. /\ pc \in [Modules -> Labels] /\ new_cmd \in [Modules -> Nat] /\ result \in [Modules -> Nat]
      /\ \A i \in Modules : i \in Int
  BY PipelineAssumption DEF IInv, TypeOK, Modules
<1> USE <1>a, <1>b, Indices DEF SlotTokenAt, Writing, Reading, Goto, Wait, Post, ChildGoto,
        controlVars, localVars, moduleVars, infoVars, childVars
<1>1. CASE PipelineSetup
  BY <1>1 DEF PipelineSetup
<1>2. CASE ControlStep \/ UNCHANGED vars
  BY <1>2 DEF ControlStep, PipelineJoined, SubsystemDestroy, RaiseExitFlag,
     DestroyMemory, vars
<1>3. CASE CheckExit \/ ring_buffer_pop \/ Recycle
  BY <1>3 DEF CheckExit, ring_buffer_pop, Recycle, ring_buffer_push
<1>4. ASSUME NEW i \in Workers,
             process_start(i) \/ SetJob(i) \/ PostJob(i) \/ WaitResult(i) \/ StopJob(i)
      PROVE  SlotTokenAt(r)'
  BY <1>4 DEF process_start, SetJob, PostJob, WaitResult, StopJob
<1>5. ASSUME NEW i \in Workers, WaitNext(i) PROVE SlotTokenAt(r)'
  BY <1>5 DEF WaitNext
<1>6. ASSUME NEW i \in Workers, SetNext(i) PROVE SlotTokenAt(r)'
  BY <1>6 DEF SetNext
<1>7. ASSUME NEW i \in Workers, PostNext(i) PROVE SlotTokenAt(r)'
  BY <1>7 DEF PostNext
<1>8. ASSUME NEW i \in Receivers, WaitCmd(i) PROVE SlotTokenAt(r)'
  BY <1>8 DEF WaitCmd
<1>9. ASSUME NEW i \in Receivers, ReadCmd(i) PROVE SlotTokenAt(r)'
  BY <1>9 DEF ReadCmd
<1>10. ASSUME NEW i \in Receivers, PostSlot(i) PROVE SlotTokenAt(r)'
  BY <1>10 DEF PostSlot, AfterCmd
<1>11. ASSUME NEW i \in 1 .. Last - 1,
             TestResult(i) \/ Drop(i)
      PROVE  SlotTokenAt(r)'
  BY <1>11 DEF TestResult, Drop, ring_buffer_push
<1>12. ASSUME NEW i \in Workers,
             ChildWait(i) \/ ChildRead(i) \/ ChildPost(i) \/ ChildDies(i)
      PROVE  SlotTokenAt(r)'
  BY <1>12 DEF ChildWait, ChildRead, ChildPost, ChildDies
<1>13. ASSUME NEW i \in Workers, NEW status \in Statuses, ChildAct(i, status)
      PROVE  SlotTokenAt(r)'
  BY <1>13 DEF ChildAct
<1> QED
  BY StepCases, <1>1, <1>2, <1>3, <1>4, <1>5, <1>6, <1>7, <1>8, <1>9, <1>10,
     <1>11, <1>12, <1>13
     DEF WorkerStep, ReceiverStep, ChildStep

\* The token of a process is created by the thread that waits for it, moves
\* through the child, and is lost with it.
LEMMA JobStep == IInv /\ [Next]_vars => JobToken'
<1> SUFFICES ASSUME IInv, [Next]_vars, NEW w \in Workers PROVE JobTokenAt(w)'
  BY DEF JobToken, Modules, Workers, Receivers
<1>a. /\ w \in Modules /\ w # Last /\ w \in Int
      /\ sem_job[w] \in Nat /\ sem_result[w] \in Nat /\ JobTokenAt(w)
      /\ pc[w] \in Labels /\ cpc[w] \in ChildLabels /\ Places
  BY Indices DEF IInv, TypeOK, JobToken
<1>b. /\ pc \in [Modules -> Labels] /\ cpc \in [Workers -> ChildLabels]
      /\ sem_job \in [Workers -> Nat] /\ sem_result \in [Workers -> Nat]
  BY DEF IInv, TypeOK
<1> USE <1>a, <1>b, Indices DEF JobTokenAt, Goto, Wait, Post, ChildGoto,
        controlVars, localVars, moduleVars, infoVars, childVars
<1>1. CASE PipelineSetup
  BY <1>1 DEF PipelineSetup, Places
<1>2. CASE ControlStep \/ UNCHANGED vars
  BY <1>2 DEF ControlStep, PipelineJoined, SubsystemDestroy, RaiseExitFlag,
     DestroyMemory, vars
<1>3. CASE CheckExit \/ ring_buffer_pop \/ Recycle
  BY <1>3 DEF CheckExit, ring_buffer_pop, Recycle, ring_buffer_push
<1>4. ASSUME NEW i \in Workers, process_start(i) PROVE JobTokenAt(w)'
  BY <1>4 DEF process_start
<1>5. ASSUME NEW i \in Workers, PostJob(i) PROVE JobTokenAt(w)'
  BY <1>5 DEF PostJob
<1>6. ASSUME NEW i \in Workers, WaitResult(i) PROVE JobTokenAt(w)'
  BY <1>6 DEF WaitResult
<1>7. ASSUME NEW i \in Workers,
             SetJob(i) \/ WaitNext(i) \/ SetNext(i) \/ PostNext(i) \/ StopJob(i)
      PROVE  JobTokenAt(w)'
  BY <1>7 DEF SetJob, WaitNext, SetNext, PostNext, StopJob
<1>8. ASSUME NEW i \in Receivers,
             WaitCmd(i) \/ ReadCmd(i) \/ PostSlot(i)
      PROVE  JobTokenAt(w)'
  BY <1>8 DEF WaitCmd, ReadCmd, PostSlot, AfterCmd
<1>9. ASSUME NEW i \in 1 .. Last - 1,
             TestResult(i) \/ Drop(i)
      PROVE  JobTokenAt(w)'
  BY <1>9 DEF TestResult, Drop, ring_buffer_push
<1>10. ASSUME NEW i \in Workers, ChildWait(i) PROVE JobTokenAt(w)'
  BY <1>10 DEF ChildWait
<1>11. ASSUME NEW i \in Workers, ChildRead(i) PROVE JobTokenAt(w)'
  BY <1>11 DEF ChildRead
<1>12. ASSUME NEW i \in Workers, ChildPost(i) PROVE JobTokenAt(w)'
  BY <1>12 DEF ChildPost
<1>13. ASSUME NEW i \in Workers, ChildDies(i) PROVE JobTokenAt(w)'
  BY <1>13 DEF ChildDies
<1>14. ASSUME NEW i \in Workers, NEW status \in Statuses, ChildAct(i, status)
      PROVE  JobTokenAt(w)'
  BY <1>14 DEF ChildAct
<1> QED
  BY StepCases, <1>1, <1>2, <1>3, <1>4, <1>5, <1>6, <1>7, <1>8, <1>9, <1>10,
     <1>11, <1>12, <1>13, <1>14
     DEF WorkerStep, ReceiverStep, ChildStep

\* What the token says: a busy child, a job or a result excludes the others, and
\* its thread waits.
LEMMA JobOwner ==
    ASSUME IInv, NEW w \in Workers
    PROVE  /\ cpc[w] \in {"read", "act", "post", "last_post"} =>
                /\ pc[w] \in {"wait_result", "stop_wait_result"}
                /\ sem_job[w] = 0 /\ sem_result[w] = 0
           /\ sem_job[w] > 0 \/ sem_result[w] > 0 =>
                /\ pc[w] \in {"wait_result", "stop_wait_result"}
                /\ cpc[w] \notin {"read", "act", "post", "last_post"}
<1>1. sem_job[w] \in Nat /\ sem_result[w] \in Nat /\ JobTokenAt(w)
  BY DEF IInv, TypeOK, JobToken
<1> QED BY <1>1 DEF JobTokenAt

\* While a module writes the slot of the next, that one neither has a command nor reads.
LEMMA SlotOwner ==
    ASSUME IInv, NEW r \in Receivers
    PROVE  Writing(r) => new_cmd[r] = 0 /\ ~Reading(r)
<1>1. new_cmd[r] \in Nat /\ result[r] \in Nat /\ SlotTokenAt(r)
  BY Indices DEF IInv, TypeOK, SlotToken
<1> QED BY <1>1 DEF SlotTokenAt

\* Threads keep to their own labels.
LEMMA PlacesStep == IInv /\ [Next]_vars => Places'
<1> SUFFICES ASSUME IInv, [Next]_vars PROVE Places'
  OBVIOUS
<1>a. /\ pc \in [Modules -> Labels] /\ Places
      /\ Last \in Modules /\ 0 \in Modules /\ 0 # Last
  BY Indices DEF IInv, TypeOK
<1> USE <1>a, Indices DEF Places, Goto, Wait, Post, ChildGoto,
        controlVars, localVars, moduleVars, infoVars, childVars
<1>1. CASE PipelineSetup
  BY <1>1 DEF PipelineSetup
<1>2. CASE ControlStep \/ UNCHANGED vars
  BY <1>2 DEF ControlStep, PipelineJoined, SubsystemDestroy, RaiseExitFlag,
     DestroyMemory, vars
<1>3. CASE CheckExit
  BY <1>3 DEF CheckExit
<1>4. CASE ring_buffer_pop
  BY <1>4 DEF ring_buffer_pop
<1>5. CASE Recycle
  BY <1>5 DEF Recycle, ring_buffer_push
<1>6. ASSUME NEW i \in Workers,
             process_start(i) \/ SetJob(i) \/ PostJob(i) \/ WaitResult(i) \/ StopJob(i)
      PROVE  Places'
  BY <1>6 DEF process_start, SetJob, PostJob, WaitResult, StopJob
<1>7. ASSUME NEW i \in Workers,
             WaitNext(i) \/ SetNext(i) \/ PostNext(i)
      PROVE  Places'
  BY <1>7 DEF WaitNext, SetNext, PostNext
<1>8. ASSUME NEW i \in Receivers,
             WaitCmd(i) \/ ReadCmd(i) \/ PostSlot(i)
      PROVE  Places'
  BY <1>8 DEF WaitCmd, ReadCmd, PostSlot, AfterCmd
<1>9. ASSUME NEW i \in 1 .. Last - 1, TestResult(i) \/ Drop(i) PROVE Places'
  BY <1>9 DEF TestResult, Drop, ring_buffer_push
<1>10. ASSUME NEW i \in Workers,
             ChildWait(i) \/ ChildRead(i) \/ ChildPost(i) \/ ChildDies(i)
      PROVE  Places'
  BY <1>10 DEF ChildWait, ChildRead, ChildPost, ChildDies
<1>11. ASSUME NEW i \in Workers, NEW status \in Statuses, ChildAct(i, status)
      PROVE  Places'
  BY <1>11 DEF ChildAct
<1> QED
  BY StepCases, <1>1, <1>2, <1>3, <1>4, <1>5, <1>6, <1>7, <1>8, <1>9, <1>10,
     <1>11
     DEF WorkerStep, ReceiverStep, ChildStep

\* A thread past the pop, or past reading a job, holds an offset.
LEMMA HoldingStep == IInv /\ [Next]_vars => (\A i \in Modules : HoldsOffset(i))'
<1> SUFFICES ASSUME IInv, [Next]_vars, NEW j \in Modules PROVE HoldsOffset(j)'
  BY DEF Modules
<1>a. /\ pc \in [Modules -> Labels] /\ cmd \in [Modules -> Cmds]
      /\ off \in [Modules -> Offsets \cup {NoOffset}] /\ ring \in Seq(Offsets)
      /\ HoldsOffset(j) /\ j \in Int /\ PROCESS_CMD_STOP = 0
  BY PipelineAssumption DEF IInv, TypeOK, Handover, Modules, PROCESS_CMD_STOP
<1>b. \A r \in Receivers : SlotFull(r) => m_off[r] \in Offsets
  BY DEF IInv, Handover, HandoverSlot
<1> USE <1>a, Indices DEF HoldsOffset, Holding, Goto, Wait, Post, ChildGoto,
        controlVars, localVars, moduleVars, infoVars, childVars
<1>1. CASE PipelineSetup
  BY <1>1 DEF PipelineSetup
<1>2. CASE ControlStep \/ UNCHANGED vars
  BY <1>2 DEF ControlStep, PipelineJoined, SubsystemDestroy, RaiseExitFlag,
     DestroyMemory, vars
<1>3. CASE CheckExit
  BY <1>3 DEF CheckExit
<1>4. CASE ring_buffer_pop
  BY <1>4 DEF ring_buffer_pop
<1>5. CASE Recycle
  BY <1>5 DEF Recycle, ring_buffer_push
<1>6. ASSUME NEW i \in Workers,
             process_start(i) \/ SetJob(i) \/ PostJob(i) \/ WaitResult(i) \/ StopJob(i)
      PROVE  HoldsOffset(j)'
  BY <1>6 DEF process_start, SetJob, PostJob, WaitResult, StopJob
<1>7. ASSUME NEW i \in Workers,
             WaitNext(i) \/ SetNext(i) \/ PostNext(i)
      PROVE  HoldsOffset(j)'
  BY <1>7 DEF WaitNext, SetNext, PostNext
<1>8. ASSUME NEW i \in Receivers, WaitCmd(i) PROVE HoldsOffset(j)'
  BY <1>8 DEF WaitCmd
<1>9. ASSUME NEW i \in Receivers, ReadCmd(i) PROVE HoldsOffset(j)'
  BY <1>9, <1>b DEF ReadCmd, SlotFull
<1>10. ASSUME NEW i \in Receivers, PostSlot(i) PROVE HoldsOffset(j)'
  BY <1>10 DEF PostSlot, AfterCmd
<1>11. ASSUME NEW i \in 1 .. Last - 1,
             TestResult(i) \/ Drop(i)
      PROVE  HoldsOffset(j)'
  BY <1>11 DEF TestResult, Drop, ring_buffer_push
<1>12. ASSUME NEW i \in Workers,
             ChildWait(i) \/ ChildRead(i) \/ ChildPost(i) \/ ChildDies(i)
      PROVE  HoldsOffset(j)'
  BY <1>12 DEF ChildWait, ChildRead, ChildPost, ChildDies
<1>13. ASSUME NEW i \in Workers, NEW status \in Statuses, ChildAct(i, status)
      PROVE  HoldsOffset(j)'
  BY <1>13 DEF ChildAct
<1> QED
  BY StepCases, <1>1, <1>2, <1>3, <1>4, <1>5, <1>6, <1>7, <1>8, <1>9, <1>10,
     <1>11, <1>12, <1>13
     DEF WorkerStep, ReceiverStep, ChildStep

\* What is in a slot is what the thread before it put there.
LEMMA HandoverSlotStep == IInv /\ [Next]_vars => (\A r \in Receivers : HandoverSlot(r))'
<1> SUFFICES ASSUME IInv, [Next]_vars, NEW r \in Receivers PROVE HandoverSlot(r)'
  BY DEF Receivers
<1>a. /\ r \in Modules /\ r - 1 \in Modules /\ r - 1 \in Workers /\ r \in Int
      /\ new_cmd[r] \in Nat /\ result[r] \in Nat
      /\ SlotTokenAt(r) /\ HandoverSlot(r) /\ HoldsOffset(r - 1) /\ Places
  BY Indices DEF IInv, TypeOK, SlotToken, Handover
<1>b. /\ pc \in [Modules -> Labels] /\ new_cmd \in [Modules -> Nat]
      /\ m_cmd \in [Modules -> Cmds] /\ cmd \in [Modules -> Cmds]
      /\ m_off \in [Modules -> Offsets \cup {NoOffset}]
      /\ off \in [Modules -> Offsets \cup {NoOffset}]
      /\ \A i \in Modules : i \in Int
      /\ PROCESS_CMD_STOP = 0 /\ PROCESS_CMD_JOB = 1
  BY PipelineAssumption DEF IInv, TypeOK, Modules, PROCESS_CMD_STOP, PROCESS_CMD_JOB
<1> USE <1>a, <1>b, Indices DEF HandoverSlot, SlotFull, Goto, Wait, Post, ChildGoto,
        controlVars, localVars, moduleVars, infoVars, childVars
<1>1. CASE PipelineSetup
  BY <1>1 DEF PipelineSetup
<1>2. CASE ControlStep \/ UNCHANGED vars
  BY <1>2 DEF ControlStep, PipelineJoined, SubsystemDestroy, RaiseExitFlag,
     DestroyMemory, vars
<1>3. CASE CheckExit
  BY <1>3 DEF CheckExit
<1>4. CASE ring_buffer_pop
  BY <1>4 DEF ring_buffer_pop
<1>5. CASE Recycle
  BY <1>5 DEF Recycle, ring_buffer_push
<1>6. ASSUME NEW i \in Workers,
             process_start(i) \/ SetJob(i) \/ PostJob(i) \/ WaitResult(i) \/ StopJob(i)
      PROVE  HandoverSlot(r)'
  BY <1>6 DEF process_start, SetJob, PostJob, WaitResult, StopJob
<1>7. ASSUME NEW i \in Workers, WaitNext(i) PROVE HandoverSlot(r)'
  BY <1>7 DEF WaitNext
<1>8. ASSUME NEW i \in Workers, SetNext(i) PROVE HandoverSlot(r)'
  BY <1>8 DEF SetNext, SlotTokenAt, Writing, Reading
<1>9. ASSUME NEW i \in Workers, PostNext(i) PROVE HandoverSlot(r)'
  BY <1>9 DEF PostNext, HoldsOffset, Holding
<1>10. ASSUME NEW i \in Receivers, WaitCmd(i) PROVE HandoverSlot(r)'
  BY <1>10 DEF WaitCmd
<1>11. ASSUME NEW i \in Receivers, ReadCmd(i) PROVE HandoverSlot(r)'
  BY <1>11 DEF ReadCmd
<1>12. ASSUME NEW i \in Receivers, PostSlot(i) PROVE HandoverSlot(r)'
  BY <1>12 DEF PostSlot, AfterCmd
<1>13. ASSUME NEW i \in 1 .. Last - 1,
             TestResult(i) \/ Drop(i)
      PROVE  HandoverSlot(r)'
  BY <1>13 DEF TestResult, Drop, ring_buffer_push
<1>14. ASSUME NEW i \in Workers,
             ChildWait(i) \/ ChildRead(i) \/ ChildPost(i) \/ ChildDies(i)
      PROVE  HandoverSlot(r)'
  BY <1>14 DEF ChildWait, ChildRead, ChildPost, ChildDies
<1>15. ASSUME NEW i \in Workers, NEW status \in Statuses, ChildAct(i, status)
      PROVE  HandoverSlot(r)'
  BY <1>15 DEF ChildAct
<1> QED
  BY StepCases, <1>1, <1>2, <1>3, <1>4, <1>5, <1>6, <1>7, <1>8, <1>9, <1>10,
     <1>11, <1>12, <1>13, <1>14, <1>15
     DEF WorkerStep, ReceiverStep, ChildStep

\* What a child will read is what its thread wrote.
LEMMA HandoverJobStep == IInv /\ [Next]_vars => (\A w \in Workers : HandoverJob(w))'
<1> SUFFICES ASSUME IInv, [Next]_vars, NEW w \in Workers PROVE HandoverJob(w)'
  BY DEF Workers
<1>a. /\ w \in Modules /\ HandoverJob(w)
      /\ pc \in [Modules -> Labels]
      /\ off \in [Modules -> Offsets \cup {NoOffset}]
      /\ i_cmd \in [Workers -> Cmds] /\ i_offs \in [Workers -> Offsets \cup {NoOffset}]
  BY Indices DEF IInv, TypeOK, Handover
<1> USE <1>a, Indices DEF HandoverJob, Goto, Wait, Post, ChildGoto,
        controlVars, localVars, moduleVars, infoVars, childVars
<1>1. CASE PipelineSetup
  BY <1>1 DEF PipelineSetup
<1>2. CASE ControlStep \/ UNCHANGED vars
  BY <1>2 DEF ControlStep, PipelineJoined, SubsystemDestroy, RaiseExitFlag,
     DestroyMemory, vars
<1>3. CASE CheckExit
  BY <1>3 DEF CheckExit
<1>4. CASE ring_buffer_pop
  BY <1>4 DEF ring_buffer_pop
<1>5. CASE Recycle
  BY <1>5 DEF Recycle, ring_buffer_push
<1>6. ASSUME NEW i \in Workers,
             process_start(i) \/ PostJob(i) \/ WaitResult(i)
      PROVE  HandoverJob(w)'
  BY <1>6 DEF process_start, PostJob, WaitResult
<1>7. ASSUME NEW i \in Workers, SetJob(i) \/ StopJob(i) PROVE HandoverJob(w)'
  BY <1>7 DEF SetJob, StopJob
<1>8. ASSUME NEW i \in Workers,
             WaitNext(i) \/ SetNext(i) \/ PostNext(i)
      PROVE  HandoverJob(w)'
  BY <1>8 DEF WaitNext, SetNext, PostNext
<1>9. ASSUME NEW i \in Receivers,
             WaitCmd(i) \/ ReadCmd(i) \/ PostSlot(i)
      PROVE  HandoverJob(w)'
  BY <1>9 DEF WaitCmd, ReadCmd, PostSlot, AfterCmd
<1>10. ASSUME NEW i \in 1 .. Last - 1,
             TestResult(i) \/ Drop(i)
      PROVE  HandoverJob(w)'
  BY <1>10 DEF TestResult, Drop, ring_buffer_push
<1>11. ASSUME NEW i \in Workers,
             ChildWait(i) \/ ChildRead(i) \/ ChildPost(i) \/ ChildDies(i)
      PROVE  HandoverJob(w)'
  BY <1>11 DEF ChildWait, ChildRead, ChildPost, ChildDies
<1>12. ASSUME NEW i \in Workers, NEW status \in Statuses, ChildAct(i, status)
      PROVE  HandoverJob(w)'
  BY <1>12 DEF ChildAct
<1> QED
  BY StepCases, <1>1, <1>2, <1>3, <1>4, <1>5, <1>6, <1>7, <1>8, <1>9, <1>10,
     <1>11, <1>12
     DEF WorkerStep, ReceiverStep, ChildStep

\* A child reads its job while its thread waits, and the thread waits until it
\* is done.
LEMMA ChildWorksStep == IInv /\ [Next]_vars => ChildWorksOnOwnBuffer'
<1> SUFFICES ASSUME IInv, [Next]_vars, NEW w \in Workers PROVE ChildWorks(w)'
  BY DEF ChildWorksOnOwnBuffer, ChildWorks
<1>a. /\ w \in Modules /\ JobTokenAt(w) /\ HandoverJob(w) /\ HoldsOffset(w) /\ ChildWorks(w)
      /\ sem_job[w] \in Nat /\ sem_result[w] \in Nat /\ Places
  BY Indices DEF IInv, TypeOK, Handover, JobToken, ChildWorksOnOwnBuffer, ChildWorks
<1>b. /\ pc \in [Modules -> Labels] /\ cpc \in [Workers -> ChildLabels]
      /\ off \in [Modules -> Offsets \cup {NoOffset}]
      /\ data \in [Workers -> Offsets \cup {NoOffset}]
  BY DEF IInv, TypeOK
<1> USE <1>a, <1>b, Indices DEF ChildWorks, Goto, Wait, Post, ChildGoto,
        controlVars, localVars, moduleVars, infoVars, childVars
<1>1. CASE PipelineSetup
  BY <1>1 DEF PipelineSetup, Places
<1>2. CASE ControlStep \/ UNCHANGED vars
  BY <1>2 DEF ControlStep, PipelineJoined, SubsystemDestroy, RaiseExitFlag,
     DestroyMemory, vars
<1>3. CASE CheckExit
  BY <1>3 DEF CheckExit
<1>4. CASE ring_buffer_pop
  BY <1>4 DEF ring_buffer_pop
<1>5. CASE Recycle
  BY <1>5 DEF Recycle, ring_buffer_push
<1>6. ASSUME NEW i \in Workers,
             process_start(i) \/ SetJob(i) \/ PostJob(i) \/ StopJob(i)
      PROVE  ChildWorks(w)'
  BY <1>6 DEF process_start, SetJob, PostJob, StopJob
<1>7. ASSUME NEW i \in Workers, WaitResult(i) PROVE ChildWorks(w)'
  <2>1. i = w => cpc[w] # "act"
    <3> SUFFICES ASSUME i = w, cpc[w] = "act" PROVE FALSE
      OBVIOUS
    <3>1. sem_result[w] > 0
      BY <1>7 DEF WaitResult
    <3> QED BY <3>1, JobOwner
  <2> QED BY <1>7, <2>1 DEF WaitResult
<1>8. ASSUME NEW i \in Workers,
             WaitNext(i) \/ SetNext(i) \/ PostNext(i)
      PROVE  ChildWorks(w)'
  BY <1>8 DEF WaitNext, SetNext, PostNext
<1>9. ASSUME NEW i \in Receivers,
             WaitCmd(i) \/ ReadCmd(i) \/ PostSlot(i)
      PROVE  ChildWorks(w)'
  BY <1>9 DEF WaitCmd, ReadCmd, PostSlot, AfterCmd
<1>10. ASSUME NEW i \in 1 .. Last - 1,
             TestResult(i) \/ Drop(i)
      PROVE  ChildWorks(w)'
  BY <1>10 DEF TestResult, Drop, ring_buffer_push
<1>11. ASSUME NEW i \in Workers,
             ChildWait(i) \/ ChildPost(i) \/ ChildDies(i)
      PROVE  ChildWorks(w)'
  BY <1>11 DEF ChildWait, ChildPost, ChildDies
<1>12. ASSUME NEW i \in Workers, ChildRead(i) PROVE ChildWorks(w)'
  <2>1. CASE i = w /\ i_cmd[w] # PROCESS_CMD_STOP
    <3>1. cpc[w] = "read" /\ cpc'[w] = "act" /\ data'[w] = i_offs[w] /\ pc' = pc /\ off' = off
      BY <1>12, <2>1 DEF ChildRead
    <3>2. pc[w] \in {"wait_result", "stop_wait_result"}
      BY <3>1, JobOwner
    <3>3. pc[w] = "wait_result"
      BY <2>1, <3>2 DEF HandoverJob
    <3>4. i_offs[w] = off[w] /\ off[w] \in Offsets
      BY <3>3 DEF HandoverJob, HoldsOffset, Holding
    <3> QED BY <3>1, <3>3, <3>4
  <2>2. CASE i # w \/ i_cmd[w] = PROCESS_CMD_STOP
    BY <1>12, <2>2 DEF ChildRead
  <2> QED BY <2>1, <2>2
<1>13. ASSUME NEW i \in Workers, NEW status \in Statuses, ChildAct(i, status)
      PROVE  ChildWorks(w)'
  BY <1>13 DEF ChildAct
<1> QED
  BY StepCases, <1>1, <1>2, <1>3, <1>4, <1>5, <1>6, <1>7, <1>8, <1>9, <1>10,
     <1>11, <1>12, <1>13
     DEF WorkerStep, ReceiverStep, ChildStep

-----------------------------------------------------------------------------
\* Every step keeps the tokens.
LEMMA IInvStep == IInv /\ [Next]_vars => IInv'
BY TypeStep, PlacesStep, SlotStep, JobStep, HoldingStep, HandoverSlotStep, HandoverJobStep,
   ChildWorksStep DEF IInv, Handover

\* The tokens are kept in every state.
LEMMA Invariance == Spec => []IInv
<1>1. Init => IInv
  BY InitInv
<1>2. IInv /\ [Next]_vars => IInv'
  BY IInvStep
<1> QED BY <1>1, <1>2, PTL DEF Spec

\* Every variable keeps its type; in particular nothing but buffer offsets is
\* ever pushed to data_ring, and no semaphore goes below zero.
THEOREM TypeCorrect == Spec => []TypeOK
<1>1. IInv => TypeOK
  BY DEF IInv
<1> QED BY <1>1, Invariance, PTL

\* The thread of module i - 1 writes module->cmd and module->dataoffset only
\* when the thread of module i has taken the command before it.
THEOREM SlotsAreSafe == Spec => []NoCommandOverwritten
<1>1. IInv => NoCommandOverwritten
  BY SlotOwner DEF NoCommandOverwritten, Writing, Reading
<1> QED BY <1>1, Invariance, PTL

\* A module's thread and its child never touch process_info at the same time,
\* even when the child has died.
THEOREM ProcessInfoIsSafe == Spec => []ProcessInfoExclusive
<1>1. ASSUME IInv PROVE ProcessInfoExclusive
  <2> SUFFICES ASSUME NEW i \in Workers, pc[i] \in {"set_job", "stop_set_job", "test_result"}
               PROVE  /\ sem_job[i] = 0 /\ sem_result[i] = 0
                      /\ cpc[i] \notin {"read", "act", "post", "last_post"}
    BY DEF ProcessInfoExclusive
  <2>1. sem_job[i] \in Nat /\ sem_result[i] \in Nat
    BY <1>1 DEF IInv, TypeOK
  <2> QED BY <1>1, <2>1, JobOwner
<1> QED BY <1>1, Invariance, PTL

\* pipeline_action only ever runs on the buffer that the child's own thread
\* holds and is waiting for.
THEOREM ChildrenWorkOnOwnBuffers == Spec => []ChildWorksOnOwnBuffer
<1>1. IInv => ChildWorksOnOwnBuffer
  BY DEF IInv
<1> QED BY <1>1, Invariance, PTL

-----------------------------------------------------------------------------
(***************************************************************************)
(* Who owns the data buffers of Pipeline, for every number of modules and  *)
(* of buffers.  Given the token invariant every step moves at most one     *)
(* buffer from one place to another (lemma Movements); that a buffer has   *)
(* one owner and is not lost then needs five cases, one per kind of move,  *)
(* whatever the number of actions.  That the ring never overflows is the   *)
(* pigeonhole principle.                                                   *)
(***************************************************************************)

\* Thread i, slot r keep what they have.
SameHold(i) == (Holding(i)' <=> Holding(i)) /\ (Holding(i) => off'[i] = off[i])
SameSlot(r) == (SlotFull(r)' <=> SlotFull(r)) /\ (SlotFull(r) => m_off'[r] = m_off[r])

\* The kinds of step: nothing moves; ring to source; thread i to ring; thread i
\* to the next slot; slot i to its thread.
KeepStep ==
    /\ ring' = ring
    /\ \A i \in Modules : SameHold(i)
    /\ \A r \in Receivers : SameSlot(r)

PopStep ==
    /\ ring # << >> /\ ring' = Tail(ring)
    /\ ~Holding(0) /\ Holding(0)' /\ off'[0] = Head(ring)
    /\ \A i \in Modules : i # 0 => SameHold(i)
    /\ \A r \in Receivers : SameSlot(r)

PushStep(i) ==
    /\ Holding(i) /\ ~Holding(i)' /\ ring' = Append(ring, off[i])
    /\ \A j \in Modules : j # i => SameHold(j)
    /\ \A r \in Receivers : SameSlot(r)

PutStep(i) ==
    /\ ring' = ring /\ Holding(i) /\ ~Holding(i)'
    /\ ~SlotFull(i + 1) /\ SlotFull(i + 1)' /\ m_off'[i + 1] = off[i]
    /\ \A j \in Modules : j # i => SameHold(j)
    /\ \A r \in Receivers : r # i + 1 => SameSlot(r)

TakeStep(i) ==
    /\ ring' = ring /\ SlotFull(i) /\ ~SlotFull(i)'
    /\ ~Holding(i) /\ Holding(i)' /\ off'[i] = m_off[i]
    /\ \A j \in Modules : j # i => SameHold(j)
    /\ \A r \in Receivers : r # i => SameSlot(r)

Movement ==
    \/ KeepStep \/ PopStep
    \/ \E i \in Modules : PushStep(i)
    \/ \E i \in Workers : PutStep(i)
    \/ \E i \in Receivers : TakeStep(i)

-----------------------------------------------------------------------------
\* While a module reads its slot, the slot is not written.
LEMMA SlotReader ==
    ASSUME IInv, NEW r \in Receivers
    PROVE  Reading(r) => new_cmd[r] = 0 /\ ~Writing(r)
<1>1. new_cmd[r] \in Nat /\ result[r] \in Nat /\ SlotTokenAt(r)
  BY Indices DEF IInv, TypeOK, SlotToken
<1> QED BY <1>1 DEF SlotTokenAt

\* Every step after the set-up moves at most one buffer, from one place to another.
LEMMA Movements == IInv /\ [Next]_vars => PipelineSetup \/ Movement
<1> SUFFICES ASSUME IInv, [Next]_vars, ~PipelineSetup PROVE Movement
  OBVIOUS
<1>a. /\ pc \in [Modules -> Labels] /\ cmd \in [Modules -> Cmds]
      /\ m_cmd \in [Modules -> Cmds] /\ new_cmd \in [Modules -> Nat]
      /\ off \in [Modules -> Offsets \cup {NoOffset}]
      /\ m_off \in [Modules -> Offsets \cup {NoOffset}]
      /\ PROCESS_CMD_STOP = 0 /\ PROCESS_CMD_JOB = 1 /\ Last \in Modules /\ 0 \in Modules
      /\ Places
  BY Indices DEF IInv, TypeOK, PROCESS_CMD_STOP, PROCESS_CMD_JOB
<1>b. /\ \A r \in Receivers : Writing(r) => new_cmd[r] = 0 /\ ~Reading(r)
      /\ \A r \in Receivers : Reading(r) => new_cmd[r] = 0
      /\ \A r \in Receivers : HandoverSlot(r)
  BY SlotOwner, SlotReader DEF IInv, Handover
<1> USE <1>a, Indices DEF Movement, KeepStep, SameHold, SameSlot, Holding, SlotFull, Goto, Wait, Post, ChildGoto,
        controlVars, localVars, moduleVars, infoVars, childVars
<1>1. CASE ControlStep \/ UNCHANGED vars
  BY <1>1 DEF ControlStep, PipelineJoined, SubsystemDestroy, RaiseExitFlag,
     DestroyMemory, vars
<1>2. CASE CheckExit
  BY <1>2 DEF CheckExit
<1>3. CASE ring_buffer_pop
  BY <1>3 DEF ring_buffer_pop, PopStep
<1>4. CASE Recycle
  BY <1>4, PushStep(Last) DEF Recycle, ring_buffer_push, PushStep
<1>5. ASSUME NEW i \in Workers,
             process_start(i) \/ SetJob(i) \/ PostJob(i) \/ WaitResult(i) \/ StopJob(i)
      PROVE  Movement
  BY <1>5 DEF process_start, SetJob, PostJob, WaitResult, StopJob
<1>6. ASSUME NEW i \in Workers, WaitNext(i) PROVE Movement
  BY <1>6 DEF WaitNext
<1>7. ASSUME NEW i \in Workers, SetNext(i) PROVE Movement
  <2>1. Writing(i + 1) /\ i + 1 \in Receivers
    BY <1>7, PipelineAssumption DEF SetNext, Writing, Workers, Receivers
  <2>2. new_cmd[i + 1] = 0 /\ pc[i + 1] # "read_cmd"
    BY <2>1, <1>b DEF Reading
  <2>3. \A j \in Modules : SameHold(j)
    BY <1>7 DEF SetNext
  <2>4. ASSUME NEW r \in Receivers PROVE SameSlot(r)
    <3>1. CASE r = i + 1
      <4>1. new_cmd'[r] = 0 /\ pc'[r] # "read_cmd"
        BY <1>7, <2>1, <2>2, <3>1 DEF SetNext
      <4> QED BY <2>1, <2>2, <3>1, <4>1
    <3>2. CASE r # i + 1
      <4>1. m_cmd'[r] = m_cmd[r] /\ m_off'[r] = m_off[r] /\ new_cmd' = new_cmd
        BY <1>7, <3>2 DEF SetNext
      <4>2. pc'[r] = "read_cmd" <=> pc[r] = "read_cmd"
        BY <1>7 DEF SetNext
      <4> QED BY <4>1, <4>2
    <3> QED BY <3>1, <3>2
  <2> QED BY <1>7, <2>3, <2>4 DEF SetNext
<1>8. ASSUME NEW i \in Workers, PostNext(i) PROVE Movement
  <2>1. Writing(i + 1) /\ i + 1 \in Receivers /\ i \in Workers
    BY <1>8, PipelineAssumption DEF PostNext, Writing, Workers, Receivers
  <2>2. new_cmd[i + 1] = 0 /\ pc[i + 1] # "read_cmd" /\ HandoverSlot(i + 1)
    BY <2>1, <1>b DEF Reading
  <2>3. CASE pc[i] = "post_next"
    <3>1. m_cmd[i + 1] # PROCESS_CMD_STOP /\ m_off[i + 1] = off[i]
      BY <2>1, <2>2, <2>3, PipelineAssumption DEF HandoverSlot, Workers
    <3>2. PutStep(i)
      <4>1. Holding(i) /\ ~Holding(i)' /\ ring' = ring
        BY <1>8, <2>3 DEF PostNext
      <4>2. ~SlotFull(i + 1) /\ SlotFull(i + 1)' /\ m_off'[i + 1] = off[i]
        BY <1>8, <2>2, <3>1 DEF PostNext
      <4>3. \A j \in Modules : j # i => SameHold(j)
        BY <1>8 DEF PostNext
      <4>4. \A r \in Receivers : r # i + 1 => SameSlot(r)
        BY <1>8, <2>3 DEF PostNext
      <4> QED BY <4>1, <4>2, <4>3, <4>4 DEF PutStep
    <3> QED BY <2>1, <3>2 DEF Movement
  <2>4. CASE pc[i] = "stop_post_next"
    <3>1. m_cmd[i + 1] = PROCESS_CMD_STOP
      BY <2>1, <2>2, <2>4, PipelineAssumption DEF HandoverSlot, Workers
    <3>2. \A j \in Modules : SameHold(j)
      BY <1>8, <2>4 DEF PostNext
    <3>3. \A r \in Receivers : SameSlot(r)
      BY <1>8, <2>4, <3>1 DEF PostNext
    <3> QED BY <1>8, <3>2, <3>3 DEF PostNext
  <2> QED BY <1>8, <2>3, <2>4 DEF PostNext
<1>9. ASSUME NEW i \in Receivers, WaitCmd(i) PROVE Movement
  BY <1>9 DEF WaitCmd
<1>10. ASSUME NEW i \in Receivers, ReadCmd(i) PROVE Movement
  <2>1. new_cmd[i] = 0
    BY <1>10, <1>b DEF ReadCmd, Reading
  <2>2. \A j \in Modules : j # i => SameHold(j)
    BY <1>10 DEF ReadCmd
  <2>3. \A r \in Receivers : r # i => SameSlot(r)
    BY <1>10 DEF ReadCmd
  <2>4. ~Holding(i) /\ ~SlotFull(i)' /\ ring' = ring
    BY <1>10, <2>1 DEF ReadCmd
  <2>5. CASE m_cmd[i] = PROCESS_CMD_STOP
    BY <1>10, <2>2, <2>3, <2>4, <2>5 DEF ReadCmd
  <2>6. CASE m_cmd[i] # PROCESS_CMD_STOP
    <3>1. SlotFull(i) /\ Holding(i)' /\ off'[i] = m_off[i]
      BY <1>10, <2>6 DEF ReadCmd
    <3>2. TakeStep(i)
      BY <2>2, <2>3, <2>4, <3>1 DEF TakeStep
    <3> QED BY <3>2 DEF Movement
  <2> QED BY <2>5, <2>6
<1>11. ASSUME NEW i \in Receivers, PostSlot(i) PROVE Movement
  BY <1>11 DEF PostSlot, AfterCmd
<1>12. ASSUME NEW i \in 1 .. Last - 1, TestResult(i) PROVE Movement
  BY <1>12 DEF TestResult
<1>13. ASSUME NEW i \in 1 .. Last - 1, Drop(i) PROVE Movement
  <2>1. PushStep(i)
    BY <1>13 DEF Drop, ring_buffer_push, PushStep
  <2> QED BY <2>1
<1>14. ASSUME NEW i \in Workers,
             ChildWait(i) \/ ChildRead(i) \/ ChildPost(i) \/ ChildDies(i)
      PROVE  Movement
  BY <1>14 DEF ChildWait, ChildRead, ChildPost, ChildDies
<1>15. ASSUME NEW i \in Workers, NEW status \in Statuses, ChildAct(i, status)
      PROVE  Movement
  BY <1>15 DEF ChildAct
<1> QED
  BY StepCases, <1>1, <1>2, <1>3, <1>4, <1>5, <1>6, <1>7, <1>8, <1>9, <1>10,
     <1>11, <1>12, <1>13, <1>14, <1>15
     DEF WorkerStep, ReceiverStep, ChildStep

\* What the ring holds after a pop and after a push.
LEMMA RingPop ==
    ASSUME ring \in Seq(Offsets), ring # << >>, ring' = Tail(ring)
    PROVE  /\ Len(ring') = Len(ring) - 1 /\ Len(ring) \in Nat
           /\ \A k \in 1 .. Len(ring') : ring'[k] = ring[k + 1] /\ k + 1 \in 1 .. Len(ring)
           /\ Head(ring) = ring[1] /\ 1 \in 1 .. Len(ring)
OBVIOUS

\* The ring after a push.
LEMMA RingPush ==
    ASSUME ring \in Seq(Offsets), NEW v \in Offsets, ring' = Append(ring, v)
    PROVE  /\ Len(ring') = Len(ring) + 1 /\ Len(ring) \in Nat
           /\ \A k \in 1 .. Len(ring) : ring'[k] = ring[k]
           /\ ring'[Len(ring) + 1] = v
OBVIOUS

\* A pop takes the head out of the ring and nothing else.
LEMMA InRingPop ==
    ASSUME ring \in Seq(Offsets), ring # << >>, ring' = Tail(ring), NEW o
    PROVE  /\ InRing(o)' => InRing(o)
           /\ InRing(o) => InRing(o)' \/ o = Head(ring)
<1>1. InRing(o)' => InRing(o)
  BY RingPop DEF InRing
<1>2. ASSUME InRing(o) PROVE InRing(o)' \/ o = Head(ring)
  <2>1. PICK k \in 1 .. Len(ring) : ring[k] = o
    BY <1>2 DEF InRing
  <2>2. CASE k = 1
    BY <2>1, <2>2, RingPop
  <2>3. CASE k # 1
    <3>1. k - 1 \in 1 .. Len(ring') /\ k - 1 + 1 = k
      BY <2>3, RingPop
    <3>2. ring'[k - 1] = o
      BY <2>1, <3>1, RingPop
    <3> QED BY <3>1, <3>2 DEF InRing
  <2> QED BY <2>2, <2>3
<1> QED BY <1>1, <1>2

\* A push puts one offset into the ring.
LEMMA InRingPush ==
    ASSUME ring \in Seq(Offsets), NEW v \in Offsets, ring' = Append(ring, v), NEW o
    PROVE  InRing(o)' <=> InRing(o) \/ o = v
<1>1. ASSUME InRing(o)' PROVE InRing(o) \/ o = v
  BY <1>1, RingPush DEF InRing
<1>2. ASSUME InRing(o) \/ o = v PROVE InRing(o)'
  <2>1. CASE InRing(o)
    <3>1. PICK k \in 1 .. Len(ring) : ring[k] = o
      BY <2>1 DEF InRing
    <3>2. k \in 1 .. Len(ring') /\ ring'[k] = o
      BY <3>1, RingPush
    <3> QED BY <3>2 DEF InRing
  <2>2. CASE o = v
    <3>1. Len(ring) + 1 \in 1 .. Len(ring') /\ ring'[Len(ring) + 1] = o
      BY <2>2, RingPush
    <3> QED BY <3>1 DEF InRing
  <2> QED BY <1>2, <2>1, <2>2
<1> QED BY <1>1, <1>2

\* Every step keeps the buffers in one place, whichever move it is.
LEMMA OneOwnerStep == IInv /\ OneOwner /\ [Next]_vars => OneOwner'
<1> SUFFICES ASSUME IInv, OneOwner, [Next]_vars PROVE OneOwner'
  OBVIOUS
<1>a. /\ ring \in Seq(Offsets) /\ \A i \in Modules : HoldsOffset(i)
  BY DEF IInv, TypeOK, Handover
<1>1. CASE PipelineSetup
  <2>1. /\ \A i \in Modules : ~Holding(i)'
        /\ \A i \in Receivers : ~SlotFull(i)'
    BY <1>1, Indices DEF PipelineSetup, Holding, SlotFull
  <2>2. \A j, k \in 1 .. Len(ring') : ring'[j] = ring'[k] => j = k
    BY <1>1, PipelineAssumption DEF PipelineSetup
  <2> QED BY <2>1, <2>2, Indices DEF OneOwner
<1>2. CASE KeepStep
  <2>1. \A o : InRing(o)' <=> InRing(o)
    BY <1>2 DEF KeepStep, InRing
  <2> QED BY <1>2, <2>1 DEF OneOwner, KeepStep, SameHold, SameSlot
<1>3. CASE PopStep
  <2>1. \A o : InRing(o)' => InRing(o)
    BY <1>3, <1>a, InRingPop DEF PopStep
  <2>2. InRing(Head(ring))
    BY <1>3, <1>a, RingPop DEF PopStep, InRing
  <2>3. \A j, k \in 1 .. Len(ring') : ring'[j] = ring'[k] => j = k
    BY <1>3, <1>a, RingPop DEF PopStep, OneOwner
  <2>4. \A o : o = Head(ring) => ~InRing(o)'
    <3> SUFFICES ASSUME NEW k \in 1 .. Len(ring'), ring'[k] = Head(ring) PROVE FALSE
      BY DEF InRing
    <3>1. k + 1 \in 1 .. Len(ring) /\ ring[k + 1] = ring[1] /\ 1 \in 1 .. Len(ring) /\ k + 1 # 1
      BY <1>3, <1>a, RingPop DEF PopStep
    <3> QED BY <3>1 DEF OneOwner
  <2> QED BY <1>3, <2>1, <2>2, <2>3, <2>4 DEF OneOwner, PopStep, SameHold, SameSlot
<1>4. ASSUME NEW i \in Modules, PushStep(i) PROVE OneOwner'
  <2>0. off[i] \in Offsets /\ ~InRing(off[i])
    BY <1>4, <1>a DEF PushStep, HoldsOffset, OneOwner
  <2>1. \A o : InRing(o)' <=> InRing(o) \/ o = off[i]
    BY <1>4, <1>a, <2>0, InRingPush DEF PushStep
  <2>2. \A j, k \in 1 .. Len(ring') : ring'[j] = ring'[k] => j = k
    BY <1>4, <1>a, <2>0, RingPush DEF PushStep, OneOwner, InRing
  <2> QED BY <1>4, <2>1, <2>2 DEF OneOwner, PushStep, SameHold, SameSlot
<1>5. ASSUME NEW i \in Workers, PutStep(i) PROVE OneOwner'
  <2>1. \A o : InRing(o)' <=> InRing(o)
    BY <1>5 DEF PutStep, InRing
  <2>2. \A j, k \in 1 .. Len(ring') : ring'[j] = ring'[k] => j = k
    BY <1>5 DEF PutStep, OneOwner
  <2>3. \A j \in Modules : Holding(j)' => ~InRing(off[j])'
    BY <1>5, <2>1, Indices DEF OneOwner, PutStep, SameHold
  <2>4. \A r \in Receivers : SlotFull(r)' => ~InRing(m_off[r])'
    BY <1>5, <2>1, Indices DEF OneOwner, PutStep, SameSlot
  <2>5. \A j, k \in Modules :
           j # k /\ Holding(j)' /\ Holding(k)' => off'[j] # off'[k]
    BY <1>5, Indices DEF OneOwner, PutStep, SameHold
  <2>6. \A j, k \in Receivers :
           j # k /\ SlotFull(j)' /\ SlotFull(k)' => m_off'[j] # m_off'[k]
    BY <1>5, Indices DEF OneOwner, PutStep, SameSlot
  <2>7. \A j \in Modules, r \in Receivers :
           Holding(j)' /\ SlotFull(r)' => off'[j] # m_off'[r]
    <3> SUFFICES ASSUME NEW j \in Modules, NEW r \in Receivers, Holding(j)', SlotFull(r)'
                 PROVE  off'[j] # m_off'[r]
      OBVIOUS
    <3>1. j # i /\ Holding(j) /\ off'[j] = off[j] /\ i \in Modules
      BY <1>5, Indices DEF PutStep, SameHold
    <3>2. CASE r = i + 1
      BY <1>5, <3>1, <3>2 DEF PutStep, OneOwner
    <3>3. CASE r # i + 1
      BY <1>5, <3>1, <3>3 DEF PutStep, OneOwner, SameSlot
    <3> QED BY <3>2, <3>3
  <2> QED BY <2>2, <2>3, <2>4, <2>5, <2>6, <2>7, Indices DEF OneOwner
<1>6. ASSUME NEW i \in Receivers, TakeStep(i) PROVE OneOwner'
  <2>1. \A o : InRing(o)' <=> InRing(o)
    BY <1>6 DEF TakeStep, InRing
  <2>2. \A j, k \in 1 .. Len(ring') : ring'[j] = ring'[k] => j = k
    BY <1>6 DEF TakeStep, OneOwner
  <2>3. \A j \in Modules : Holding(j)' => ~InRing(off[j])'
    BY <1>6, <2>1, Indices DEF OneOwner, TakeStep, SameHold
  <2>4. \A r \in Receivers : SlotFull(r)' => ~InRing(m_off[r])'
    BY <1>6, <2>1, Indices DEF OneOwner, TakeStep, SameSlot
  <2>5. \A j, k \in Modules :
           j # k /\ Holding(j)' /\ Holding(k)' => off'[j] # off'[k]
    BY <1>6, Indices DEF OneOwner, TakeStep, SameHold
  <2>6. \A j, k \in Receivers :
           j # k /\ SlotFull(j)' /\ SlotFull(k)' => m_off'[j] # m_off'[k]
    BY <1>6, Indices DEF OneOwner, TakeStep, SameSlot
  <2>7. \A j \in Modules, r \in Receivers :
           Holding(j)' /\ SlotFull(r)' => off'[j] # m_off'[r]
    BY <1>6, Indices DEF OneOwner, TakeStep, SameHold, SameSlot
  <2> QED BY <2>2, <2>3, <2>4, <2>5, <2>6, <2>7, Indices DEF OneOwner
<1> QED BY Movements, <1>1, <1>2, <1>3, <1>4, <1>5, <1>6 DEF Movement

\* Who has buffer o: the ring, a thread or a slot.
Somewhere(o) ==
    \/ InRing(o)
    \/ \E i \in Modules : Holding(i) /\ off[i] = o
    \/ \E i \in Receivers : SlotFull(i) /\ m_off[i] = o

\* Only PipelineSetup ends the set-up.
LEMMA SetupFirst ==
    ASSUME IInv, [Next]_vars, ~PipelineSetup, pt' # "setup"
    PROVE  pt # "setup"
<1> SUFFICES ASSUME pt = "setup" PROVE FALSE
  OBVIOUS
<1> USE DEF controlVars
<1>1. CASE ControlStep
  BY <1>1 DEF ControlStep, PipelineJoined, SubsystemDestroy, RaiseExitFlag, DestroyMemory
<1>2. CASE CheckExit \/ ring_buffer_pop \/ Recycle
  BY <1>2 DEF CheckExit, ring_buffer_pop, Recycle
<1>3. ASSUME NEW i \in Workers, WorkerStep(i) PROVE FALSE
  BY <1>3 DEF WorkerStep, process_start, SetJob, PostJob, WaitResult, WaitNext, SetNext,
     PostNext, StopJob
<1>4. ASSUME NEW i \in Receivers, ReceiverStep(i) PROVE FALSE
  BY <1>4 DEF ReceiverStep, WaitCmd, ReadCmd, PostSlot
<1>5. ASSUME NEW i \in 1 .. Last - 1, TestResult(i) \/ Drop(i) PROVE FALSE
  BY <1>5 DEF TestResult, Drop
<1>6. ASSUME NEW i \in Workers, ChildStep(i) PROVE FALSE
  BY <1>6 DEF ChildStep, ChildWait, ChildRead, ChildPost, ChildDies, ChildAct
<1>7. CASE UNCHANGED vars
  BY <1>7 DEF vars
<1> QED BY StepCases, <1>1, <1>2, <1>3, <1>4, <1>5, <1>6, <1>7

\* Every step keeps the buffers somewhere, whichever move it is.
LEMMA NoLeakStep == IInv /\ NoLeak /\ [Next]_vars => NoLeak'
<1> SUFFICES ASSUME IInv, NoLeak, [Next]_vars, NEW o \in Offsets, pt' # "setup"
             PROVE  Somewhere(o)'
  BY DEF NoLeak, Somewhere, Offsets, Modules, Receivers
<1>a. /\ ring \in Seq(Offsets) /\ \A i \in Modules : HoldsOffset(i)
  BY DEF IInv, TypeOK, Handover
<1>1. CASE PipelineSetup
  <2>1. o + 1 \in 1 .. Len(ring') /\ ring'[o + 1] = o
    BY <1>1, PipelineAssumption DEF PipelineSetup, Offsets
  <2> QED BY <2>1 DEF Somewhere, InRing
<1>b. ASSUME ~PipelineSetup PROVE Somewhere(o)
  <2>1. pt # "setup"
    BY <1>b, SetupFirst
  <2> QED BY <2>1 DEF NoLeak, Somewhere
<1>2. CASE ~PipelineSetup /\ KeepStep
  <2>1. \A v : InRing(v)' <=> InRing(v)
    BY <1>2 DEF KeepStep, InRing
  <2> QED BY <1>2, <1>b, <2>1 DEF Somewhere, KeepStep, SameHold, SameSlot
<1>3. CASE ~PipelineSetup /\ PopStep
  <2>1. InRing(o) => InRing(o)' \/ o = Head(ring)
    BY <1>3, <1>a, InRingPop DEF PopStep
  <2> QED BY <1>3, <1>b, <2>1, Indices DEF Somewhere, PopStep, SameHold, SameSlot
<1>4. ASSUME ~PipelineSetup, NEW i \in Modules, PushStep(i) PROVE Somewhere(o)'
  <2>0. off[i] \in Offsets
    BY <1>4, <1>a DEF PushStep, HoldsOffset
  <2>1. \A v : InRing(v)' <=> InRing(v) \/ v = off[i]
    BY <1>4, <1>a, <2>0, InRingPush DEF PushStep
  <2> QED BY <1>4, <1>b, <2>1 DEF Somewhere, PushStep, SameHold, SameSlot
<1>5. ASSUME ~PipelineSetup, NEW i \in Workers, PutStep(i) PROVE Somewhere(o)'
  <2>1. \A v : InRing(v)' <=> InRing(v)
    BY <1>5 DEF PutStep, InRing
  <2> QED BY <1>5, <1>b, <2>1, Indices DEF Somewhere, PutStep, SameHold, SameSlot
<1>6. ASSUME ~PipelineSetup, NEW i \in Receivers, TakeStep(i) PROVE Somewhere(o)'
  <2>1. \A v : InRing(v)' <=> InRing(v)
    BY <1>6 DEF TakeStep, InRing
  <2> QED BY <1>6, <1>b, <2>1, Indices DEF Somewhere, TakeStep, SameHold, SameSlot
<1> QED BY Movements, <1>1, <1>2, <1>3, <1>4, <1>5, <1>6 DEF Movement

\* data_ring has DataCnt places and its entries are distinct: with a buffer
\* outside there is room.
LEMMA RoomInRing ==
    ASSUME IInv, OneOwner, NEW i \in Modules, Holding(i)
    PROVE  Len(ring) < DataCnt
<1>1. ring \in Seq(Offsets) /\ off[i] \in Offsets /\ ~InRing(off[i]) /\ Len(ring) \in Nat
  BY DEF IInv, TypeOK, Handover, HoldsOffset, OneOwner
<1> DEFINE Free == Offsets \ {off[i]}
<1>2. IsFiniteSet(Offsets) /\ Cardinality(Offsets) = DataCnt
  BY PipelineAssumption, FS_Interval DEF Offsets
<1>3. IsFiniteSet(Free) /\ Cardinality(Free) = DataCnt - 1
  BY <1>1, <1>2, FS_RemoveElement
<1>4. \A n \in Nat : IsFiniteSet(1 .. n) /\ Cardinality(1 .. n) = n
  BY FS_Interval
<1>5. ring \in [1 .. Len(ring) -> Free]
  BY <1>1 DEF InRing
<1>6. \A j, k \in 1 .. Len(ring) : j # k => ring[j] # ring[k]
  BY DEF OneOwner
<1>7. ring \in Injection(1 .. Len(ring), Free)
  BY <1>5, <1>6 DEF Injection, IsInjective
<1>8. Cardinality(1 .. Len(ring)) <= Cardinality(Free)
  BY <1>3, <1>7, FS_Injection
<1> QED BY <1>1, <1>3, <1>4, <1>8, PipelineAssumption

OwnershipInv == IInv /\ OneOwner /\ NoLeak

\* Tokens and buffers together are kept in every state.
LEMMA OwnershipInvariance == Spec => []OwnershipInv
<1>1. Init => OwnershipInv
  <2>1. Init => OneOwner /\ NoLeak
    BY Indices, PipelineAssumption DEF Init, OneOwner, NoLeak, Holding, SlotFull
  <2> QED BY <2>1, InitInv DEF OwnershipInv
<1>2. OwnershipInv /\ [Next]_vars => OwnershipInv'
  BY IInvStep, OneOwnerStep, NoLeakStep DEF OwnershipInv
<1> QED BY <1>1, <1>2, PTL DEF Spec

\* No buffer is ever in two places.
THEOREM BuffersHaveOneOwner == Spec => []OneOwner
<1>1. OwnershipInv => OneOwner
  BY DEF OwnershipInv
<1> QED BY <1>1, OwnershipInvariance, PTL

\* No buffer is ever lost.
THEOREM BuffersAreNotLost == Spec => []NoLeak
<1>1. OwnershipInv => NoLeak
  BY DEF OwnershipInv
<1> QED BY <1>1, OwnershipInvariance, PTL

\* The push that ring_buffer_push does not check always finds room.
THEOREM RingDoesNotOverflow == Spec => []NoRingOverflow
<1>1. OwnershipInv => NoRingOverflow
  BY RoomInRing DEF OwnershipInv, NoRingOverflow, Holding
<1> QED BY <1>1, OwnershipInvariance, PTL

-----------------------------------------------------------------------------
(***************************************************************************)
(* The shutdown of Pipeline, for every number of modules and of buffers.   *)
(* The stop command is the last thing in the chain: a module that has it   *)
(* or is about to read it has only modules before it that have passed it   *)
(* on (StopOrder), and nothing comes after it into its slot (StopDrained). *)
(* A thread that has stopped has seen its child leave the loop             *)
(* (ChildLeaves), and the joins see all threads stopped (Joined).          *)
(***************************************************************************)

Passed == {"stop_set_job", "stop_post_job", "stop_wait_result", "done"}

\* Module r has the stop command, in its thread, its local or its slot.
HasStop(r) == pc[r] \in StopLabels \/ (pc[r] = "post_slot" /\ cmd[r] = PROCESS_CMD_STOP)
StopSeen(r) ==
    HasStop(r) \/ ((new_cmd[r] > 0 \/ pc[r] = "read_cmd") /\ m_cmd[r] = PROCESS_CMD_STOP)

StopOrderAt(r) == StopSeen(r) => \A j \in Modules : j < r => pc[j] \in Passed
StopOrder == \A r \in Receivers : StopOrderAt(r)

StopDrained == \A r \in Receivers : HasStop(r) => new_cmd[r] = 0

ChildLeavesAt(w) ==
    /\ pc[w] = "stop_wait_result" =>
          cpc[w] \notin {"act", "post"} /\ (sem_result[w] > 0 => cpc[w] = "exited")
    /\ pc[w] = "done" => cpc[w] = "exited"
ChildLeaves == \A w \in Workers : ChildLeavesAt(w)

Joined == pt \in {"ring_destroyed", "exited"} => \A i \in Modules : pc[i] = "done"

StopInv == IInv /\ StopOrder /\ StopDrained /\ ChildLeaves /\ Joined
-----------------------------------------------------------------------------
\* A thread that has passed the stop command on never goes back.
LEMMA PassedStays ==
    IInv /\ [Next]_vars => \A j \in Modules : pc[j] \in Passed => pc'[j] \in Passed
<1> SUFFICES ASSUME IInv, [Next]_vars, NEW j \in Modules, pc[j] \in Passed PROVE pc'[j] \in Passed
  OBVIOUS
<1>a. pc \in [Modules -> Labels] /\ Places
  BY DEF IInv, TypeOK
<1> USE <1>a, Indices DEF Passed, Goto, Wait, Post, ChildGoto,
        controlVars, localVars, moduleVars, infoVars, childVars
<1>1. CASE PipelineSetup
  BY <1>1 DEF PipelineSetup, Places
<1>2. CASE ControlStep \/ UNCHANGED vars
  BY <1>2 DEF ControlStep, PipelineJoined, SubsystemDestroy, RaiseExitFlag,
     DestroyMemory, vars
<1>3. CASE CheckExit
  BY <1>3 DEF CheckExit
<1>4. CASE ring_buffer_pop
  BY <1>4 DEF ring_buffer_pop
<1>5. CASE Recycle
  BY <1>5 DEF Recycle, ring_buffer_push
<1>6. ASSUME NEW i \in Workers, process_start(i) \/ SetJob(i) PROVE pc'[j] \in Passed
  BY <1>6 DEF process_start, SetJob
<1>7. ASSUME NEW i \in Workers, PostJob(i) PROVE pc'[j] \in Passed
  BY <1>7 DEF PostJob
<1>8. ASSUME NEW i \in Workers, WaitResult(i) PROVE pc'[j] \in Passed
  BY <1>8 DEF WaitResult
<1>9. ASSUME NEW i \in Workers, StopJob(i) PROVE pc'[j] \in Passed
  BY <1>9 DEF StopJob
<1>10. ASSUME NEW i \in Workers, WaitNext(i) PROVE pc'[j] \in Passed
  BY <1>10 DEF WaitNext
<1>11. ASSUME NEW i \in Workers, SetNext(i) PROVE pc'[j] \in Passed
  BY <1>11 DEF SetNext
<1>12. ASSUME NEW i \in Workers, PostNext(i) PROVE pc'[j] \in Passed
  BY <1>12 DEF PostNext
<1>13. ASSUME NEW i \in Receivers, WaitCmd(i) PROVE pc'[j] \in Passed
  BY <1>13 DEF WaitCmd
<1>14. ASSUME NEW i \in Receivers, ReadCmd(i) PROVE pc'[j] \in Passed
  BY <1>14 DEF ReadCmd
<1>15. ASSUME NEW i \in Receivers, PostSlot(i) PROVE pc'[j] \in Passed
  BY <1>15 DEF PostSlot, AfterCmd
<1>16. ASSUME NEW i \in 1 .. Last - 1, TestResult(i) \/ Drop(i) PROVE pc'[j] \in Passed
  BY <1>16 DEF TestResult, Drop, ring_buffer_push
<1>17. ASSUME NEW i \in Workers, ChildWait(i) PROVE pc'[j] \in Passed
  BY <1>17 DEF ChildWait
<1>18. ASSUME NEW i \in Workers, ChildRead(i) PROVE pc'[j] \in Passed
  BY <1>18 DEF ChildRead
<1>19. ASSUME NEW i \in Workers, ChildPost(i) PROVE pc'[j] \in Passed
  BY <1>19 DEF ChildPost
<1>20. ASSUME NEW i \in Workers, ChildDies(i) PROVE pc'[j] \in Passed
  BY <1>20 DEF ChildDies
<1>21. ASSUME NEW i \in Workers, NEW status \in Statuses, ChildAct(i, status)
      PROVE  pc'[j] \in Passed
  BY <1>21 DEF ChildAct
<1> QED
  BY StepCases, <1>1, <1>2, <1>3, <1>4, <1>5, <1>6, <1>7, <1>8, <1>9, <1>10, <1>11,
     <1>12, <1>13, <1>14, <1>15, <1>16, <1>17, <1>18, <1>19, <1>20, <1>21
     DEF WorkerStep, ReceiverStep, ChildStep

\* The stop command comes to a module only from the one before it.
LEMMA StopArrives ==
    ASSUME IInv, [Next]_vars, NEW r \in Receivers, StopSeen(r)', ~StopSeen(r)
    PROVE  /\ pc[r - 1] = "stop_post_next" /\ pc'[r - 1] = "stop_set_job"
           /\ \A j \in Modules : j # r - 1 => pc'[j] = pc[j]
<1> DEFINE Goal == /\ pc[r - 1] = "stop_post_next" /\ pc'[r - 1] = "stop_set_job"
                   /\ \A j \in Modules : j # r - 1 => pc'[j] = pc[j]
<1> SUFFICES Goal
  OBVIOUS
<1>a. /\ r \in Modules /\ r - 1 \in Modules /\ r - 1 \in Workers /\ r \in Int /\ r # 0
      /\ new_cmd[r] \in Nat /\ Places /\ HandoverSlot(r)
      /\ Writing(r) => new_cmd[r] = 0 /\ ~Reading(r)
  BY Indices, SlotOwner DEF IInv, TypeOK, Handover
<1>b. /\ pc \in [Modules -> Labels] /\ new_cmd \in [Modules -> Nat]
      /\ m_cmd \in [Modules -> Cmds] /\ cmd \in [Modules -> Cmds]
      /\ \A i \in Modules : i \in Int
      /\ PROCESS_CMD_STOP = 0 /\ PROCESS_CMD_JOB = 1
  BY PipelineAssumption DEF IInv, TypeOK, Modules, PROCESS_CMD_STOP, PROCESS_CMD_JOB
<1> USE <1>a, <1>b, Indices DEF StopSeen, HasStop, StopLabels, Goto, Wait, Post, ChildGoto,
        controlVars, localVars, moduleVars, infoVars, childVars
<1>1. CASE PipelineSetup
  BY <1>1 DEF PipelineSetup, Places
<1>2. CASE ControlStep \/ UNCHANGED vars
  BY <1>2 DEF ControlStep, PipelineJoined, SubsystemDestroy, RaiseExitFlag,
     DestroyMemory, vars
<1>3. CASE CheckExit
  BY <1>3 DEF CheckExit
<1>4. CASE ring_buffer_pop
  BY <1>4 DEF ring_buffer_pop
<1>5. CASE Recycle
  BY <1>5 DEF Recycle, ring_buffer_push
<1>6. ASSUME NEW i \in Workers, process_start(i) \/ SetJob(i) PROVE Goal
  BY <1>6 DEF process_start, SetJob
<1>7. ASSUME NEW i \in Workers, PostJob(i) PROVE Goal
  BY <1>7 DEF PostJob
<1>8. ASSUME NEW i \in Workers, WaitResult(i) PROVE Goal
  BY <1>8 DEF WaitResult
<1>9. ASSUME NEW i \in Workers, StopJob(i) PROVE Goal
  BY <1>9 DEF StopJob
<1>10. ASSUME NEW i \in Workers, WaitNext(i) PROVE Goal
  BY <1>10 DEF WaitNext
<1>11. ASSUME NEW i \in Workers, SetNext(i) PROVE Goal
  BY <1>11 DEF SetNext, Writing, Reading
<1>12. ASSUME NEW i \in Workers, PostNext(i) PROVE Goal
  BY <1>12 DEF PostNext, HandoverSlot
<1>13. ASSUME NEW i \in Receivers, WaitCmd(i) PROVE Goal
  BY <1>13 DEF WaitCmd
<1>14. ASSUME NEW i \in Receivers, ReadCmd(i) PROVE Goal
  BY <1>14 DEF ReadCmd
<1>15. ASSUME NEW i \in Receivers, PostSlot(i) PROVE Goal
  BY <1>15 DEF PostSlot, AfterCmd
<1>16. ASSUME NEW i \in 1 .. Last - 1, TestResult(i) \/ Drop(i) PROVE Goal
  BY <1>16 DEF TestResult, Drop, ring_buffer_push
<1>17. ASSUME NEW i \in Workers, ChildWait(i) PROVE Goal
  BY <1>17 DEF ChildWait
<1>18. ASSUME NEW i \in Workers, ChildRead(i) PROVE Goal
  BY <1>18 DEF ChildRead
<1>19. ASSUME NEW i \in Workers, ChildPost(i) PROVE Goal
  BY <1>19 DEF ChildPost
<1>20. ASSUME NEW i \in Workers, ChildDies(i) PROVE Goal
  BY <1>20 DEF ChildDies
<1>21. ASSUME NEW i \in Workers, NEW status \in Statuses, ChildAct(i, status)
      PROVE  Goal
  BY <1>21 DEF ChildAct
<1> QED
  BY StepCases, <1>1, <1>2, <1>3, <1>4, <1>5, <1>6, <1>7, <1>8, <1>9, <1>10, <1>11,
     <1>12, <1>13, <1>14, <1>15, <1>16, <1>17, <1>18, <1>19, <1>20, <1>21
     DEF WorkerStep, ReceiverStep, ChildStep

\* The stop command does not overtake a job, and no job follows it.
LEMMA StopOrderStep == IInv /\ StopOrder /\ [Next]_vars => StopOrder'
<1> SUFFICES ASSUME IInv, StopOrder, [Next]_vars, NEW r \in Receivers, StopSeen(r)',
                    NEW j \in Modules, j < r
             PROVE  pc'[j] \in Passed
  BY DEF StopOrder, StopOrderAt, Modules, Receivers
<1>1. CASE StopSeen(r)
  BY <1>1, PassedStays DEF StopOrder, StopOrderAt
<1>2. CASE ~StopSeen(r)
  <2>1. /\ pc[r - 1] = "stop_post_next" /\ pc'[r - 1] = "stop_set_job"
        /\ \A k \in Modules : k # r - 1 => pc'[k] = pc[k]
    BY <1>2, StopArrives
  <2>2. CASE j = r - 1
    BY <2>1, <2>2 DEF Passed
  <2>3. CASE j # r - 1
    <3>1. r - 1 \in Receivers /\ j < r - 1
      BY <2>3, PipelineAssumption DEF Modules, Receivers
    <3>2. StopSeen(r - 1)
      BY <2>1 DEF StopSeen, HasStop, StopLabels
    <3> QED BY <2>1, <2>3, <3>1, <3>2 DEF StopOrder, StopOrderAt
  <2> QED BY <2>2, <2>3
<1> QED BY <1>1, <1>2

\* The stop command is the last one put into a slot: once it is there, or has been
\* taken out, the semaphore of new commands is down.
LEMMA StopDrainedStep == IInv /\ StopOrder /\ StopDrained /\ [Next]_vars => StopDrained'
<1> SUFFICES ASSUME IInv, StopOrder, StopDrained, [Next]_vars, NEW r \in Receivers, HasStop(r)'
             PROVE  new_cmd'[r] = 0
  BY DEF StopDrained, Receivers
<1>a. /\ r \in Modules /\ r - 1 \in Modules /\ r - 1 \in Workers /\ r \in Int /\ r # 0
      /\ new_cmd[r] \in Nat /\ Places
      /\ Reading(r) => new_cmd[r] = 0
      /\ HasStop(r) => new_cmd[r] = 0
      /\ HasStop(r) => pc[r - 1] \in Passed
  <2>1. r - 1 < r /\ r - 1 \in Modules
    BY Indices
  <2>2. HasStop(r) => pc[r - 1] \in Passed
    BY <2>1 DEF StopOrder, StopOrderAt, StopSeen
  <2> QED BY <2>2, Indices, SlotReader DEF IInv, TypeOK, StopDrained
<1>b. /\ pc \in [Modules -> Labels] /\ new_cmd \in [Modules -> Nat]
      /\ m_cmd \in [Modules -> Cmds] /\ cmd \in [Modules -> Cmds]
      /\ \A i \in Modules : i \in Int
  BY PipelineAssumption DEF IInv, TypeOK, Modules
<1> USE <1>a, <1>b, Indices DEF HasStop, StopLabels, Reading, Passed, Goto, Wait, Post, ChildGoto,
        controlVars, localVars, moduleVars, infoVars, childVars
<1>1. CASE PipelineSetup
  BY <1>1 DEF PipelineSetup, Places
<1>2. CASE ControlStep \/ UNCHANGED vars
  BY <1>2 DEF ControlStep, PipelineJoined, SubsystemDestroy, RaiseExitFlag,
     DestroyMemory, vars
<1>3. CASE CheckExit
  BY <1>3 DEF CheckExit
<1>4. CASE ring_buffer_pop
  BY <1>4 DEF ring_buffer_pop
<1>5. CASE Recycle
  BY <1>5 DEF Recycle, ring_buffer_push
<1>6. ASSUME NEW i \in Workers, process_start(i) \/ SetJob(i) PROVE new_cmd'[r] = 0
  BY <1>6 DEF process_start, SetJob
<1>7. ASSUME NEW i \in Workers, PostJob(i) PROVE new_cmd'[r] = 0
  BY <1>7 DEF PostJob
<1>8. ASSUME NEW i \in Workers, WaitResult(i) PROVE new_cmd'[r] = 0
  BY <1>8 DEF WaitResult
<1>9. ASSUME NEW i \in Workers, StopJob(i) PROVE new_cmd'[r] = 0
  BY <1>9 DEF StopJob
<1>10. ASSUME NEW i \in Workers, WaitNext(i) PROVE new_cmd'[r] = 0
  BY <1>10 DEF WaitNext
<1>11. ASSUME NEW i \in Workers, SetNext(i) PROVE new_cmd'[r] = 0
  BY <1>11 DEF SetNext
<1>12. ASSUME NEW i \in Workers, PostNext(i) PROVE new_cmd'[r] = 0
  BY <1>12 DEF PostNext
<1>13. ASSUME NEW i \in Receivers, WaitCmd(i) PROVE new_cmd'[r] = 0
  BY <1>13 DEF WaitCmd
<1>14. ASSUME NEW i \in Receivers, ReadCmd(i) PROVE new_cmd'[r] = 0
  BY <1>14 DEF ReadCmd
<1>15. ASSUME NEW i \in Receivers, PostSlot(i) PROVE new_cmd'[r] = 0
  BY <1>15 DEF PostSlot, AfterCmd
<1>16. ASSUME NEW i \in 1 .. Last - 1, TestResult(i) \/ Drop(i) PROVE new_cmd'[r] = 0
  BY <1>16 DEF TestResult, Drop, ring_buffer_push
<1>17. ASSUME NEW i \in Workers, ChildWait(i) PROVE new_cmd'[r] = 0
  BY <1>17 DEF ChildWait
<1>18. ASSUME NEW i \in Workers, ChildRead(i) PROVE new_cmd'[r] = 0
  BY <1>18 DEF ChildRead
<1>19. ASSUME NEW i \in Workers, ChildPost(i) PROVE new_cmd'[r] = 0
  BY <1>19 DEF ChildPost
<1>20. ASSUME NEW i \in Workers, ChildDies(i) PROVE new_cmd'[r] = 0
  BY <1>20 DEF ChildDies
<1>21. ASSUME NEW i \in Workers, NEW status \in Statuses, ChildAct(i, status)
      PROVE  new_cmd'[r] = 0
  BY <1>21 DEF ChildAct
<1> QED
  BY StepCases, <1>1, <1>2, <1>3, <1>4, <1>5, <1>6, <1>7, <1>8, <1>9, <1>10, <1>11,
     <1>12, <1>13, <1>14, <1>15, <1>16, <1>17, <1>18, <1>19, <1>20, <1>21
     DEF WorkerStep, ReceiverStep, ChildStep

\* A stopped thread's child is out of its loop for good.
LEMMA ChildLeavesStep == IInv /\ ChildLeaves /\ [Next]_vars => ChildLeaves'
<1> SUFFICES ASSUME IInv, ChildLeaves, [Next]_vars, NEW w \in Workers PROVE ChildLeavesAt(w)'
  BY DEF ChildLeaves, Workers
<1>a. /\ w \in Modules /\ w # Last /\ ChildLeavesAt(w) /\ HandoverJob(w) /\ JobTokenAt(w) /\ Places
      /\ sem_job[w] \in Nat /\ sem_result[w] \in Nat
  BY Indices DEF IInv, TypeOK, Handover, JobToken, ChildLeaves
<1>b. /\ pc \in [Modules -> Labels] /\ cpc \in [Workers -> ChildLabels]
      /\ sem_job \in [Workers -> Nat] /\ sem_result \in [Workers -> Nat]
  BY DEF IInv, TypeOK
<1> USE <1>a, <1>b, Indices DEF ChildLeavesAt, Goto, Wait, Post, ChildGoto,
        controlVars, localVars, moduleVars, infoVars, childVars
<1>1. CASE PipelineSetup
  BY <1>1 DEF PipelineSetup, Places
<1>2. CASE ControlStep \/ UNCHANGED vars
  BY <1>2 DEF ControlStep, PipelineJoined, SubsystemDestroy, RaiseExitFlag,
     DestroyMemory, vars
<1>3. CASE CheckExit
  BY <1>3 DEF CheckExit
<1>4. CASE ring_buffer_pop
  BY <1>4 DEF ring_buffer_pop
<1>5. CASE Recycle
  BY <1>5 DEF Recycle, ring_buffer_push
<1>6. ASSUME NEW i \in Workers, process_start(i) \/ SetJob(i) PROVE ChildLeavesAt(w)'
  BY <1>6 DEF process_start, SetJob
<1>7. ASSUME NEW i \in Workers, PostJob(i) PROVE ChildLeavesAt(w)'
  <2>1. pc[w] \notin {"wait_result", "stop_wait_result"} =>
          sem_result[w] = 0 /\ cpc[w] \notin {"act", "post"}
    BY JobOwner
  <2>2. /\ cpc' = cpc /\ sem_result' = sem_result
        /\ i \in Modules /\ pc[i] \in {"post_job", "stop_post_job"}
        /\ \A j \in Modules : j # i => pc'[j] = pc[j]
        /\ pc'[i] \in {"wait_result", "stop_wait_result"}
    BY <1>7 DEF PostJob
  <2>3. CASE i = w
    <3>1. pc[w] \in {"post_job", "stop_post_job"} /\ pc'[w] # "done"
      BY <2>2, <2>3
    <3>2. sem_result'[w] = 0 /\ cpc'[w] \notin {"act", "post"}
      BY <2>1, <2>2, <3>1
    <3>3. ~(sem_result'[w] > 0)
      BY <3>2
    <3> QED BY <3>1, <3>2, <3>3, Zenon DEF ChildLeavesAt
  <2>4. CASE i # w
    BY <2>2, <2>4
  <2> QED BY <2>3, <2>4
<1>8. ASSUME NEW i \in Workers, WaitResult(i) PROVE ChildLeavesAt(w)'
  BY <1>8 DEF WaitResult
<1>9. ASSUME NEW i \in Workers, StopJob(i) PROVE ChildLeavesAt(w)'
  BY <1>9 DEF StopJob
<1>10. ASSUME NEW i \in Workers, WaitNext(i) PROVE ChildLeavesAt(w)'
  BY <1>10 DEF WaitNext
<1>11. ASSUME NEW i \in Workers, SetNext(i) PROVE ChildLeavesAt(w)'
  BY <1>11 DEF SetNext
<1>12. ASSUME NEW i \in Workers, PostNext(i) PROVE ChildLeavesAt(w)'
  BY <1>12 DEF PostNext
<1>13. ASSUME NEW i \in Receivers, WaitCmd(i) PROVE ChildLeavesAt(w)'
  BY <1>13 DEF WaitCmd
<1>14. ASSUME NEW i \in Receivers, ReadCmd(i) PROVE ChildLeavesAt(w)'
  BY <1>14 DEF ReadCmd
<1>15. ASSUME NEW i \in Receivers, PostSlot(i) PROVE ChildLeavesAt(w)'
  BY <1>15 DEF PostSlot, AfterCmd
<1>16. ASSUME NEW i \in 1 .. Last - 1, TestResult(i) \/ Drop(i) PROVE ChildLeavesAt(w)'
  BY <1>16 DEF TestResult, Drop, ring_buffer_push
<1>17. ASSUME NEW i \in Workers, ChildWait(i) PROVE ChildLeavesAt(w)'
  BY <1>17 DEF ChildWait
<1>18. ASSUME NEW i \in Workers, ChildRead(i) PROVE ChildLeavesAt(w)'
  BY <1>18 DEF ChildRead, HandoverJob
<1>19. ASSUME NEW i \in Workers, ChildPost(i) PROVE ChildLeavesAt(w)'
  BY <1>19 DEF ChildPost, JobTokenAt
<1>20. ASSUME NEW i \in Workers, ChildDies(i) PROVE ChildLeavesAt(w)'
  BY <1>20 DEF ChildDies
<1>21. ASSUME NEW i \in Workers, NEW status \in Statuses, ChildAct(i, status)
      PROVE  ChildLeavesAt(w)'
  BY <1>21 DEF ChildAct
<1> QED
  BY StepCases, <1>1, <1>2, <1>3, <1>4, <1>5, <1>6, <1>7, <1>8, <1>9, <1>10, <1>11,
     <1>12, <1>13, <1>14, <1>15, <1>16, <1>17, <1>18, <1>19, <1>20, <1>21
     DEF WorkerStep, ReceiverStep, ChildStep

\* pipeline_thread gets past its joins only when every thread has ended.
LEMMA JoinedStep == IInv /\ Joined /\ [Next]_vars => Joined'
<1> SUFFICES ASSUME IInv, Joined, [Next]_vars, pt' \in {"ring_destroyed", "exited"},
                    NEW j \in Modules
             PROVE  pc'[j] = "done"
  BY DEF Joined
<1>a. pc \in [Modules -> Labels] /\ (pt \in {"ring_destroyed", "exited"} => pc[j] = "done")
  BY DEF IInv, TypeOK, Joined
<1> USE <1>a, Indices DEF Goto, Wait, Post, ChildGoto,
        controlVars, localVars, moduleVars, infoVars, childVars
<1>1. CASE PipelineSetup
  BY <1>1 DEF PipelineSetup, Places
<1>2. CASE ControlStep \/ UNCHANGED vars
  BY <1>2 DEF ControlStep, PipelineJoined, SubsystemDestroy, RaiseExitFlag,
     DestroyMemory, vars
<1>3. CASE CheckExit
  BY <1>3 DEF CheckExit
<1>4. CASE ring_buffer_pop
  BY <1>4 DEF ring_buffer_pop
<1>5. CASE Recycle
  BY <1>5 DEF Recycle, ring_buffer_push
<1>6. ASSUME NEW i \in Workers, process_start(i) \/ SetJob(i) PROVE pc'[j] = "done"
  BY <1>6 DEF process_start, SetJob
<1>7. ASSUME NEW i \in Workers, PostJob(i) PROVE pc'[j] = "done"
  BY <1>7 DEF PostJob
<1>8. ASSUME NEW i \in Workers, WaitResult(i) PROVE pc'[j] = "done"
  BY <1>8 DEF WaitResult
<1>9. ASSUME NEW i \in Workers, StopJob(i) PROVE pc'[j] = "done"
  BY <1>9 DEF StopJob
<1>10. ASSUME NEW i \in Workers, WaitNext(i) PROVE pc'[j] = "done"
  BY <1>10 DEF WaitNext
<1>11. ASSUME NEW i \in Workers, SetNext(i) PROVE pc'[j] = "done"
  BY <1>11 DEF SetNext
<1>12. ASSUME NEW i \in Workers, PostNext(i) PROVE pc'[j] = "done"
  BY <1>12 DEF PostNext
<1>13. ASSUME NEW i \in Receivers, WaitCmd(i) PROVE pc'[j] = "done"
  BY <1>13 DEF WaitCmd
<1>14. ASSUME NEW i \in Receivers, ReadCmd(i) PROVE pc'[j] = "done"
  BY <1>14 DEF ReadCmd
<1>15. ASSUME NEW i \in Receivers, PostSlot(i) PROVE pc'[j] = "done"
  BY <1>15 DEF PostSlot, AfterCmd
<1>16. ASSUME NEW i \in 1 .. Last - 1, TestResult(i) \/ Drop(i) PROVE pc'[j] = "done"
  BY <1>16 DEF TestResult, Drop, ring_buffer_push
<1>17. ASSUME NEW i \in Workers, ChildWait(i) PROVE pc'[j] = "done"
  BY <1>17 DEF ChildWait
<1>18. ASSUME NEW i \in Workers, ChildRead(i) PROVE pc'[j] = "done"
  BY <1>18 DEF ChildRead
<1>19. ASSUME NEW i \in Workers, ChildPost(i) PROVE pc'[j] = "done"
  BY <1>19 DEF ChildPost
<1>20. ASSUME NEW i \in Workers, ChildDies(i) PROVE pc'[j] = "done"
  BY <1>20 DEF ChildDies
<1>21. ASSUME NEW i \in Workers, NEW status \in Statuses, ChildAct(i, status)
      PROVE  pc'[j] = "done"
  BY <1>21 DEF ChildAct
<1> QED
  BY StepCases, <1>1, <1>2, <1>3, <1>4, <1>5, <1>6, <1>7, <1>8, <1>9, <1>10, <1>11,
     <1>12, <1>13, <1>14, <1>15, <1>16, <1>17, <1>18, <1>19, <1>20, <1>21
     DEF WorkerStep, ReceiverStep, ChildStep

\* StopInv holds at first and after every step.
LEMMA InitialStop == Init => StopInv
<1>1. Init => StopOrder /\ StopDrained /\ ChildLeaves /\ Joined
  BY Indices, PipelineAssumption DEF Init, StopOrder, StopOrderAt, StopDrained, ChildLeaves,
     ChildLeavesAt, Joined, StopSeen, HasStop, StopLabels
<1> QED BY <1>1, InitInv DEF StopInv

\* Each of its parts does.
LEMMA StopStep == StopInv /\ [Next]_vars => StopInv'
BY IInvStep, StopOrderStep, StopDrainedStep, ChildLeavesStep, JoinedStep DEF StopInv

\* So it holds in every state.
LEMMA StopInvariance == Spec => []StopInv
BY InitialStop, StopStep, PTL DEF Spec

\* A module that has the stop command has only modules before it that have passed
\* it on, and these have nothing any more.
LEMMA StopIsBehindData == StopInv => StopIsLast
<1>1. ASSUME StopInv PROVE StopIsLast
  <2> SUFFICES ASSUME NEW i \in Receivers, pc[i] \in StopLabels, NEW j \in Modules, j < i
               PROVE  ~Holding(j) /\ ~SlotFull(j + 1)
    BY DEF StopIsLast
  <2>1. \A k \in Modules : k < i => pc[k] \in Passed
    BY <1>1 DEF StopInv, StopOrder, StopOrderAt, StopSeen, HasStop
  <2>2. j + 1 \in Receivers /\ j + 1 \in Modules /\ (j + 1 < i \/ j + 1 = i)
    BY PipelineAssumption DEF Modules, Receivers
  <2>3. pc[j + 1] \in StopLabels
    BY <2>1, <2>2 DEF Passed, StopLabels
  <2>4. new_cmd[j + 1] = 0
    BY <1>1, <2>2, <2>3 DEF StopInv, StopDrained, HasStop
  <2>5. ~SlotFull(j + 1)
    BY <2>3, <2>4 DEF SlotFull, StopLabels
  <2>6. ~Holding(j)
    BY <2>1 DEF Holding, Passed
  <2> QED BY <2>5, <2>6
<1> QED BY <1>1

\* PROCESS_CMD_STOP reaches a module only behind all the data: when it has it, no
\* module before it holds a buffer and no slot up to it is full.
THEOREM StopComesLast == Spec => []StopIsLast
BY StopIsBehindData, StopInvariance, PTL

\* A ring that holds every buffer once holds DataCnt of them.
LEMMA FullRing ==
    ASSUME IInv, OneOwner, \A o \in Offsets : InRing(o)
    PROVE  Len(ring) = DataCnt
<1>1. ring \in Seq(Offsets) /\ Len(ring) \in Nat /\ ring \in [1 .. Len(ring) -> Offsets]
  BY DEF IInv, TypeOK
<1>2. IsFiniteSet(Offsets) /\ Cardinality(Offsets) = DataCnt
  BY PipelineAssumption, FS_Interval DEF Offsets
<1>3. \A n \in Nat : IsFiniteSet(1 .. n) /\ Cardinality(1 .. n) = n
  BY FS_Interval
<1>4. \A j, k \in 1 .. Len(ring) : ring[j] = ring[k] => j = k
  BY DEF OneOwner
<1>5. \A o \in Offsets : \E k \in 1 .. Len(ring) : ring[k] = o
  BY DEF InRing
<1>6. ring \in Bijection(1 .. Len(ring), Offsets)
  BY <1>1, <1>4, <1>5 DEF Bijection, Injection, Surjection, IsInjective
<1>7. ExistsBijection(1 .. Len(ring), Offsets)
  BY <1>6 DEF ExistsBijection
<1> QED BY <1>1, <1>2, <1>3, <1>7, FS_Bijection

\* When pipeline_thread destroys the ring and the process table every buffer is
\* back in the ring and every child is out of its loop, whichever children died.
THEOREM ShutdownIsClean == Spec => []CleanShutdown
<1>1. ASSUME StopInv, OwnershipInv PROVE CleanShutdown
  <2> SUFFICES ASSUME pt \in {"ring_destroyed", "exited"}
               PROVE  Len(ring) = DataCnt /\ \A i \in Workers : cpc[i] = "exited"
    BY DEF CleanShutdown
  <2>1. \A i \in Modules : pc[i] = "done"
    BY <1>1 DEF StopInv, Joined
  <2>2. \A i \in Workers : cpc[i] = "exited"
    BY <1>1, <2>1, Indices DEF StopInv, ChildLeaves, ChildLeavesAt
  <2>3. \A i \in Modules : ~Holding(i)
    BY <2>1 DEF Holding
  <2>4. \A r \in Receivers : ~SlotFull(r)
    <3>1. \A r \in Receivers : pc[r] = "done" /\ new_cmd[r] = 0
      BY <1>1, <2>1, Indices DEF StopInv, StopDrained, HasStop, StopLabels
    <3> QED BY <3>1 DEF SlotFull
  <2>5. \A o \in Offsets : InRing(o)
    BY <1>1, <2>3, <2>4 DEF OwnershipInv, NoLeak
  <2> QED BY <1>1, <2>2, <2>5, FullRing DEF OwnershipInv
<1> QED BY <1>1, StopInvariance, OwnershipInvariance, PTL

-----------------------------------------------------------------------------
(***************************************************************************)
(* The pipeline implements a conveyor (PipelineOrder), for every number of *)
(* modules and of buffers.  A step moves at most one buffer (lemma         *)
(* Movements), so it changes one stage of the belt, or two neighbouring    *)
(* ones; what FlattenSeq makes of the stages then changes at that place    *)
(* only (ReplaceOne, ReplaceTwo).  That is shown by induction on the       *)
(* number of stages: of the numbers for which it fails there would be a    *)
(* least one.                                                              *)
(*                                                                         *)
(* model.c takes the steps of pipeline_server.c and inherits the theorems. *)
(***************************************************************************)

\* h[i] is the first i sequences of q put together.
Sums(T, q, m, h) ==
    /\ m \in Nat
    /\ \A i \in 1 .. m : q[i] \in Seq(T)
    /\ \A i \in 0 .. m : h[i] \in Seq(T)
    /\ h[0] = << >>
    /\ \A i \in 1 .. m : h[i] = h[i - 1] \o q[i]

-----------------------------------------------------------------------------
\* q and p are m sequences each, the same but for those at the places D.
SameBut(T, q, p, m, D) ==
    /\ m \in Nat \ {0} /\ Len(q) = m /\ Len(p) = m
    /\ \A i \in 1 .. m : q[i] \in Seq(T) /\ p[i] \in Seq(T)
    /\ \A i \in (1 .. m) \ D : p[i] = q[i]

Agree(q, p, D) == \A i \in D : p[i] = q[i]

\* Every nonempty set of numbers has a least element.
LEMMA LeastNumber ==
    ASSUME NEW S \in SUBSET Nat, S # {}
    PROVE  \E x \in S : \A y \in S : x <= y
<1>1. IsWellFoundedOn(OpToRel(<, Nat), Nat)
  BY NatLessThanWellFounded
<1>2. PICK x \in S : \A y \in S : ~(<<y, x>> \in OpToRel(<, Nat))
  BY <1>1, WFMin
<1>3. \A y \in S : x <= y
  <2> TAKE y \in S
  <2>1. y \in Nat /\ x \in Nat OBVIOUS
  <2>2. y < x => <<y, x>> \in OpToRel(<, Nat) BY <2>1 DEF OpToRel
  <2>3. ~(y < x) BY <1>2, <2>2
  <2> QED BY <2>1, <2>3
<1> QED BY <1>3

\* The recursion of FlattenSeq has a solution up to every n.
Flattens(q, n, f) == f = [i \in 1 .. n |-> IF i = 1 THEN q[i] ELSE f[i - 1] \o q[i]]

\* A solution goes on by one.
LEMMA FlattenGoesOn ==
    ASSUME NEW q, NEW n \in Nat, NEW f, Flattens(q, n, f)
    PROVE  \E g : Flattens(q, n + 1, g)
<1> DEFINE g == [i \in 1 .. n + 1 |->
                    IF i <= n THEN f[i] ELSE IF i = 1 THEN q[i] ELSE f[i - 1] \o q[i]]
<1>1. ASSUME NEW i \in 1 .. n + 1 PROVE g[i] = IF i = 1 THEN q[i] ELSE g[i - 1] \o q[i]
  <2>1. CASE i = 1
    <3>1. CASE n = 0 BY <2>1, <3>1
    <3>2. CASE n # 0
      <4>1. 1 \in 1 .. n BY <3>2
      <4>2. f[1] = q[1] BY <4>1 DEF Flattens
      <4> QED BY <2>1, <3>2, <4>2
    <3> QED BY <3>1, <3>2
  <2>2. CASE i # 1 /\ i <= n
    <3>1. i \in 1 .. n /\ i - 1 \in 1 .. n + 1 /\ i - 1 <= n BY <2>2
    <3>2. f[i] = f[i - 1] \o q[i] BY <2>2, <3>1 DEF Flattens
    <3>3. g[i - 1] = f[i - 1] /\ g[i] = f[i] BY <2>2, <3>1
    <3> QED BY <2>2, <3>2, <3>3
  <2>3. CASE i # 1 /\ ~(i <= n)
    <3>1. i - 1 \in 1 .. n + 1 /\ i - 1 <= n BY <2>3
    <3>2. g[i - 1] = f[i - 1] BY <3>1
    <3> QED BY <2>3, <3>2
  <2> QED BY <2>1, <2>2, <2>3
<1>2. g = [i \in 1 .. n + 1 |-> IF i = 1 THEN q[i] ELSE g[i - 1] \o q[i]]
  <2>1. PICK k : k = g OBVIOUS
  <2>2. k = [i \in 1 .. n + 1 |-> k[i]] BY <2>1
  <2>3. \A i \in 1 .. n + 1 : k[i] = IF i = 1 THEN q[i] ELSE k[i - 1] \o q[i] BY <1>1, <2>1
  <2> HIDE DEF g
  <2>4. k = [i \in 1 .. n + 1 |-> IF i = 1 THEN q[i] ELSE k[i - 1] \o q[i]] BY <2>2, <2>3
  <2> QED BY <2>1, <2>4
<1> QED BY <1>2 DEF Flattens

\* So it has one for every length.
LEMMA FlattenExists ==
    ASSUME NEW q, NEW m \in Nat
    PROVE  \E f : Flattens(q, m, f)
<1> DEFINE D == {n \in Nat : ~\E f : Flattens(q, n, f)}
<1>1. SUFFICES ASSUME D # {} PROVE FALSE OBVIOUS
<1>2. D \in SUBSET Nat OBVIOUS
<1>3. PICK x \in D : \A y \in D : x <= y
  <2> HIDE DEF D
  <2> QED BY <1>1, <1>2, LeastNumber
<1>4. x # 0
  <2>1. PICK f : f = [i \in 1 .. 0 |-> 0] OBVIOUS
  <2>2. \A i \in 1 .. 0 : FALSE OBVIOUS
  <2>3. f = [i \in 1 .. 0 |-> IF i = 1 THEN q[i] ELSE f[i - 1] \o q[i]] BY <2>1, <2>2
  <2> QED BY <2>3 DEF Flattens
<1>5. x \in Nat /\ x - 1 \in Nat /\ x - 1 + 1 = x BY <1>4
<1>6. x - 1 \notin D
  <2>1. x - 1 \in D => x <= x - 1 BY <1>3
  <2> QED BY <1>5, <2>1
<1>7. PICK f : Flattens(q, x - 1, f) BY <1>5, <1>6
<1>8. \E g : Flattens(q, x, g) BY <1>5, <1>7, FlattenGoesOn
<1> QED BY <1>8

\* What FlattenSeq makes of some sequences is the last of their sums.
LEMMA FlattenSums ==
    ASSUME NEW T, NEW q, NEW m \in Nat \ {0}, Len(q) = m, \A i \in 1 .. m : q[i] \in Seq(T)
    PROVE  \E h : Sums(T, q, m, h) /\ SX!FlattenSeq(q) = h[m]
<1>1. \E f : f = [i \in 1 .. m |-> IF i = 1 THEN q[i] ELSE f[i - 1] \o q[i]]
  BY FlattenExists DEF Flattens
<1>2. PICK g : g = CHOOSE f : f = [i \in 1 .. m |-> IF i = 1 THEN q[i] ELSE f[i - 1] \o q[i]]
  OBVIOUS
<1>3. g = [i \in 1 .. m |-> IF i = 1 THEN q[i] ELSE g[i - 1] \o q[i]] BY <1>1, <1>2, Zenon
<1>4. g = CHOOSE f : f = [i \in 1 .. Len(q) |-> IF i = 1 THEN q[i] ELSE f[i - 1] \o q[i]] BY <1>2
<1>5. Len(q) # 0 OBVIOUS
<1>6. SX!FlattenSeq(q) = g[Len(q)] BY <1>4, <1>5, Zenon DEF SX!FlattenSeq
<1>7. \A i \in 1 .. m : g[i] = IF i = 1 THEN q[i] ELSE g[i - 1] \o q[i] BY <1>3, Zenon
<1>8. PICK h : h = [i \in 0 .. m |-> IF i = 0 THEN << >> ELSE g[i]] OBVIOUS
<1>9. h[0] = << >> /\ h[m] = g[m] BY <1>8
<1>10. ASSUME NEW i \in 1 .. m PROVE h[i] = h[i - 1] \o q[i]
  <2>1. h[i] = g[i] BY <1>8
  <2>2. CASE i = 1
    <3>1. << >> \o q[i] = q[i] BY ConcatEmptySeq
    <3>2. g[i] = q[i] BY <1>7, <2>2
    <3>3. h[i - 1] = << >> BY <1>9, <2>2
    <3> QED BY <2>1, <3>1, <3>2, <3>3
  <2>3. CASE i # 1
    <3>1. i - 1 \in 0 .. m /\ i - 1 # 0 BY <2>3
    <3>2. h[i - 1] = g[i - 1] BY <1>8, <3>1
    <3> QED BY <1>7, <2>1, <2>3, <3>2
  <2> QED BY <2>2, <2>3
<1>11. \A i \in 0 .. m : h[i] \in Seq(T)
  <2> DEFINE D == {i \in 0 .. m : h[i] \notin Seq(T)}
  <2>1. SUFFICES ASSUME D # {} PROVE FALSE OBVIOUS
  <2>2. D \in SUBSET Nat OBVIOUS
  <2>3. PICK x \in D : \A y \in D : x <= y
    <3> HIDE DEF D
    <3> QED BY <2>1, <2>2, LeastNumber
  <2>4. x \in 0 .. m /\ h[x] \notin Seq(T) OBVIOUS
  <2>5. x # 0
    <3>1. << >> \in Seq(T) OBVIOUS
    <3> QED BY <1>9, <2>4, <3>1
  <2>6. x \in 1 .. m /\ x - 1 \in 0 .. m BY <2>4, <2>5
  <2>7. ~(x <= x - 1) BY <2>6
  <2>8. h[x - 1] \in Seq(T) BY <2>3, <2>6, <2>7
  <2>9. h[x - 1] \o q[x] \in Seq(T) BY <2>6, <2>8, ConcatProperties
  <2> QED BY <1>10, <2>4, <2>6, <2>9
<1> QED BY <1>6, <1>9, <1>10, <1>11 DEF Sums

\* Sums agree as long as their terms do.
LEMMA SumsFront ==
    ASSUME NEW T, NEW q, NEW p, NEW m, NEW h, NEW k, Sums(T, q, m, h), Sums(T, p, m, k),
           NEW n \in 0 .. m, Agree(q, p, 1 .. n)
    PROVE  k[n] = h[n]
<1> DEFINE D == {i \in 0 .. n : k[i] # h[i]}
<1>0. m \in Nat BY DEF Sums
<1>1. SUFFICES ASSUME D # {} PROVE FALSE BY <1>0
<1>2. D \in SUBSET Nat OBVIOUS
<1>3. PICK x \in D : \A y \in D : x <= y
  <2> HIDE DEF D
  <2> QED BY <1>1, <1>2, LeastNumber
<1>4. x \in 0 .. n /\ k[x] # h[x] OBVIOUS
<1>5. x # 0 BY <1>4 DEF Sums
<1>6. x \in 1 .. n /\ x \in 1 .. m /\ x - 1 \in 0 .. n BY <1>0, <1>4, <1>5
<1>7. ~(x <= x - 1) BY <1>6
<1>8. k[x - 1] = h[x - 1] BY <1>3, <1>6, <1>7
<1>9. k[x] = k[x - 1] \o p[x] /\ h[x] = h[x - 1] \o q[x] BY <1>6 DEF Sums
<1>10. p[x] = q[x] BY <1>6 DEF Agree
<1> QED BY <1>4, <1>8, <1>9, <1>10

\* And from there on they grow by the same.
LEMMA SumsBack ==
    ASSUME NEW T, NEW q, NEW p, NEW m, NEW h, NEW k, Sums(T, q, m, h), Sums(T, p, m, k),
           NEW n \in 0 .. m, Agree(q, p, n + 1 .. m)
    PROVE  \E b \in Seq(T) : /\ h[m] = h[n] \o b /\ k[m] = k[n] \o b
                             /\ n = m => b = << >>
<1> DEFINE Good(i) == \E b \in Seq(T) : h[i] = h[n] \o b /\ k[i] = k[n] \o b
<1> DEFINE D == {i \in n .. m : ~Good(i)}
<1>0. m \in Nat /\ n \in Nat /\ m \in n .. m BY DEF Sums
<1>1. << >> \in Seq(T) /\ h[n] = h[n] \o << >> /\ k[n] = k[n] \o << >>
  <2>1. h[n] \in Seq(T) /\ k[n] \in Seq(T) BY DEF Sums
  <2> QED BY <2>1, ConcatEmptySeq
<1>2. D = {}
  <2>1. SUFFICES ASSUME D # {} PROVE FALSE OBVIOUS
  <2>2. D \in SUBSET Nat BY <1>0
  <2>3. PICK x \in D : \A y \in D : x <= y
    <3> HIDE DEF D
    <3> QED BY <2>1, <2>2, LeastNumber
  <2>4. x \in n .. m /\ ~Good(x) OBVIOUS
  <2>5. x # n BY <1>1, <2>4
  <2>6. x \in n + 1 .. m /\ x \in 1 .. m /\ x - 1 \in n .. m BY <1>0, <2>4, <2>5
  <2>7. ~(x <= x - 1) BY <2>6
  <2>8. Good(x - 1) BY <2>3, <2>6, <2>7
  <2>9. PICK b \in Seq(T) : h[x - 1] = h[n] \o b /\ k[x - 1] = k[n] \o b BY <2>8
  <2>10. /\ h[x] = h[x - 1] \o q[x] /\ k[x] = k[x - 1] \o p[x] /\ q[x] \in Seq(T)
         /\ h[n] \in Seq(T) /\ k[n] \in Seq(T)
    BY <2>6 DEF Sums
  <2>11. b \o q[x] \in Seq(T) BY <2>10, ConcatProperties
  <2>12. \A u \in Seq(T) : (u \o b) \o q[x] = u \o (b \o q[x])
    <3>1. PICK r : r = q[x] OBVIOUS
    <3>2. r \in Seq(T) BY <2>10, <3>1
    <3>3. \A u \in Seq(T) : (u \o b) \o r = u \o (b \o r) BY <3>2, ConcatAssociative
    <3> QED BY <3>1, <3>3
  <2>13. (h[n] \o b) \o q[x] = h[n] \o (b \o q[x]) BY <2>10, <2>12
  <2>14. (k[n] \o b) \o q[x] = k[n] \o (b \o q[x]) BY <2>10, <2>12
  <2>15. p[x] = q[x] BY <2>6 DEF Agree
  <2> QED BY <2>4, <2>9, <2>10, <2>11, <2>13, <2>14, <2>15
<1>3. Good(m) BY <1>0, <1>2
<1>4. CASE n = m BY <1>1, <1>4
<1>5. CASE n # m BY <1>3, <1>5
<1> QED BY <1>4, <1>5

\* The sums of q and p agree in front of the places x .. y, and grow by the same
\* behind them.
Around(T, q, p, m, x, y, h, k) ==
    /\ Sums(T, q, m, h) /\ SX!FlattenSeq(q) = h[m]
    /\ Sums(T, p, m, k) /\ SX!FlattenSeq(p) = k[m]
    /\ k[x - 1] = h[x - 1]
    /\ \E b \in Seq(T) : /\ h[m] = h[y] \o b /\ k[m] = k[y] \o b
                         /\ y = m => b = << >>

\* What is in front of the places where they differ is the same, and what is behind.
LEMMA SumsAround ==
    ASSUME NEW T, NEW q, NEW p, NEW m, NEW x, NEW y, SameBut(T, q, p, m, x .. y),
           x \in 1 .. m, y \in x .. m
    PROVE  \E h, k : Around(T, q, p, m, x, y, h, k)
<1>0. m \in Nat \ {0} BY DEF SameBut
<1>1. PICK h : Sums(T, q, m, h) /\ SX!FlattenSeq(q) = h[m] BY FlattenSums DEF SameBut
<1>2. PICK k : Sums(T, p, m, k) /\ SX!FlattenSeq(p) = k[m] BY FlattenSums DEF SameBut
<1>3. x - 1 \in 0 .. m /\ y \in 0 .. m BY <1>0
<1>4. Agree(q, p, 1 .. x - 1)
  <2>1. \A i \in 1 .. x - 1 : i \in (1 .. m) \ (x .. y) BY <1>0
  <2> QED BY <2>1 DEF SameBut, Agree
<1>5. Agree(q, p, y + 1 .. m)
  <2>1. \A i \in y + 1 .. m : i \in (1 .. m) \ (x .. y) BY <1>0
  <2> QED BY <2>1 DEF SameBut, Agree
<1>6. k[x - 1] = h[x - 1] BY <1>1, <1>2, <1>3, <1>4, SumsFront
<1>7. \E b \in Seq(T) : h[m] = h[y] \o b /\ k[m] = k[y] \o b /\ (y = m => b = << >>)
  BY <1>1, <1>2, <1>3, <1>5, SumsBack
<1> QED BY <1>1, <1>2, <1>6, <1>7 DEF Around

\* One of the sequences is replaced: a is in front of it, b behind it.
Replaced(q, p, m, n, a, b) ==
    /\ SX!FlattenSeq(q) = (a \o q[n]) \o b
    /\ SX!FlattenSeq(p) = (a \o p[n]) \o b
    /\ n = 1 => a = << >>
    /\ n = m => b = << >>

\* So every sequence put together with one piece replaced is.
LEMMA ReplaceOne ==
    ASSUME NEW T, NEW q, NEW p, NEW m, NEW n \in 1 .. m, SameBut(T, q, p, m, n .. n)
    PROVE  \E a, b \in Seq(T) : Replaced(q, p, m, n, a, b)
<1>0. m \in Nat /\ n \in Nat /\ n \in n .. m BY DEF SameBut
<1>a. PICK h, k : Around(T, q, p, m, n, n, h, k) BY <1>0, SumsAround
<1>1. /\ Sums(T, q, m, h) /\ SX!FlattenSeq(q) = h[m]
      /\ Sums(T, p, m, k) /\ SX!FlattenSeq(p) = k[m]
      /\ k[n - 1] = h[n - 1]
      /\ \E b \in Seq(T) : /\ h[m] = h[n] \o b /\ k[m] = k[n] \o b
                           /\ n = m => b = << >>
  BY <1>a DEF Around
<1>2. PICK b \in Seq(T) : h[m] = h[n] \o b /\ k[m] = k[n] \o b /\ (n = m => b = << >>) BY <1>1
<1>3. n - 1 \in 0 .. m BY <1>0
<1>4. h[n] = h[n - 1] \o q[n] /\ h[n - 1] \in Seq(T) /\ h[0] = << >> BY <1>1, <1>3 DEF Sums
<1>5. k[n] = k[n - 1] \o p[n] BY <1>1 DEF Sums
<1>6. n = 1 => h[n - 1] = << >> BY <1>4
<1>7. SX!FlattenSeq(q) = (h[n - 1] \o q[n]) \o b BY <1>1, <1>2, <1>4, Zenon
<1>8. SX!FlattenSeq(p) = (h[n - 1] \o p[n]) \o b BY <1>1, <1>2, <1>5, Zenon
<1> QED BY <1>2, <1>4, <1>6, <1>7, <1>8, Zenon DEF Replaced

\* Two neighbours differ, but are the same together.
Regrouped(T, q, p, m, n, l) ==
    /\ n \in 1 .. m /\ l \in 1 .. m /\ l = n + 1
    /\ SameBut(T, q, p, m, n .. l)
    /\ p[n] \o p[l] = q[n] \o q[l]

\* Then nothing changes.
LEMMA ReplaceTwo ==
    ASSUME NEW T, NEW q, NEW p, NEW m, NEW n, NEW l, Regrouped(T, q, p, m, n, l)
    PROVE  SX!FlattenSeq(p) = SX!FlattenSeq(q)
<1>0. /\ m \in Nat /\ n \in Nat /\ n \in 1 .. m /\ l \in n .. m /\ l \in 1 .. m
      /\ SameBut(T, q, p, m, n .. l)
  BY DEF SameBut, Regrouped
<1>a. PICK h, k : Around(T, q, p, m, n, l, h, k) BY <1>0, SumsAround
<1>1. /\ Sums(T, q, m, h) /\ SX!FlattenSeq(q) = h[m]
      /\ Sums(T, p, m, k) /\ SX!FlattenSeq(p) = k[m]
      /\ k[n - 1] = h[n - 1]
      /\ \E b \in Seq(T) : /\ h[m] = h[l] \o b /\ k[m] = k[l] \o b
                           /\ l = m => b = << >>
  BY <1>a DEF Around
<1>2. PICK b \in Seq(T) : h[m] = h[l] \o b /\ k[m] = k[l] \o b BY <1>1
<1>3. n - 1 \in 0 .. m /\ l - 1 = n BY <1>0 DEF Regrouped
<1>4. PICK u : u = h[n - 1] OBVIOUS
<1>5. h[n] = u \o q[n] /\ h[l] = h[n] \o q[l] /\ u \in Seq(T) BY <1>0, <1>1, <1>3, <1>4 DEF Sums
<1>6. k[n] = u \o p[n] /\ k[l] = k[n] \o p[l] BY <1>0, <1>1, <1>3, <1>4 DEF Sums
<1>7. q[n] \in Seq(T) /\ q[l] \in Seq(T) /\ p[n] \in Seq(T) /\ p[l] \in Seq(T) BY <1>0 DEF SameBut
<1>8. ASSUME NEW v \in Seq(T), NEW w \in Seq(T) PROVE (u \o v) \o w = u \o (v \o w)
  BY <1>5, ConcatAssociative
<1>9. (u \o q[n]) \o q[l] = u \o (q[n] \o q[l]) BY <1>7, <1>8, Zenon
<1>10. (u \o p[n]) \o p[l] = u \o (p[n] \o p[l]) BY <1>7, <1>8, Zenon
<1>12. p[n] \o p[l] = q[n] \o q[l] BY DEF Regrouped
<1>11. h[l] = k[l] BY <1>5, <1>6, <1>9, <1>10, <1>12, Zenon
<1> QED BY <1>1, <1>2, <1>11, Zenon

\* Nothing but empty sequences give the empty one.
LEMMA FlattenNothing ==
    ASSUME NEW q, NEW m \in Nat \ {0}, Len(q) = m, \A i \in 1 .. m : q[i] = << >>
    PROVE  SX!FlattenSeq(q) = << >>
<1>1. << >> \in Seq({}) OBVIOUS
<1>2. PICK h : Sums({}, q, m, h) /\ SX!FlattenSeq(q) = h[m] BY <1>1, FlattenSums
<1>3. h[m] \in Seq({}) BY <1>2 DEF Sums
<1>4. Seq({}) = {<< >>}
  <2>1. ASSUME NEW s \in Seq({}) PROVE s = << >> BY EmptySeq, ElementOfSeq
  <2> QED BY <1>1, <2>1
<1> QED BY <1>2, <1>3, <1>4

\* The k-th of s is x, and a and b are what is in front of it and behind it.
Taken(a, x, b, s, k) ==
    /\ s = (a \o <<x>>) \o b /\ k \in 1 .. Len(s) /\ s[k] = x
    /\ SubSeq(s, 1, k - 1) \o SubSeq(s, k + 1, Len(s)) = a \o b

\* The middle one of three can be taken out.
LEMMA TakeOut ==
    ASSUME NEW T, NEW a \in Seq(T), NEW b \in Seq(T), NEW x \in T
    PROVE  \E s, k : Taken(a, x, b, s, k)
<1>0. PICK s : s = (a \o <<x>>) \o b OBVIOUS
<1>1. PICK n, l : n = Len(a) /\ l = Len(b) OBVIOUS
<1>2. n \in Nat /\ l \in Nat BY <1>1
<1>3. <<x>> \in Seq(T) /\ Len(<<x>>) = 1 /\ <<x>>[1] = x OBVIOUS
<1>4. PICK c : c = a \o <<x>> OBVIOUS
<1>5. /\ c \in Seq(T) /\ Len(c) = n + 1
      /\ \A i \in 1 .. n + 1 : c[i] = IF i <= n THEN a[i] ELSE <<x>>[i - n]
  BY <1>1, <1>3, <1>4, ConcatProperties
<1>6. s = c \o b BY <1>0, <1>4
<1>7. /\ s \in Seq(T) /\ Len(s) = n + 1 + l
      /\ \A i \in 1 .. n + 1 + l : s[i] = IF i <= n + 1 THEN c[i] ELSE b[i - (n + 1)]
  <2>1. PICK j : j = n + 1 OBVIOUS
  <2>2. Len(c) = j /\ c \in Seq(T) BY <1>5, <2>1
  <2>3. /\ s \in Seq(T) /\ Len(s) = j + l
        /\ \A i \in 1 .. j + l : s[i] = IF i <= j THEN c[i] ELSE b[i - j]
    BY <1>1, <1>6, <2>2, ConcatProperties
  <2> QED BY <2>1, <2>3
<1>8. n + 1 \in 1 .. Len(s) /\ s[n + 1] = x
  <2>1. n + 1 \in 1 .. n + 1 /\ n + 1 - n = 1 /\ ~(n + 1 <= n) BY <1>2
  <2>5. PICK j : j = n + 1 OBVIOUS
  <2>6. j \in 1 .. n + 1 /\ ~(j <= n) BY <2>1, <2>5
  <2>7. c[j] = <<x>>[j - n] BY <1>5, <2>6
  <2>8. j - n = 1 BY <1>2, <2>5
  <2>2. c[j] = x BY <1>3, <2>7, <2>8, Zenon
  <2>4. c[n + 1] = x BY <2>2, <2>5
  <2>3. n + 1 \in 1 .. n + 1 + l BY <1>2
  <2> QED BY <1>2, <1>7, <2>4, <2>3
<1>9. \A i \in 1 .. Len(s) : s[i] \in T BY <1>7, ElementOfSeq
<1>10. SubSeq(s, 1, n) = a
  <2>1. PICK t : t = SubSeq(s, 1, n) OBVIOUS
  <2>2. \A i \in 1 .. n : i \in 1 .. Len(s) /\ 1 + i - 1 = i BY <1>2, <1>7
  <2>3. \A i \in 1 .. n : s[i] \in T BY <1>9, <2>2
  <2>4. /\ t \in Seq(T) /\ Len(t) = IF 1 <= n THEN n - 1 + 1 ELSE 0
        /\ \A i \in 1 .. n - 1 + 1 : t[i] = s[1 + i - 1]
    BY <1>2, <2>1, <2>3, SubSeqProperties
  <2>5. Len(t) = n /\ n - 1 + 1 = n BY <1>2, <2>4
  <2>6. \A i \in 1 .. n : t[i] = a[i]
    <3> TAKE i \in 1 .. n
    <3>1. i \in 1 .. n + 1 /\ i \in 1 .. n + 1 + l /\ i <= n /\ i <= n + 1 BY <1>2
    <3>2. t[i] = s[i] BY <2>2, <2>4, <2>5
    <3>3. s[i] = c[i] BY <1>7, <3>1
    <3>4. c[i] = a[i] BY <1>5, <3>1
    <3> QED BY <3>2, <3>3, <3>4
  <2>7. t = a BY <1>1, <2>4, <2>5, <2>6, SeqEqual
  <2> QED BY <2>1, <2>7
<1>11. SubSeq(s, n + 2, n + 1 + l) = b
  <2>1. PICK t, x0, y0 : t = SubSeq(s, x0, y0) /\ x0 = n + 2 /\ y0 = n + 1 + l OBVIOUS
  <2>2. x0 \in Int /\ y0 \in Int /\ y0 - x0 + 1 = l /\ (x0 <= y0 <=> l # 0) BY <1>2, <2>1
  <2>3. \A i \in x0 .. y0 : i \in 1 .. Len(s) BY <1>2, <1>7, <2>1
  <2>4. \A i \in x0 .. y0 : s[i] \in T BY <1>9, <2>3
  <2>5. /\ t \in Seq(T) /\ Len(t) = IF x0 <= y0 THEN y0 - x0 + 1 ELSE 0
        /\ \A i \in 1 .. y0 - x0 + 1 : t[i] = s[x0 + i - 1]
    BY <2>1, <2>2, <2>4, SubSeqProperties
  <2>6. Len(t) = l BY <1>2, <2>2, <2>5
  <2>7. \A i \in 1 .. l : t[i] = b[i]
    <3> TAKE i \in 1 .. l
    <3>1. /\ n + 1 + i \in 1 .. n + 1 + l /\ ~(n + 1 + i <= n + 1) /\ n + 1 + i - (n + 1) = i
          /\ x0 + i - 1 = n + 1 + i
      BY <1>2, <2>1
    <3>2. t[i] = s[n + 1 + i] BY <2>2, <2>5, <3>1
    <3>4. PICK j : j = n + 1 + i OBVIOUS
    <3>5. s[j] = b[j - (n + 1)] BY <1>7, <3>1, <3>4
    <3>6. j - (n + 1) = i BY <1>2, <3>4
    <3>7. s[j] = b[i] BY <3>5, <3>6, Zenon
    <3>8. t[i] = s[j] BY <3>2, <3>4, Zenon
    <3> QED BY <3>7, <3>8
  <2>8. t = b BY <1>1, <2>5, <2>6, <2>7, SeqEqual
  <2> QED BY <2>1, <2>8
<1>14. PICK j : j = n + 1 OBVIOUS
<1>15. j \in 1 .. Len(s) /\ s[j] = x BY <1>8, <1>14
<1>16. SubSeq(s, 1, j - 1) \o SubSeq(s, j + 1, Len(s)) = a \o b
  <2>1. j - 1 = n /\ j + 1 = n + 2 BY <1>2, <1>14
  <2>2. SubSeq(s, 1, j - 1) = a BY <1>10, <2>1, Zenon
  <2>3. SubSeq(s, j + 1, Len(s)) = b BY <1>7, <1>11, <2>1, Zenon
  <2> QED BY <2>2, <2>3, Zenon
<1> QED BY <1>0, <1>15, <1>16 DEF Taken

\* A sequence with one more in front.
LEMMA HeadTail1 ==
    ASSUME NEW T, NEW x \in T, NEW b \in Seq(T)
    PROVE  <<x>> \o b # << >> /\ Head(<<x>> \o b) = x /\ Tail(<<x>> \o b) = b
<1>1. <<x>> \in Seq(T) /\ Len(<<x>>) = 1 /\ <<x>>[1] = x OBVIOUS
<1>2. PICK s, n : s = <<x>> \o b /\ n = Len(b) OBVIOUS
<1>3. n \in Nat BY <1>2
<1>4. /\ s \in Seq(T) /\ Len(s) = 1 + n
      /\ \A i \in 1 .. 1 + n : s[i] = IF i <= 1 THEN <<x>>[i] ELSE b[i - 1]
  BY <1>1, <1>2, ConcatProperties
<1>5. s # << >> BY <1>3, <1>4
<1>6. s[1] = x BY <1>1, <1>3, <1>4
<1>7. Head(s) = x BY <1>4, <1>6
<1>8. PICK t : t = Tail(s) OBVIOUS
<1>9. t \in Seq(T) /\ Len(t) = n /\ \A i \in 1 .. n : t[i] = s[i + 1]
  <2>1. t \in Seq(T) /\ Len(t) = Len(s) - 1 /\ \A i \in 1 .. Len(t) : t[i] = s[i + 1]
    BY <1>4, <1>5, <1>8, HeadTailProperties
  <2>2. Len(t) = n BY <1>3, <1>4, <2>1
  <2> QED BY <2>1, <2>2
<1>10. \A i \in 1 .. n : t[i] = b[i]
  <2> TAKE i \in 1 .. n
  <2>1. PICK j : j = i + 1 OBVIOUS
  <2>2. j \in 1 .. 1 + n /\ ~(j <= 1) /\ j - 1 = i BY <1>3, <2>1
  <2>3. s[j] = b[j - 1] BY <1>4, <2>2
  <2>4. t[i] = s[j] BY <1>9, <2>1
  <2> QED BY <2>2, <2>3, <2>4
<1>11. t = b BY <1>2, <1>9, <1>10, SeqEqual
<1> QED BY <1>2, <1>5, <1>7, <1>8, <1>11

-----------------------------------------------------------------------------
\* The two parts of a stage of the belt, and the belt's stages in order.
Values == Offsets \cup {NoOffset}
Own(i) == IF Holding(i) /\ i # Last THEN <<off[i]>> ELSE << >>
InSlot(i) == IF i > 0 /\ SlotFull(i) THEN <<m_off[i]>> ELSE << >>
Stages == [k \in 1 .. Last + 1 |-> Stage(Last + 1 - k)]
Place(i) == Last + 1 - i
Sink == IF Holding(Last) THEN off[Last] ELSE NoOffset

\* A stage is what the thread has, then what waits in its slot.
LEMMA StageShape ==
    ASSUME TypeOK, NEW i \in Modules
    PROVE  /\ Own(i) \in Seq(Values) /\ InSlot(i) \in Seq(Values)
           /\ Stage(i) = Own(i) \o InSlot(i) /\ Stage(i) \in Seq(Values)
<1>1. off[i] \in Values /\ m_off[i] \in Values BY DEF TypeOK, Values
<1>2. Own(i) \in Seq(Values) BY <1>1 DEF Own
<1>3. InSlot(i) \in Seq(Values) BY <1>1 DEF InSlot
<1>4. Stage(i) = Own(i) \o InSlot(i) BY DEF Stage, Own, InSlot
<1> QED BY <1>2, <1>3, <1>4, ConcatProperties

\* The same after a step.
LEMMA StageShapeNext ==
    ASSUME TypeOK', NEW i \in Modules
    PROVE  /\ Own(i)' \in Seq(Values) /\ InSlot(i)' \in Seq(Values)
           /\ Stage(i)' = Own(i)' \o InSlot(i)' /\ Stage(i)' \in Seq(Values)
<1>1. off'[i] \in Values /\ m_off'[i] \in Values BY DEF TypeOK, Values
<1>2. Own(i)' \in Seq(Values) BY <1>1 DEF Own
<1>3. InSlot(i)' \in Seq(Values) BY <1>1 DEF InSlot
<1>4. Stage(i)' = Own(i)' \o InSlot(i)' BY DEF Stage, Own, InSlot
<1> QED BY <1>2, <1>3, <1>4, ConcatProperties

\* A module nearer the sink has an earlier place.
LEMMA StagePlaces ==
    /\ Last + 1 \in Nat \ {0}
    /\ Len(Stages) = Last + 1 /\ Len(Stages') = Last + 1
    /\ \A k \in 1 .. Last + 1 : Stages[k] = Stage(Last + 1 - k) /\ Stages'[k] = Stage(Last + 1 - k)'
    /\ \A k \in 1 .. Last + 1 : Last + 1 - k \in Modules /\ Place(Last + 1 - k) = k
    /\ \A i \in Modules : /\ Place(i) \in 1 .. Last + 1
                          /\ Stages[Place(i)] = Stage(i) /\ Stages'[Place(i)] = Stage(i)'
    /\ Belt = SX!FlattenSeq(Stages) /\ Belt' = SX!FlattenSeq(Stages')
<1>1. Last \in Nat /\ Modules = 0 .. Last BY PipelineAssumption DEF Modules
<1>2. Len(Stages) = Last + 1 /\ \A k \in 1 .. Last + 1 : Stages[k] = Stage(Last + 1 - k)
  BY <1>1 DEF Stages
<1>3. Len(Stages') = Last + 1 /\ \A k \in 1 .. Last + 1 : Stages'[k] = Stage(Last + 1 - k)'
  BY <1>1 DEF Stages
<1>4. \A k \in 1 .. Last + 1 : Last + 1 - k \in Modules /\ Place(Last + 1 - k) = k
  BY <1>1 DEF Place
<1>5. \A i \in Modules : Place(i) \in 1 .. Last + 1 /\ Last + 1 - Place(i) = i
  BY <1>1 DEF Place
<1>6. ASSUME NEW i \in Modules PROVE Stages[Place(i)] = Stage(i) /\ Stages'[Place(i)] = Stage(i)'
  <2>1. PICK k : k = Place(i) OBVIOUS
  <2>2. k \in 1 .. Last + 1 /\ Last + 1 - k = i BY <1>5, <2>1
  <2>3. Stages[k] = Stage(i) BY <1>2, <2>2
  <2>4. Stages'[k] = Stage(i)' BY <1>3, <2>2
  <2> QED BY <2>1, <2>3, <2>4
<1>7. Belt = SX!FlattenSeq(Stages) /\ Belt' = SX!FlattenSeq(Stages') BY DEF Belt, Stages
<1>8. Last + 1 \in Nat \ {0} BY <1>1
<1> QED BY <1>2, <1>3, <1>4, <1>5, <1>6, <1>7, <1>8, Zenon

\* Which stages a step changes.
LEMMA StagesChange ==
    ASSUME TypeOK, TypeOK', NEW D,
           \A i \in Modules : Place(i) \notin D => Stage(i)' = Stage(i)
    PROVE  SameBut(Values, Stages, Stages', Last + 1, D)
<1>1. \A i \in Modules : Stage(i) \in Seq(Values) BY StageShape
<1>2. \A i \in Modules : Stage(i)' \in Seq(Values) BY StageShapeNext
<1>3. \A k \in 1 .. Last + 1 : Stages[k] \in Seq(Values) /\ Stages'[k] \in Seq(Values)
  BY <1>1, <1>2, StagePlaces
<1>4. ASSUME NEW k \in (1 .. Last + 1) \ D PROVE Stages'[k] = Stages[k]
  <2>1. PICK i : i = Last + 1 - k OBVIOUS
  <2>2. i \in Modules /\ Place(i) = k /\ Stages[k] = Stage(i) /\ Stages'[k] = Stage(i)'
    BY <2>1, StagePlaces
  <2> QED BY <2>2
<1> QED BY <1>3, <1>4, StagePlaces DEF SameBut

\* Who keeps his buffer keeps his part of the belt.
LEMMA SameParts ==
    ASSUME NEW i
    PROVE  /\ SameHold(i) => Own(i)' = Own(i)
           /\ SameSlot(i) => InSlot(i)' = InSlot(i)
<1>1. ASSUME SameHold(i) PROVE Own(i)' = Own(i)
  <2>1. CASE Holding(i) /\ i # Last
    <3>1. Holding(i)' /\ off'[i] = off[i] BY <1>1, <2>1 DEF SameHold
    <3> QED BY <2>1, <3>1 DEF Own
  <2>2. CASE ~(Holding(i) /\ i # Last)
    <3>1. ~(Holding(i)' /\ i # Last) BY <1>1, <2>2 DEF SameHold
    <3> QED BY <2>2, <3>1 DEF Own
  <2> QED BY <2>1, <2>2
<1>2. ASSUME SameSlot(i) PROVE InSlot(i)' = InSlot(i)
  <2>1. CASE i > 0 /\ SlotFull(i)
    <3>1. SlotFull(i)' /\ m_off'[i] = m_off[i] BY <1>2, <2>1 DEF SameSlot
    <3> QED BY <2>1, <3>1 DEF InSlot
  <2>2. CASE ~(i > 0 /\ SlotFull(i))
    <3>1. ~(i > 0 /\ SlotFull(i)') BY <1>2, <2>2 DEF SameSlot
    <3> QED BY <2>2, <3>1 DEF InSlot
  <2> QED BY <2>1, <2>2
<1> QED BY <1>1, <1>2

\* Where neither changes the stage does not.
LEMMA SameStage ==
    ASSUME TypeOK, TypeOK', NEW i \in Modules, SameHold(i), i # 0 => SameSlot(i)
    PROVE  Stage(i)' = Stage(i)
<1>1. Own(i)' = Own(i) BY SameParts
<1>2. InSlot(i)' = InSlot(i)
  <2>1. CASE i = 0
    <3>1. ~(i > 0) BY <2>1
    <3> QED BY <3>1 DEF InSlot
  <2>2. CASE i # 0 BY <2>2, SameParts
  <2> QED BY <2>1, <2>2
<1> QED BY <1>1, <1>2, StageShape, StageShapeNext

\* The sink changes only with the finalization's buffer.
LEMMA SameSink == SameHold(Last) => Sink' = Sink
<1> SUFFICES ASSUME SameHold(Last) PROVE Sink' = Sink OBVIOUS
<1>1. CASE Holding(Last)
  <2>1. Holding(Last)' /\ off'[Last] = off[Last] BY <1>1 DEF SameHold
  <2> QED BY <1>1, <2>1 DEF Sink
<1>2. CASE ~Holding(Last)
  <2>1. ~Holding(Last)' BY <1>2 DEF SameHold
  <2> QED BY <1>2, <2>1 DEF Sink
<1> QED BY <1>1, <1>2

\* Neither a stage nor the sink changes.
LEMMA BeltStays ==
    ASSUME TypeOK, TypeOK', \A i \in Modules : Stage(i)' = Stage(i)
    PROVE  Belt' = Belt
<1>1. Stages' = Stages
  <2>1. \A k \in 1 .. Last + 1 : Stage(Last + 1 - k)' = Stage(Last + 1 - k) BY StagePlaces
  <2> QED BY <2>1 DEF Stages
<1> QED BY <1>1, StagePlaces
-----------------------------------------------------------------------------
\* A step that moves nothing.
LEMMA KeepStutters ==
    ASSUME TypeOK, TypeOK', KeepStep
    PROVE  ring' = ring /\ Belt' = Belt /\ Sink' = Sink
<1>1. \A i \in Modules : Stage(i)' = Stage(i)
  <2> TAKE i \in Modules
  <2>1. SameHold(i) BY DEF KeepStep
  <2>2. i # 0 => SameSlot(i) BY DEF KeepStep, Modules, Receivers
  <2> QED BY <2>1, <2>2, SameStage
<1>2. SameHold(Last) BY Indices DEF KeepStep
<1> QED BY <1>1, <1>2, BeltStays, SameSink DEF KeepStep

\* A pop puts a buffer on the end of the belt.
LEMMA PopCaptures ==
    ASSUME TypeOK, TypeOK', PopStep
    PROVE  AsConveyor!Capture
<1>0. 0 \in Modules /\ Last \in Modules /\ Last # 0 /\ 0 \notin Receivers
  BY PipelineAssumption DEF Modules, Receivers
<1>1. ASSUME NEW i \in Modules, Place(i) \notin Last + 1 .. Last + 1 PROVE Stage(i)' = Stage(i)
  <2>1. i # 0 BY <1>1, PipelineAssumption DEF Place
  <2>2. SameHold(i) /\ SameSlot(i) BY <2>1 DEF PopStep, Modules, Receivers
  <2> QED BY <2>2, SameStage
<1>2. SameBut(Values, Stages, Stages', Last + 1, Last + 1 .. Last + 1) BY <1>1, StagesChange
<1>3. Last + 1 \in 1 .. Last + 1 BY PipelineAssumption
<1>4. PICK a, b \in Seq(Values) : /\ Belt = (a \o Stages[Last + 1]) \o b
                                  /\ Belt' = (a \o Stages'[Last + 1]) \o b
                                  /\ b = << >>
  <2>1. PICK n : n = Last + 1 OBVIOUS
  <2>2. n \in 1 .. n /\ SameBut(Values, Stages, Stages', n, n .. n) BY <1>2, <1>3, <2>1
  <2>3. \E a, b \in Seq(Values) : Replaced(Stages, Stages', n, n, a, b) BY <2>2, ReplaceOne
  <2> QED BY <2>1, <2>3, StagePlaces DEF Replaced
<1>5. Stages[Last + 1] = Stage(0) /\ Stages'[Last + 1] = Stage(0)' 
  <2>1. Place(0) = Last + 1 BY PipelineAssumption DEF Place
  <2> QED BY <1>0, <2>1, StagePlaces
<1>6. Stage(0) = << >>
  <2>1. Own(0) = << >> /\ InSlot(0) = << >> BY DEF Own, InSlot, PopStep
  <2> QED BY <1>0, <2>1, StageShape, ConcatEmptySeq
<1>7. Stage(0)' = <<Head(ring)>> /\ Head(ring) \in Values
  <2>1. Own(0)' = <<Head(ring)>> /\ InSlot(0)' = << >> BY <1>0 DEF Own, InSlot, PopStep
  <2>2. Head(ring) \in Values BY DEF PopStep, TypeOK, Values
  <2>3. <<Head(ring)>> \in Seq(Values) BY <2>2
  <2>4. <<Head(ring)>> \o << >> = <<Head(ring)>> BY <2>3, ConcatEmptySeq
  <2> QED BY <1>0, <2>1, <2>2, <2>4, StageShapeNext
<1>8. Belt = a
  <2>1. (a \o << >>) \o << >> = a BY ConcatEmptySeq
  <2> QED BY <1>4, <1>5, <1>6, <2>1
<1>9. Belt' = Append(a, Head(ring))
  <2>1. PICK x : x = Head(ring) OBVIOUS
  <2>2. x \in Values BY <1>7, <2>1
  <2>3. a \o <<x>> = Append(a, x) /\ Append(a, x) \in Seq(Values)
    BY <2>2, AppendIsConcat, AppendProperties
  <2>4. Append(a, x) \o << >> = Append(a, x) BY <2>3, ConcatEmptySeq
  <2> QED BY <1>4, <1>5, <1>7, <2>1, <2>3, <2>4
<1>10. Sink' = Sink BY <1>0, SameSink DEF PopStep
<1> QED BY <1>8, <1>9, <1>10 DEF AsConveyor!Capture, PopStep, Sink

\* A module that gives its buffer back takes it off the belt; the finalization
\* has it in the sink.
LEMMA PushReturns ==
    ASSUME IInv, TypeOK', NEW i \in Modules, PushStep(i)
    PROVE  AsConveyor!Release \/ \E k \in 1 .. Len(Belt) : AsConveyor!Drop(k)
<1>0. TypeOK /\ off[i] \in Offsets BY DEF IInv, Handover, HoldsOffset, PushStep
<1>1. off[i] # NoOffset /\ off[i] \in Values BY <1>0, PipelineAssumption DEF Offsets, NoOffset, Values
<1>2. \A j \in Modules : j # 0 => SameSlot(j) BY DEF PushStep, Modules, Receivers
<1>3. CASE i = Last
  <2>1. \A j \in Modules : Stage(j)' = Stage(j)
    <3> TAKE j \in Modules
    <3>1. CASE j # Last BY <1>0, <1>2, <1>3, <3>1, SameStage DEF PushStep
    <3>2. CASE j = Last
      <4>1. Own(j)' = Own(j) BY <3>2 DEF Own
      <4>2. InSlot(j)' = InSlot(j) BY <1>2, <3>2, SameParts, PipelineAssumption
      <4> QED BY <1>0, <4>1, <4>2, StageShape, StageShapeNext
    <3> QED BY <3>1, <3>2
  <2>2. Belt' = Belt BY <1>0, <2>1, BeltStays
  <2>3. Sink = off[i] /\ Sink' = NoOffset BY <1>3 DEF Sink, PushStep
  <2> QED BY <1>1, <2>2, <2>3 DEF AsConveyor!Release, PushStep, Sink
<1>4. CASE i # Last
  <2>1. ASSUME NEW j \in Modules, Place(j) \notin Place(i) .. Place(i) PROVE Stage(j)' = Stage(j)
    <3>1. j # i BY <2>1, PipelineAssumption DEF Place, Modules
    <3>2. SameHold(j) /\ (j # 0 => SameSlot(j)) BY <1>2, <3>1 DEF PushStep
    <3> QED BY <1>0, <3>2, SameStage
  <2>2. SameBut(Values, Stages, Stages', Last + 1, Place(i) .. Place(i))
    BY <1>0, <2>1, StagesChange
  <2>3. Place(i) \in 1 .. Last + 1 /\ Stages[Place(i)] = Stage(i) /\ Stages'[Place(i)] = Stage(i)'
    BY StagePlaces
  <2>4. PICK a, b \in Seq(Values) : Belt = (a \o Stage(i)) \o b /\ Belt' = (a \o Stage(i)') \o b
    <3>1. \E a, b \in Seq(Values) : Replaced(Stages, Stages', Last + 1, Place(i), a, b)
      BY <2>2, <2>3, ReplaceOne
    <3> QED BY <2>3, <3>1, StagePlaces DEF Replaced
  <2>5. PICK x, c : x = off[i] /\ c = InSlot(i) OBVIOUS
  <2>6. x \in Values /\ c \in Seq(Values) /\ <<x>> \in Seq(Values)
    <3>1. c \in Seq(Values) BY <1>0, <2>5, StageShape
    <3> QED BY <1>1, <2>5, <3>1
  <2>7. Stage(i) = <<x>> \o c
    <3>1. Own(i) = <<x>> BY <1>4, <2>5 DEF Own, PushStep
    <3> QED BY <1>0, <2>5, <3>1, StageShape
  <2>8. Stage(i)' = c
    <3>1. Own(i)' = << >> BY DEF Own, PushStep
    <3>2. InSlot(i)' = c
      <4>1. CASE i = 0
        <5>1. ~(i > 0) BY <4>1
        <5> QED BY <2>5, <5>1 DEF InSlot
      <4>2. CASE i # 0 BY <1>2, <2>5, <4>2, SameParts
      <4> QED BY <4>1, <4>2
    <3>3. << >> \o c = c BY <2>6, ConcatEmptySeq
    <3> QED BY <3>1, <3>2, <3>3, StageShapeNext
  <2>9. c \o b \in Seq(Values) BY <2>6, ConcatProperties
  <2>10. Belt = (a \o <<x>>) \o (c \o b) /\ Belt' = a \o (c \o b)
    <3>1. (a \o (<<x>> \o c)) \o b = a \o ((<<x>> \o c) \o b)
      <4>1. <<x>> \o c \in Seq(Values) BY <2>6, ConcatProperties
      <4> QED BY <4>1, ConcatAssociative
    <3>2. (<<x>> \o c) \o b = <<x>> \o (c \o b) BY <2>6, ConcatAssociative
    <3>3. (a \o <<x>>) \o (c \o b) = a \o (<<x>> \o (c \o b)) BY <2>6, <2>9, ConcatAssociative
    <3>4. (a \o c) \o b = a \o (c \o b) BY <2>6, ConcatAssociative
    <3> QED BY <2>4, <2>7, <2>8, <3>1, <3>2, <3>3, <3>4, Zenon
  <2>11. PICK s, k : /\ s = (a \o <<x>>) \o (c \o b) /\ k \in 1 .. Len(s) /\ s[k] = x
                     /\ SubSeq(s, 1, k - 1) \o SubSeq(s, k + 1, Len(s)) = a \o (c \o b)
    <3>1. \E s, k : Taken(a, x, c \o b, s, k) BY <2>6, <2>9, TakeOut
    <3> QED BY <3>1 DEF Taken
  <2>12. s = Belt BY <2>10, <2>11
  <2>13. Sink' = Sink BY <1>4, Indices, SameSink DEF PushStep
  <2>14. /\ k \in 1 .. Len(Belt) /\ Belt[k] = off[i]
         /\ Belt' = SubSeq(Belt, 1, k - 1) \o SubSeq(Belt, k + 1, Len(Belt))
    BY <2>5, <2>10, <2>11, <2>12
  <2>15. AsConveyor!Drop(k) BY <2>13, <2>14 DEF AsConveyor!Drop, PushStep, Sink
  <2> QED BY <2>14, <2>15
<1> QED BY <1>3, <1>4

\* A buffer put into the next module's slot stays where it is on the belt.
LEMMA PutStutters ==
    ASSUME IInv, TypeOK', NEW i \in Workers, PutStep(i)
    PROVE  ring' = ring /\ Belt' = Belt /\ Sink' = Sink
<1>0. TypeOK /\ off[i] \in Values BY Indices DEF IInv, Handover, HoldsOffset, PutStep, Values
<1>1. /\ i \in Modules /\ i + 1 \in Modules /\ i + 1 \in Receivers /\ i # Last /\ i \in Nat
      /\ i + 1 > 0 /\ i + 1 # i
  BY PipelineAssumption DEF Modules, Workers, Receivers
<1>2. PICK x, n, l : x = off[i] /\ n = Place(i + 1) /\ l = Place(i) OBVIOUS
<1>3. n \in 1 .. Last + 1 /\ l \in 1 .. Last + 1 /\ l = n + 1
  <2>1. l = n + 1 BY <1>1, <1>2, PipelineAssumption DEF Place
  <2> QED BY <1>1, <1>2, <2>1, StagePlaces
<1>4. ASSUME NEW j \in Modules, Place(j) \notin n .. l PROVE Stage(j)' = Stage(j)
  <2>0. n \in n .. l /\ l \in n .. l BY <1>3
  <2>1. j # i /\ j # i + 1 BY <1>2, <1>4, <2>0
  <2>2. SameHold(j) /\ (j # 0 => SameSlot(j)) BY <2>1 DEF PutStep, Modules, Receivers
  <2> QED BY <1>0, <2>2, SameStage
<1>5. SameBut(Values, Stages, Stages', Last + 1, n .. l) BY <1>0, <1>4, StagesChange
<1>6. /\ Stages[n] = Stage(i + 1) /\ Stages'[n] = Stage(i + 1)'
      /\ Stages[l] = Stage(i) /\ Stages'[l] = Stage(i)'
  BY <1>1, <1>2, StagePlaces
<1>7. PICK o, c : o = Own(i + 1) /\ c = InSlot(i) OBVIOUS
<1>8. o \in Seq(Values) /\ c \in Seq(Values) /\ <<x>> \in Seq(Values)
  <2>1. o \in Seq(Values) /\ c \in Seq(Values) BY <1>0, <1>1, <1>7, StageShape
  <2> QED BY <1>0, <1>2, <2>1
<1>9. Stage(i + 1) = o /\ Stage(i) = <<x>> \o c
  <2>1. InSlot(i + 1) = << >> BY DEF InSlot, PutStep
  <2>2. Own(i) = <<x>> BY <1>1, <1>2 DEF Own, PutStep
  <2>3. o \o << >> = o BY <1>8, ConcatEmptySeq
  <2> QED BY <1>0, <1>1, <1>7, <2>1, <2>2, <2>3, StageShape
<1>10. Stage(i + 1)' = o \o <<x>> /\ Stage(i)' = c
  <2>1. Own(i + 1)' = o BY <1>1, <1>7, SameParts DEF PutStep
  <2>2. InSlot(i + 1)' = <<x>> BY <1>1, <1>2 DEF InSlot, PutStep
  <2>3. Own(i)' = << >> BY DEF Own, PutStep
  <2>4. InSlot(i)' = c
    <3>1. CASE i = 0
      <4>1. ~(i > 0) BY <3>1
      <4> QED BY <1>7, <4>1 DEF InSlot
    <3>2. CASE i # 0
      <4>1. i \in Receivers BY <1>1, <3>2 DEF Modules, Receivers
      <4>2. SameSlot(i) BY <1>1, <4>1 DEF PutStep
      <4> QED BY <1>7, <4>2, SameParts
    <3> QED BY <3>1, <3>2
  <2>5. << >> \o c = c BY <1>8, ConcatEmptySeq
  <2> QED BY <1>1, <2>1, <2>2, <2>3, <2>4, <2>5, StageShapeNext
<1>11. (o \o <<x>>) \o c = o \o (<<x>> \o c) BY <1>8, ConcatAssociative
<1>12. Stages'[n] \o Stages'[l] = Stages[n] \o Stages[l] BY <1>6, <1>9, <1>10, <1>11
<1>13. Regrouped(Values, Stages, Stages', Last + 1, n, l) BY <1>3, <1>5, <1>12 DEF Regrouped
<1>14. Belt' = Belt BY <1>13, ReplaceTwo, StagePlaces
<1>15. Sink' = Sink BY <1>1, Indices, SameSink DEF PutStep
<1> QED BY <1>14, <1>15 DEF PutStep

\* A buffer taken out of the slot stays on the belt; the finalization takes the
\* first one off it.
LEMMA TakeDelivers ==
    ASSUME IInv, TypeOK', NEW i \in Receivers, TakeStep(i)
    PROVE  AsConveyor!Deliver \/ (ring' = ring /\ Belt' = Belt /\ Sink' = Sink)
<1>0. TypeOK /\ m_off[i] \in Values BY DEF IInv, Handover, HandoverSlot, TakeStep, Values
<1>1. i \in Modules /\ i # 0 /\ i > 0 /\ Last \in Modules
  BY PipelineAssumption DEF Modules, Receivers
<1>2. PICK x : x = m_off[i] OBVIOUS
<1>3. x \in Values /\ <<x>> \in Seq(Values) /\ << >> \in Seq(Values) BY <1>0, <1>2
<1>4. Stage(i) = <<x>>
  <2>1. Own(i) = << >> /\ InSlot(i) = <<x>> BY <1>1, <1>2 DEF Own, InSlot, TakeStep
  <2>2. << >> \o <<x>> = <<x>> BY <1>3, ConcatEmptySeq
  <2> QED BY <1>0, <1>1, <2>1, <2>2, StageShape
<1>5. InSlot(i)' = << >> BY DEF InSlot, TakeStep
<1>6. \A j \in Modules : j # i => Stage(j)' = Stage(j)
  <2> TAKE j \in Modules
  <2> HAVE j # i
  <2>1. SameHold(j) /\ (j # 0 => SameSlot(j)) BY DEF TakeStep, Modules, Receivers
  <2> QED BY <1>0, <2>1, SameStage
<1>7. CASE i # Last
  <2>1. Own(i)' = <<x>> BY <1>2, <1>7 DEF Own, TakeStep
  <2>2. <<x>> \o << >> = <<x>> BY <1>3, ConcatEmptySeq
  <2>3. Stage(i)' = <<x>> BY <1>1, <1>5, <2>1, <2>2, StageShapeNext
  <2>4. Belt' = Belt BY <1>0, <1>4, <1>6, <2>3, BeltStays
  <2>5. Sink' = Sink BY <1>1, <1>7, SameSink DEF TakeStep
  <2> QED BY <2>4, <2>5 DEF TakeStep
<1>8. CASE i = Last
  <2>1. Own(i)' = << >> BY <1>8 DEF Own
  <2>2. << >> \o << >> = << >> BY <1>3, ConcatEmptySeq
  <2>3. Stage(i)' = << >> BY <1>1, <1>5, <2>1, <2>2, StageShapeNext
  <2>4. Place(i) = 1 BY <1>8, PipelineAssumption DEF Place
  <2>5. ASSUME NEW j \in Modules, Place(j) \notin 1 .. 1 PROVE Stage(j)' = Stage(j)
    <3>1. j # i BY <2>4, <2>5
    <3> QED BY <1>6, <3>1
  <2>6. SameBut(Values, Stages, Stages', Last + 1, 1 .. 1) BY <1>0, <2>5, StagesChange
  <2>7. 1 \in 1 .. Last + 1 /\ Stages[1] = <<x>> /\ Stages'[1] = << >>
    BY <1>1, <1>4, <2>3, <2>4, StagePlaces
  <2>8. PICK a, b \in Seq(Values) : /\ Belt = (a \o <<x>>) \o b /\ Belt' = (a \o << >>) \o b
                                    /\ a = << >>
    <3>1. \E a, b \in Seq(Values) : Replaced(Stages, Stages', Last + 1, 1, a, b)
      BY <2>6, <2>7, ReplaceOne
    <3> QED BY <2>7, <3>1, StagePlaces DEF Replaced
  <2>9. Belt = <<x>> \o b /\ Belt' = b
    <3>1. << >> \o <<x>> = <<x>> /\ << >> \o b = b BY <1>3, ConcatEmptySeq
    <3> QED BY <2>2, <2>8, <3>1
  <2>10. Belt # << >> /\ Head(Belt) = x /\ Tail(Belt) = b
    <3>1. PICK s : s = <<x>> \o b OBVIOUS
    <3>2. s # << >> /\ Head(s) = x /\ Tail(s) = b BY <1>3, <3>1, HeadTail1
    <3> QED BY <2>9, <3>1, <3>2
  <2>11. Sink = NoOffset /\ Sink' = x BY <1>2, <1>8 DEF Sink, TakeStep
  <2> QED BY <2>9, <2>10, <2>11 DEF AsConveyor!Deliver, TakeStep, Sink
<1> QED BY <1>7, <1>8

\* Nobody has a buffer: there is nothing on the belt.
LEMMA NothingOnBelt ==
    /\ (\A i \in Modules : ~Holding(i)) /\ (\A r \in Receivers : ~SlotFull(r))
          => Belt = << >> /\ Sink = NoOffset
    /\ (\A i \in Modules : ~Holding(i)') /\ (\A r \in Receivers : ~SlotFull(r)')
          => Belt' = << >> /\ Sink' = NoOffset
<1>0. << >> \in Seq({}) /\ << >> \o << >> = << >> BY ConcatEmptySeq
<1>1. Last \in Modules BY Indices
<1>2. ASSUME \A i \in Modules : ~Holding(i), \A r \in Receivers : ~SlotFull(r)
      PROVE  Belt = << >> /\ Sink = NoOffset
  <2>1. ASSUME NEW i \in Modules PROVE Stage(i) = << >>
    <3>1. Own(i) = << >> BY <1>2, <2>1 DEF Own
    <3>2. InSlot(i) = << >> BY <1>2, <2>1 DEF InSlot, Modules, Receivers
    <3>3. Stage(i) = Own(i) \o InSlot(i) BY DEF Stage, Own, InSlot
    <3> QED BY <1>0, <3>1, <3>2, <3>3
  <2>2. \A k \in 1 .. Last + 1 : Stages[k] = << >> BY <2>1, StagePlaces
  <2>3. SX!FlattenSeq(Stages) = << >> BY <2>2, StagePlaces, FlattenNothing
  <2> QED BY <1>1, <1>2, <2>3, StagePlaces DEF Sink
<1>3. ASSUME \A i \in Modules : ~Holding(i)', \A r \in Receivers : ~SlotFull(r)'
      PROVE  Belt' = << >> /\ Sink' = NoOffset
  <2>1. ASSUME NEW i \in Modules PROVE Stage(i)' = << >>
    <3>1. Own(i)' = << >> BY <1>3, <2>1 DEF Own
    <3>2. InSlot(i)' = << >> BY <1>3, <2>1 DEF InSlot, Modules, Receivers
    <3>3. Stage(i)' = Own(i)' \o InSlot(i)' BY DEF Stage, Own, InSlot
    <3> QED BY <1>0, <3>1, <3>2, <3>3
  <2>2. \A k \in 1 .. Last + 1 : Stages'[k] = << >> BY <2>1, StagePlaces
  <2>3. SX!FlattenSeq(Stages') = << >> BY <2>2, StagePlaces, FlattenNothing
  <2> QED BY <1>1, <1>3, <2>3, StagePlaces DEF Sink
<1> QED BY <1>2, <1>3

\* Before the set-up there is no buffer anywhere.
LEMMA BeforeSetup ==
    ASSUME IInv, pt = "setup"
    PROVE  ring = << >> /\ Belt = << >> /\ Sink = NoOffset
<1>1. ring = << >> /\ \A i \in Modules : pc[i] = "none" BY DEF IInv, Places
<1>2. \A i \in Modules : ~Holding(i) BY <1>1 DEF Holding
<1>3. ASSUME NEW r \in Receivers PROVE ~SlotFull(r)
  <2>1. r \in Modules /\ new_cmd[r] \in Nat /\ result[r] \in Nat /\ SlotTokenAt(r)
    BY Indices DEF IInv, TypeOK, SlotToken
  <2>2. new_cmd[r] = 0 BY <2>1 DEF SlotTokenAt
  <2> QED BY <1>1, <2>1, <2>2 DEF SlotFull
<1> QED BY <1>1, <1>2, <1>3, NothingOnBelt

\* The set-up fills the ring.
LEMMA SetupFills ==
    ASSUME IInv, PipelineSetup
    PROVE  AsConveyor!Fill
<1>1. ring = << >> /\ Belt = << >> /\ Sink = NoOffset BY BeforeSetup DEF PipelineSetup
<1>2. \A i \in Modules : ~Holding(i)' BY DEF PipelineSetup, Holding
<1>3. \A r \in Receivers : ~SlotFull(r)' BY Indices DEF PipelineSetup, SlotFull
<1>4. Belt' = << >> /\ Sink' = NoOffset BY <1>2, <1>3, NothingOnBelt
<1>5. ring' = [k \in 1 .. DataCnt |-> k - 1] BY DEF PipelineSetup
<1> QED BY <1>1, <1>4, <1>5 DEF AsConveyor!Fill, Sink

\* At first the conveyor is empty.
LEMMA InitialBelt == Init => AsConveyor!Init
<1>1. Init => AsConveyor!Init
  <2>1. ASSUME Init PROVE AsConveyor!Init
    <3>1. ring = << >> /\ Belt = << >> /\ Sink = NoOffset
      BY <2>1, InitInv, BeforeSetup DEF Init
    <3> QED BY <3>1 DEF AsConveyor!Init, Sink
  <2> QED BY <2>1
<1> QED BY <1>1

\* Every step of the pipeline is one of the conveyor, or none.
LEMMA ConveyorStep ==
    IInv /\ IInv' /\ [Next]_vars => [AsConveyor!Next]_(AsConveyor!vars)
<1>1. IInv /\ IInv' /\ [Next]_vars => [AsConveyor!Next]_(AsConveyor!vars)
  <2> SUFFICES ASSUME IInv, IInv', [Next]_vars PROVE [AsConveyor!Next]_(AsConveyor!vars)
    OBVIOUS
  <2>0. TypeOK /\ TypeOK' BY DEF IInv
  <2>1. CASE PipelineSetup
    BY <2>1, SetupFills DEF AsConveyor!Next
  <2>2. ASSUME ring' = ring, Belt' = Belt, Sink' = Sink
        PROVE  [AsConveyor!Next]_(AsConveyor!vars)
    BY <2>2 DEF AsConveyor!vars, Sink
  <2>3. CASE KeepStep
    BY <2>0, <2>2, <2>3, KeepStutters
  <2>4. CASE PopStep
    BY <2>0, <2>4, PopCaptures DEF AsConveyor!Next
  <2>5. ASSUME NEW i \in Modules, PushStep(i) PROVE [AsConveyor!Next]_(AsConveyor!vars)
    BY <2>0, <2>5, PushReturns DEF AsConveyor!Next
  <2>6. ASSUME NEW i \in Workers, PutStep(i) PROVE [AsConveyor!Next]_(AsConveyor!vars)
    BY <2>0, <2>2, <2>6, PutStutters
  <2>7. ASSUME NEW i \in Receivers, TakeStep(i) PROVE [AsConveyor!Next]_(AsConveyor!vars)
    <3>1. CASE AsConveyor!Deliver BY <3>1 DEF AsConveyor!Next
    <3> QED BY <2>0, <2>2, <2>7, <3>1, TakeDelivers
  <2> QED BY <2>1, <2>3, <2>4, <2>5, <2>6, <2>7, Movements DEF Movement
<1> QED BY <1>1

\* pipeline_server.c implements a conveyor: whatever the threads' interleaving,
\* whatever the children return and whichever of them die, data reaches the
\* finalization in the order in which the source took the buffers, each at most
\* once, and only the processors take any off.
THEOREM PipelineIsAConveyor == Spec => DeliveredInOrder
BY InitialBelt, ConveyorStep, Invariance, PTL DEF Spec, DeliveredInOrder, AsConveyor!Spec
-----------------------------------------------------------------------------
\* Every step of model.c is one of pipeline_server.c: the functions have other
\* names, mcapturer never fails, mfilter drops or keeps.
LEMMA ModelStep ==
    ASSUME 0 \in Statuses, 1 \in Statuses, ModelNext
    PROVE  Next
<1>1. ASSUME NEW i \in Modules, ModelThread(i) PROVE ModuleThread(i)
  <2>1. CASE i = 0
    BY <1>1, <2>1 DEF ModelThread, thread_method, ModelSource, PassOn, ModuleThread,
       source_thread, Stopping
  <2>2. CASE i # 0 /\ i # Last
    <3>1. i \in 1 .. Last - 1 BY <2>2, PipelineAssumption DEF Modules
    <3> QED BY <1>1, <2>2, <3>1 DEF ModelThread, thread_method, processor_thread, PassOn,
               ModuleThread, process_thread, Stopping
  <2>3. CASE i # 0 /\ i = Last
    BY <1>1, <2>3 DEF ModelThread, thread_method, destination_thread, ModuleThread,
       finalization_thread
  <2> QED BY <2>1, <2>2, <2>3
<1>2. ASSUME NEW i \in Workers, ModelChild(i) PROVE pipeline_process(i)
  BY <1>2 DEF ModelChild, mcapturer, mfilter, ModelChildStep, pipeline_process
<1> QED BY <1>1, <1>2 DEF ModelNext, model_thread, RaiseModelFlag, model_destroy, Next,
           pipeline_thread

\* model.c delivers in order too, if the statuses its children return are among
\* those of the pipeline.
THEOREM ModelIsAConveyor ==
    ASSUME 0 \in Statuses, 1 \in Statuses
    PROVE  ModelSpec => DeliveredInOrder
<1>1. [ModelNext]_vars => [Next]_vars BY ModelStep
<1>2. Init /\ [][Next]_vars => DeliveredInOrder
  BY InitialBelt, ConveyorStep, InitInv, IInvStep, PTL DEF DeliveredInOrder, AsConveyor!Spec
<1> QED BY <1>1, <1>2, PTL DEF ModelSpec, model_init

\* And its stop command reaches a module only behind all the data.
THEOREM ModelStopsLast ==
    ASSUME 0 \in Statuses, 1 \in Statuses
    PROVE  ModelSpec => []StopIsLast
<1>1. [ModelNext]_vars => [Next]_vars BY ModelStep
<1>2. StopInv /\ [Next]_vars => StopInv' BY StopStep
<1> QED BY <1>1, <1>2, InitialStop, StopIsBehindData, PTL DEF ModelSpec, model_init
=============================================================================
