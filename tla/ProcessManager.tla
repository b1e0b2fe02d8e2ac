--------------------------- MODULE ProcessManager ---------------------------
(***************************************************************************)
(* pmngr/src/process_mngr.c, pmngr/src/signal_reaction.c and the shared    *)
(* memory of shmem/src/shared_memory.c, as their callers use them: the     *)
(* start and the end of pipelines.  A task <<p, w>> is module w of         *)
(* pipeline p: a thread of the server that calls process_start, and the    *)
(* child it forks.  Thread and child find each other by two things only:   *)
(* the name of the shared memory, which the child opens when it gets       *)
(* there, and the index of a process_info in it.                           *)
(*                                                                         *)
(* Two programs call this code.  The server of pipeline/components starts  *)
(* a pipeline at every INIT, all under one name, and stops the last one at *)
(* STOP.  The server of streamer/examples runs one and has a signal        *)
(* thread.                                                                 *)
(***************************************************************************)
EXTENDS Integers, FiniteSets

CONSTANTS Workers,        \* the modules of a pipeline that have a child
          TableSize,      \* map->process_cnt
          MaxPipelines,   \* bound: INIT commands in one behaviour
          MaxFaults       \* bound: tasks with a fault of their own

ASSUME ProcessManagerAssumption ==
    /\ IsFiniteSet(Workers)
    /\ TableSize \in Nat \ {0}
    /\ MaxPipelines \in Nat \ {0}
    /\ MaxFaults \in Nat

VARIABLES
    program,                                 \* which of the two servers it is
    process_mutex, process_cnt, process_cnt_max,
    process_info,                            \* the pipeline whose table it points to
    path,                                    \* the memory that has the name shmpath
    inits, stopping,                         \* pipelines started; the last one is stopped
    pt,                                      \* the thread that runs each pipeline
    pc, id,                                  \* the thread of each task
    child, shmem,                            \* the child of each task, the memory it mapped
    failed,                                  \* tasks with a fault of their own
    sigchld, st                              \* SIGCHLD is pending; signal_thread

tableVars == <<process_mutex, process_cnt, process_cnt_max, process_info>>
pipelineVars == <<program, inits, stopping, pt>>
childVars == <<child, shmem, failed, sigchld>>
vars == <<pipelineVars, tableVars, path, pc, id, childVars, st>>

Pipelines == 1 .. MaxPipelines
Tasks == Pipelines \X Workers
NULL == 0
Nobody == <<NULL, NULL>>
NoEntry == -1

Goto(t, from, to) ==
    /\ pc[t] = from
    /\ pc' = [pc EXCEPT ![t] = to]

\* A failing system call, or a child killed by a signal.
Fault(t) ==
    /\ t \in failed \/ Cardinality(failed) < MaxFaults
    /\ failed' = failed \cup {t}

\* The exit of child t; without a signal thread SIGCHLD is not blocked, and
\* discarded.
Exit(t) ==
    /\ child' = [child EXCEPT ![t] = "zombie"]
    /\ sigchld' = (program = "streamer")

-----------------------------------------------------------------------------
Init ==
    /\ program \in {"pipeline", "streamer"}
    /\ process_mutex = Nobody /\ process_cnt = 0
    /\ process_cnt_max = 0 /\ process_info = NULL
    /\ path = NULL
    /\ inits = 0 /\ stopping = FALSE
    /\ pt = [p \in Pipelines |-> "none"]
    /\ pc = [t \in Tasks |-> "none"]
    /\ id = [t \in Tasks |-> NoEntry]
    /\ child = [t \in Tasks |-> "none"]
    /\ shmem = [t \in Tasks |-> NULL]
    /\ failed = {}
    /\ sigchld = FALSE
    /\ st = IF program = "streamer" THEN "wait" ELSE "none"

(* pipeline_init: the name is unlinked and given to a new memory.          *)
pipeline_init ==
    /\ inits < IF program = "streamer" THEN 1 ELSE MaxPipelines
    /\ ~stopping
    /\ inits' = inits + 1
    /\ path' = inits + 1
    /\ pt' = [pt EXCEPT ![inits + 1] = "init"]
    /\ UNCHANGED <<program, stopping, tableVars, pc, id, childVars, st>>

\* Mutant: a new table starts to count from the beginning.
SubsystemInitResets(p) ==
    /\ pt[p] = "init"
    /\ pt' = [pt EXCEPT ![p] = "run"]
    /\ process_info' = p
    /\ process_cnt_max' = TableSize
    /\ process_cnt' = 0
    /\ pc' = [t \in Tasks |-> IF t[1] = p THEN "lock" ELSE pc[t]]
    /\ UNCHANGED <<program, inits, stopping, process_mutex,
                   path, id, childVars, st>>

(* process_subsystem_init; then the module threads are created.            *)
process_subsystem_init(p) ==
    /\ pt[p] = "init"
    /\ pt' = [pt EXCEPT ![p] = "run"]
    /\ process_info' = p
    /\ process_cnt_max' = TableSize
    /\ pc' = [t \in Tasks |-> IF t[1] = p THEN "lock" ELSE pc[t]]
    /\ UNCHANGED <<program, inits, stopping, process_mutex, process_cnt,
                   path, id, childVars, st>>

(* The module threads are joined, the table is destroyed: whichever table  *)
(* process_info points to by now.                                          *)
process_subsystem_destroy(p) ==
    /\ pt[p] = "run"
    /\ \A w \in Workers : pc[<<p, w>>] = "done"
    /\ pt' = [pt EXCEPT ![p] = "unmap"]
    /\ process_info' = NULL
    /\ process_cnt_max' = 0
    /\ UNCHANGED <<program, inits, stopping, process_mutex, process_cnt,
                   path, pc, id, childVars, st>>

\* Mutant: the name is unlinked when the flag is raised, before the join.
UnlinkBeforeJoin(p) ==
    /\ \/ stopping /\ pt[p] = "run" /\ path # NULL /\ UNCHANGED pt
       \/ pt[p] = "unmap" /\ pt' = [pt EXCEPT ![p] = "ended"]
    /\ path' = NULL
    /\ UNCHANGED <<program, inits, stopping, tableVars, pc, id, childVars, st>>

shared_memory_destroy(p) ==
    /\ pt[p] = "unmap"
    /\ pt' = [pt EXCEPT ![p] = "ended"]
    /\ path' = NULL
    /\ UNCHANGED <<program, inits, stopping, tableVars, pc, id, childVars, st>>

\* STOP or SIGTERM: only the pipeline started last has its flag raised.
Stop ==
    /\ inits > 0 /\ ~stopping
    /\ stopping' = TRUE
    /\ UNCHANGED <<program, inits, pt, tableVars, path, pc, id, childVars, st>>

-----------------------------------------------------------------------------
(* process_start.  A thread that gets -1, or finds the table gone, goes on *)
(* with an entry that does not exist: undefined, and the end of what is    *)
(* said of it here ("astray").                                             *)

\* Mutant: the counter is checked without the mutex.
CheckUnlocked(t) ==
    /\ IF process_cnt >= process_cnt_max
       THEN Goto(t, "lock", "astray")
       ELSE Goto(t, "lock", "take")
    /\ UNCHANGED <<pipelineVars, tableVars, path, id, childVars, st>>

LockAndCheck(t) ==
    /\ process_mutex = Nobody
    /\ IF process_cnt >= process_cnt_max
       THEN /\ Goto(t, "lock", "astray")
            /\ UNCHANGED process_mutex
       ELSE /\ Goto(t, "lock", "take")
            /\ process_mutex' = t
    /\ UNCHANGED <<pipelineVars, process_cnt, process_cnt_max, process_info,
                   path, id, childVars, st>>

TakeId(t) ==
    /\ Goto(t, "take", "fork")
    /\ id' = [id EXCEPT ![t] = process_cnt]
    /\ process_cnt' = process_cnt + 1
    /\ process_mutex' = Nobody
    /\ UNCHANGED <<pipelineVars, process_cnt_max, process_info, path, childVars, st>>

Fork(t) ==
    /\ \/ /\ Goto(t, "fork", "record")
          /\ child' = [child EXCEPT ![t] = "exec"]
          /\ UNCHANGED failed
       \/ /\ Goto(t, "fork", "astray")
          /\ Fault(t)
          /\ UNCHANGED child
    /\ UNCHANGED <<pipelineVars, tableVars, path, id, shmem, sigchld, st>>

\* process_info[id].pid = pid, through the pointer as it is now.
Record(t) ==
    /\ Goto(t, "record", IF process_info = NULL THEN "astray" ELSE "serve")
    /\ UNCHANGED <<pipelineVars, tableVars, path, id, childVars, st>>

process_start(t) == LockAndCheck(t) \/ TakeId(t) \/ Fork(t) \/ Record(t)

-----------------------------------------------------------------------------
(* The child.  When setenv or exec fails process_start returns -1 in the   *)
(* child as well, which goes on as a copy of its thread.                   *)
Exec(t) ==
    /\ child[t] = "exec"
    /\ \/ /\ child' = [child EXCEPT ![t] = "open"]
          /\ UNCHANGED failed
       \/ /\ child' = [child EXCEPT ![t] = "astray"]
          /\ Fault(t)
    /\ UNCHANGED <<pipelineVars, tableVars, path, pc, id, shmem, sigchld, st>>

\* pipeline_process_init: the memory that has the name now, or exit.  To come
\* too late is no fault of the child.
Open(t) ==
    /\ child[t] = "open"
    /\ IF path = NULL
       THEN /\ Exit(t)
            /\ UNCHANGED shmem
       ELSE /\ child' = [child EXCEPT ![t] = "serving"]
            /\ shmem' = [shmem EXCEPT ![t] = path]
            /\ UNCHANGED sigchld
    /\ UNCHANGED <<pipelineVars, tableVars, path, pc, id, failed, st>>

\* Entry id[t] of the memory of t's pipeline is the one child u waits at.
Meet(t, u) ==
    /\ pc[t] = "serve" /\ child[u] = "serving"
    /\ shmem[u] = t[1] /\ id[u] = id[t]

\* The thread tells the child to stop, and the child answers and exits.
StopChild(t, u) ==
    /\ stopping /\ t[1] = inits
    /\ Meet(t, u)
    /\ pc' = [pc EXCEPT ![t] = "done"]
    /\ Exit(u)
    /\ UNCHANGED <<pipelineVars, tableVars, path, id, shmem, failed, st>>

\* A copy that went astray, or a fault while serving.
ChildDies(t) ==
    /\ child[t] \in {"astray", "serving"}
    /\ Fault(t)
    /\ Exit(t)
    /\ UNCHANGED <<pipelineVars, tableVars, path, pc, id, shmem, st>>

-----------------------------------------------------------------------------
(* signal_thread.  Any number of SIGCHLDs that are pending are one.        *)
SigWaitInfo ==
    /\ st = "wait" /\ sigchld
    /\ st' = "cleanup"
    /\ sigchld' = FALSE
    /\ UNCHANGED <<pipelineVars, tableVars, path, pc, id, child, shmem, failed>>

Zombies == {t \in Tasks : child[t] = "zombie"}

\* Mutant: one child per signal.
CleanupOne ==
    /\ st = "cleanup"
    /\ st' = "wait"
    /\ IF Zombies = {}
       THEN UNCHANGED child
       ELSE \E t \in Zombies : child' = [child EXCEPT ![t] = "reaped"]
    /\ UNCHANGED <<pipelineVars, tableVars, path, pc, id, shmem, failed, sigchld>>

\* One round of process_cleanup's loop.
process_cleanup ==
    /\ st = "cleanup"
    /\ \/ /\ \E t \in Zombies : child' = [child EXCEPT ![t] = "reaped"]
          /\ UNCHANGED st
       \/ /\ Zombies = {}
          /\ st' = "wait"
          /\ UNCHANGED child
    /\ UNCHANGED <<pipelineVars, tableVars, path, pc, id, shmem, failed, sigchld>>

\* The thread can be cancelled only while it waits.
signal_thread_destroy ==
    /\ st = "wait"
    /\ pt[1] = "ended"
    /\ st' = "ended"
    /\ UNCHANGED <<pipelineVars, tableVars, path, pc, id, childVars>>

signal_thread == SigWaitInfo \/ process_cleanup

-----------------------------------------------------------------------------
PipelineThread(p) ==
    \/ process_subsystem_init(p) \/ process_subsystem_destroy(p)
    \/ shared_memory_destroy(p)

Thread(t) == process_start(t) \/ \E u \in Tasks : StopChild(t, u)

Child(t) == Exec(t) \/ Open(t)

Next ==
    \/ pipeline_init \/ Stop
    \/ \E p \in Pipelines : PipelineThread(p)
    \/ \E t \in Tasks : Thread(t) \/ Child(t) \/ ChildDies(t)
    \/ signal_thread \/ signal_thread_destroy

(* The kernel schedules threads and children.  The mutex is asked for once *)
(* by each task, so that weak fairness is enough for it.                   *)
Fairness ==
    /\ \A p \in Pipelines : WF_vars(PipelineThread(p))
    /\ \A t \in Tasks : WF_vars(Thread(t)) /\ WF_vars(Child(t))
    /\ WF_vars(signal_thread)

Spec == Init /\ [][Next]_vars /\ Fairness

-----------------------------------------------------------------------------
TypeOK ==
    /\ program \in {"pipeline", "streamer"}
    /\ process_mutex \in Tasks \cup {Nobody}
    /\ process_cnt \in 0 .. TableSize
    /\ process_cnt_max \in {0, TableSize}
    /\ process_info \in Pipelines \cup {NULL}
    /\ path \in Pipelines \cup {NULL}
    /\ inits \in 0 .. MaxPipelines /\ stopping \in BOOLEAN
    /\ pt \in [Pipelines -> {"none", "init", "run", "unmap", "ended"}]
    /\ pc \in [Tasks -> {"none", "lock", "take", "fork", "record", "serve", "done", "astray"}]
    /\ id \in [Tasks -> NoEntry .. TableSize - 1]
    /\ child \in [Tasks -> {"none", "exec", "astray", "open", "serving", "zombie", "reaped"}]
    /\ shmem \in [Tasks -> Pipelines \cup {NULL}]
    /\ failed \subseteq Tasks
    /\ sigchld \in BOOLEAN
    /\ st \in {"none", "wait", "cleanup", "ended"}

\* Whatever pipelines are started one on top of the other under the same name,
\* a child that opened the wrong memory is never taken for another's: the
\* entry a thread uses has no child but its own.
OwnChildOnly == \A t, u \in Tasks : Meet(t, u) => t = u

\* A server that starts a single pipeline also ends, if no system call fails
\* and no child is killed: the name lasts until every child, however late it
\* is scheduled, has opened the memory, and no thread finds the table full or
\* gone.  Otherwise a thread waits for ever at an entry nobody serves.
SinglePipelineEnds ==
    [](inits <= 1 /\ failed = {}) => (stopping ~> pt[1] = "ended")

\* A child that exits is reaped while the server runs, although the signals
\* of several children may arrive as one.
ZombiesReaped ==
    program = "streamer" =>
        \A w \in Workers :
            child[<<1, w>>] = "zombie" ~> (child[<<1, w>>] = "reaped" \/ st = "ended")
=============================================================================
