--------------------------- MODULE CommandServer ---------------------------
(***************************************************************************)
(* command_server/src/command_server.c with the server program that uses   *)
(* it (pipeline/components/server.c).  The main thread serves the clients  *)
(* and puts their commands into cmd_ring; command_thread takes them out    *)
(* and executes them: INIT and CONFIG start a pipeline, CONFIG after a     *)
(* question at the terminal; STOP ends it and the thread.                  *)
(*                                                                         *)
(* cmd_ring is created with empty = 0, that is, full of NULLs, though      *)
(* nothing is in it: its counters run QueueSize ahead of its contents.     *)
(* The positions of ring_buffer.c are therefore kept here, and the words   *)
(* of memory behind the ring's last slot are part of the model.  Commands  *)
(* are named by the order in which they were put, 1, 2, ...                *)
(***************************************************************************)
EXTENDS Naturals, Sequences, FiniteSets

CONSTANTS QueueSize,     \* COMMAND_QUEUE_SIZE
          MaxCommands,   \* bound: commands put in one behaviour, the last STOP included
          MaxPending     \* bound: clients send no more while so many are waiting

ASSUME CommandServerAssumption ==
    /\ QueueSize \in Nat \ {0}
    /\ MaxCommands \in Nat \ {0}
    /\ MaxPending \in Nat \ {0}

VARIABLES
    main, req, tcp_exit, closing,            \* the main thread
    start, used, sem, buffer, pos,           \* cmd_ring; pos: the last slot stored to
    command_ready,                           \* the semaphore
    kind,                                    \* what each command put so far asks for
    freed,                                   \* commands given back to malloc
    ct, cur, exit_flag,                      \* command_thread
    executed,                                \* the commands executed, in order
    pdesc, pipelines,                        \* the pipeline in charge; all started so far
    faulty                                   \* those in which a call failed or a child died

mainVars == <<main, req, tcp_exit, closing>>
ringVars == <<start, used, sem, buffer, pos>>
threadVars == <<ct, cur, exit_flag, executed, freed>>
pipelineVars == <<pdesc, pipelines, faulty>>
vars == <<mainVars, ringVars, command_ready, kind, threadVars, pipelineVars>>

NULL == 0
Ids == 1 .. MaxCommands
Words == 0 .. QueueSize + MaxCommands      \* the ring's slots and what lies behind

\* What clients send.  The server's main loop ends on STOP, QUIT and EXIT;
\* executeAPICommand knows only STOP, INIT and CONFIG.
Requests == {"INIT", "CONFIG", "STOP", "QUIT", "OTHER"}

-----------------------------------------------------------------------------
\* command_server_init: ring_buffer_create(COMMAND_QUEUE_SIZE, 0).
Init ==
    /\ main = "listen" /\ req = "OTHER" /\ tcp_exit = FALSE /\ closing = FALSE
    /\ start = 0 /\ used = QueueSize /\ sem = QueueSize
    /\ buffer = [w \in Words |-> NULL] /\ pos = 0
    /\ command_ready = 0
    /\ kind = << >>
    /\ freed = {}
    /\ ct = "check" /\ cur = NULL /\ exit_flag = FALSE
    /\ executed = << >>
    /\ pdesc = NULL /\ pipelines = << >> /\ faulty = {}

-----------------------------------------------------------------------------
(* The main thread: tcp_server_process with putCommand as its receiver.    *)
PutCommand(r) ==
    /\ main = "listen"
    /\ ~tcp_exit
    /\ Len(kind) < MaxCommands - 1
    /\ used - QueueSize < MaxPending
    /\ main' = "push"
    /\ req' = r
    /\ tcp_exit' = (r \in {"STOP", "QUIT"})
    /\ UNCHANGED <<closing, ringVars, command_ready, kind, threadVars, pipelineVars>>

\* Mutant: the slot behind the right one.
PositionOffByOne == (start + used + 1) % QueueSize

\* The slot ring_buffer_push stores to: one conditional subtraction.
Position == IF start + used >= QueueSize THEN start + used - QueueSize ELSE start + used

\* push_new_command: a new command, stored by ring_buffer_push.
RingPush ==
    /\ main = "push"
    /\ main' = "ring_post"
    /\ kind' = Append(kind, req)
    /\ pos' = Position
    /\ used' = used + 1
    /\ buffer' = [buffer EXCEPT ![Position] = Len(kind) + 1]
    /\ UNCHANGED <<req, tcp_exit, closing, start, sem, command_ready,
                   threadVars, pipelineVars>>

RingPost ==
    /\ main = "ring_post"
    /\ main' = "ready_post"
    /\ sem' = sem + 1
    /\ UNCHANGED <<req, tcp_exit, closing, start, used, buffer, pos, command_ready,
                   kind, threadVars, pipelineVars>>

ReadyPost ==
    /\ main = "ready_post"
    /\ main' = IF closing THEN "join" ELSE IF tcp_exit THEN "destroy" ELSE "listen"
    /\ command_ready' = command_ready + 1
    /\ UNCHANGED <<req, tcp_exit, closing, ringVars, kind, threadVars, pipelineVars>>

push_new_command == RingPush \/ RingPost \/ ReadyPost

\* command_server_destroy: one more STOP, then join command_thread.
DestroyPush ==
    /\ main = "destroy"
    /\ main' = "push"
    /\ req' = "STOP"
    /\ closing' = TRUE
    /\ UNCHANGED <<tcp_exit, ringVars, command_ready, kind, threadVars, pipelineVars>>

DestroyJoin ==
    /\ main = "join"
    /\ ct = "ended"
    /\ main' = "ended"
    /\ UNCHANGED <<req, tcp_exit, closing, ringVars, command_ready, kind,
                   threadVars, pipelineVars>>

-----------------------------------------------------------------------------
(* command_thread                                                          *)
\* Mutant: the flag that STOP raises is not looked at.
CheckExitIgnored ==
    /\ ct = "check"
    /\ ct' = "wait_ready"
    /\ UNCHANGED <<mainVars, ringVars, command_ready, kind, cur, exit_flag,
                   executed, freed, pipelineVars>>

CheckExit ==
    /\ ct = "check"
    /\ ct' = IF exit_flag THEN "ended" ELSE "wait_ready"
    /\ UNCHANGED <<mainVars, ringVars, command_ready, kind, cur, exit_flag,
                   executed, freed, pipelineVars>>

\* pop_next_command
WaitReady ==
    /\ ct = "wait_ready"
    /\ command_ready > 0
    /\ ct' = "wait_ring"
    /\ command_ready' = command_ready - 1
    /\ UNCHANGED <<mainVars, ringVars, kind, cur, exit_flag, executed, freed, pipelineVars>>

WaitRing ==
    /\ ct = "wait_ring"
    /\ sem > 0
    /\ ct' = "pop"
    /\ sem' = sem - 1
    /\ UNCHANGED <<mainVars, start, used, buffer, pos, command_ready, kind,
                   cur, exit_flag, executed, freed, pipelineVars>>

\* Mutant: the index is compared with > instead of >=.
RingPopLateWrap ==
    /\ ct = "pop"
    /\ cur' = buffer[start]
    /\ ct' = IF buffer[start] = NULL THEN "check" ELSE "execute"
    /\ start' = IF start + 1 > QueueSize THEN 0 ELSE start + 1
    /\ used' = used - 1
    /\ UNCHANGED <<mainVars, sem, buffer, pos, command_ready, kind, exit_flag,
                   executed, freed, pipelineVars>>

\* ring_buffer_pop; a NULL is slept over.
RingPop ==
    /\ ct = "pop"
    /\ cur' = buffer[start]
    /\ ct' = IF buffer[start] = NULL THEN "check" ELSE "execute"
    /\ start' = IF start + 1 >= QueueSize THEN 0 ELSE start + 1
    /\ used' = used - 1
    /\ UNCHANGED <<mainVars, sem, buffer, pos, command_ready, kind, exit_flag,
                   executed, freed, pipelineVars>>

\* What cur->full_command holds: anything, once the command has been freed.
Contents == IF cur \in freed THEN Requests ELSE {kind[cur]}

\* pipeline_init: a new pipeline takes charge, whatever pdesc is.
StartPipeline ==
    /\ ct' = "free"
    /\ pipelines' = Append(pipelines, "running")
    /\ pdesc' = Len(pipelines) + 1
    /\ UNCHANGED faulty

ExecuteInit ==
    /\ ct = "execute"
    /\ "INIT" \in Contents
    /\ StartPipeline
    /\ executed' = Append(executed, cur)
    /\ UNCHANGED <<mainVars, ringVars, command_ready, kind, cur, exit_flag, freed>>

\* CONFIG asks for a file name at the server's terminal and waits for it.
ExecuteConfig ==
    /\ ct = "execute"
    /\ "CONFIG" \in Contents
    /\ ct' = "input"
    /\ executed' = Append(executed, cur)
    /\ UNCHANGED <<mainVars, ringVars, command_ready, kind, cur, exit_flag, freed,
                   pipelineVars>>

\* scanf returns: somebody has typed the name, of which no use is made.
ConfigInput ==
    /\ ct = "input"
    /\ StartPipeline
    /\ UNCHANGED <<mainVars, ringVars, command_ready, kind, cur, exit_flag, executed, freed>>

\* Mutant: STOP that ends the pipeline and forgets the flag.
ExecuteStopNoFlag ==
    /\ ct = "execute"
    /\ "STOP" \in Contents
    /\ executed' = Append(executed, cur)
    /\ \/ /\ pdesc = NULL
          /\ ct' = "free"
          /\ UNCHANGED pipelines
       \/ /\ pdesc # NULL
          /\ ct' = "destroying"
          /\ pipelines' = [pipelines EXCEPT ![pdesc] =
                             IF @ = "running" THEN "stopping" ELSE "destroyed twice"]
    /\ UNCHANGED <<mainVars, ringVars, command_ready, kind, cur, exit_flag, freed, pdesc, faulty>>

\* STOP: the flag, then pipeline_destroy raises the pipeline's own flag.
ExecuteStop ==
    /\ ct = "execute"
    /\ "STOP" \in Contents
    /\ exit_flag' = TRUE
    /\ executed' = Append(executed, cur)
    /\ \/ /\ pdesc = NULL
          /\ ct' = "free"
          /\ UNCHANGED pipelines
       \/ /\ pdesc # NULL
          /\ ct' = "destroying"
          /\ pipelines' = [pipelines EXCEPT ![pdesc] =
                             IF @ = "running" THEN "stopping" ELSE "destroyed twice"]
    /\ UNCHANGED <<mainVars, ringVars, command_ready, kind, cur, freed, pdesc, faulty>>

ExecuteUnknown ==
    /\ ct = "execute"
    /\ Contents \cap {"QUIT", "OTHER"} # {}
    /\ ct' = "free"
    /\ executed' = Append(executed, cur)
    /\ UNCHANGED <<mainVars, ringVars, command_ready, kind, cur, exit_flag, freed,
                   pipelineVars>>

executeAPICommand == ExecuteInit \/ ExecuteConfig \/ ExecuteStop \/ ExecuteUnknown

\* pipeline_destroy returns when the pipeline has shut down (see Pipeline).
PipelineDestroyed ==
    /\ ct = "destroying"
    /\ pipelines[pdesc] = "destroyed"
    /\ ct' = "free"
    /\ UNCHANGED <<mainVars, ringVars, command_ready, kind, cur, exit_flag, executed,
                   freed, pipelineVars>>

FreeCommand ==
    /\ ct = "free"
    /\ ct' = "check"
    /\ freed' = freed \cup {cur}
    /\ cur' = NULL
    /\ UNCHANGED <<mainVars, ringVars, command_ready, kind, exit_flag, executed,
                   pipelineVars>>

command_thread ==
    \/ CheckExit \/ WaitReady \/ WaitRing \/ RingPop \/ executeAPICommand
    \/ PipelineDestroyed \/ FreeCommand

\* A call fails in pipeline p, or a child of it dies.
PipelineFault(p) ==
    /\ pipelines[p] \in {"running", "stopping"}
    /\ faulty' = faulty \cup {p}
    /\ UNCHANGED <<mainVars, ringVars, command_ready, kind, threadVars, pdesc, pipelines>>

\* All threads of a pipeline that was told to stop have been joined.
PipelineEnds(p) ==
    /\ pipelines[p] = "stopping"
    /\ pipelines' = [pipelines EXCEPT ![p] = "destroyed"]
    /\ UNCHANGED <<mainVars, ringVars, command_ready, kind, threadVars, pdesc, faulty>>

\* They have to end only in the case that ProcessManager (SinglePipelineEnds)
\* and Pipeline (ShutdownCompletes) show: the only pipeline the server has
\* started, and no fault.  A second one may be refused the entries of
\* process_info its threads need, as process_cnt is never set back.
MustEnd(p) == Len(pipelines) = 1 /\ p \notin faulty

-----------------------------------------------------------------------------
MainThread == push_new_command \/ DestroyPush \/ DestroyJoin

Next ==
    \/ \E r \in Requests : PutCommand(r)
    \/ MainThread
    \/ command_thread
    \/ ConfigInput
    \/ \E p \in 1 .. Len(pipelines) : PipelineFault(p) \/ PipelineEnds(p)

(* The threads are scheduled; clients may stop sending at any time, and    *)
(* nobody has to type a name.                                              *)
Fairness ==
    /\ WF_vars(MainThread)
    /\ WF_vars(command_thread)
    /\ WF_vars(\E p \in 1 .. Len(pipelines) : MustEnd(p) /\ PipelineEnds(p))

Spec == Init /\ [][Next]_vars /\ Fairness

-----------------------------------------------------------------------------
TypeOK ==
    /\ main \in {"listen", "push", "ring_post", "ready_post", "destroy", "join", "ended"}
    /\ req \in Requests /\ tcp_exit \in BOOLEAN /\ closing \in BOOLEAN
    /\ start \in 0 .. QueueSize - 1
    /\ used \in Nat /\ sem \in Nat /\ command_ready \in Nat
    /\ buffer \in [Words -> Ids \cup {NULL}] /\ pos \in Words
    /\ kind \in Seq(Requests) /\ freed \subseteq Ids
    /\ ct \in {"check", "wait_ready", "wait_ring", "pop", "execute", "input",
               "destroying", "free", "ended"}
    /\ cur \in Ids \cup {NULL} /\ exit_flag \in BOOLEAN
    /\ executed \in Seq(Ids)
    /\ pdesc \in Nat
    /\ pipelines \in Seq({"running", "stopping", "destroyed", "destroyed twice"})
    /\ faulty \subseteq 1 .. Len(pipelines)

\* Commands are executed in the order in which clients sent them, each once,
\* none after it was freed, none skipped: as long as no more than QueueSize
\* commands are put, the counters that run QueueSize ahead do no harm.
ExecutedInOrder == executed = [k \in 1 .. Len(executed) |-> k]

\* When the server ends, the pipeline in charge has been shut down, by exactly
\* one pipeline_destroy: a client's STOP and the one command_server_destroy
\* adds do not both reach it, and no INIT slips in behind them.
PipelineShutDownOnce ==
    /\ main = "ended" /\ pdesc # NULL => pipelines[pdesc] = "destroyed"
    /\ \A p \in 1 .. Len(pipelines) : pipelines[p] # "destroyed twice"

\* Once the main loop has left on STOP or QUIT the server ends: command_thread
\* is not left waiting for a command, the main thread not for command_thread.
\* It is said of a server that starts at most one pipeline, in which nothing
\* fails, and whose operator answers CONFIG's question whenever it is asked:
\* otherwise command_thread may wait for ever in pipeline_destroy or scanf.
OnePipeline == Len(pipelines) <= 1 /\ faulty = {}
ServerEnds ==
    ([]OnePipeline /\ []<>(ct # "input")) => (tcp_exit ~> main = "ended")

\* misc/src/ring_buffer.c:52, of ring_buffer_push: "no overflow check, should not
\* happen".  It does, with far fewer commands waiting than the ring has slots.
NoOverflow == pos < QueueSize
=============================================================================
