------------------------------ MODULE Streamer ------------------------------
(***************************************************************************)
(* streamer/src/streamer.c and streamer/examples: the same chain and the   *)
(* same protocol as Pipeline, run by the main thread of the example server *)
(* (test_streamer) instead of by a thread of its own.  Two things differ:  *)
(* the exit flag is raised by the signal thread on SIGTERM or SIGINT, and  *)
(* test_streamer never sets modules[i].cmd, which source_thread reads: the *)
(* array is on the stack, so the command is whatever was there, and a run  *)
(* gives InitialCmds the value Cmds.                                       *)
(* main stands for the signal thread until the flag is raised, pt for      *)
(* test_streamer.                                                          *)
(***************************************************************************)
EXTENDS Pipeline

\* test_streamer up to the creation of the threads; modules[i].cmd is not set.
TestStreamerSetup == PipelineSetup

\* test_streamer from the joins on, ending with process_subsystem_destroy.
TestStreamerEnd == PipelineJoined \/ SubsystemDestroy

test_streamer == TestStreamerSetup \/ TestStreamerEnd

\* signal_thread on SIGINT or SIGTERM.
SignalExit == RaiseExitFlag

\* main: shared_memory_destroy after test_streamer has returned.
ServerExit == DestroyMemory

capture_thread == source_thread                 \* source_thread of streamer.c
processor_thread(i) == process_thread(i)
destination_thread == finalization_thread

capturer == pipeline_process(0)
filter(i) == pipeline_process(i)

StreamerThread(i) ==
    \/ i = 0 /\ capture_thread
    \/ i \in 1 .. Last - 1 /\ processor_thread(i)
    \/ i = Last /\ destination_thread

Child(i) == IF i = 0 THEN capturer ELSE filter(i)

StreamerNext ==
    \/ test_streamer \/ SignalExit \/ ServerExit
    \/ \E i \in Modules : StreamerThread(i)
    \/ \E i \in Workers : Child(i)

StreamerSpec ==
    /\ Init
    /\ [][StreamerNext]_vars
    /\ WF_vars(test_streamer) /\ WF_vars(ServerExit)
    /\ \A i \in Modules : WF_vars(StreamerThread(i))
    /\ \A i \in Workers : WF_vars(Child(i))

\* src/README.md, on stopping the example server: "All child processes (capturer
\* and filter) and parent (server) should be killed by exit."
KilledByExit ==
    exit_flag ~> (main = "unmapped" /\ \A i \in Workers : cpc[i] = "exited")
=============================================================================
