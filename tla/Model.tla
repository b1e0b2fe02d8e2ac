------------------------------- MODULE Model -------------------------------
(***************************************************************************)
(* model/src/model.c and model/components: pipeline_server.c under other   *)
(* names, statement by statement, with children that have the loop of      *)
(* pipeline_process in their own main (as those of streamer/examples do).  *)
(* The steps are Pipeline's; what is said here is which of them the        *)
(* functions of model.c are made of, and what its children may answer:     *)
(* mcapturer never fails, mfilter drops data without a star.               *)
(***************************************************************************)
EXTENDS PipelineOrder

model_init == Init

\* model_read_configuration_, model_default_configuration: which thread runs
\* module i, modules being numbered along the chain.
thread_method(i) ==
    IF i = 0 THEN "source_thread" ELSE IF i = Last THEN "destination_thread"
                                                  ELSE "processor_thread"

model_thread == PipelineSetup \/ PipelineJoined \/ SubsystemDestroy

\* The flag; the join, shared_memory_destroy and the rest.
RaiseModelFlag == RaiseExitFlag
model_destroy == DestroyMemory

\* A job for the child, then for the next module; the stop command takes the
\* same way in the other order.
PassOn(i) ==
    \/ SetJob(i) \/ StopJob(i) \/ PostJob(i) \/ WaitResult(i)
    \/ WaitNext(i) \/ SetNext(i) \/ PostNext(i)

\* source_thread of model.c.
ModelSource == process_start(0) \/ CheckExit \/ ring_buffer_pop \/ PassOn(0)

processor_thread(i) ==
    \/ process_start(i) \/ WaitCmd(i) \/ ReadCmd(i) \/ PostSlot(i)
    \/ TestResult(i) \/ Drop(i) \/ PassOn(i)

destination_thread == WaitCmd(Last) \/ ReadCmd(Last) \/ PostSlot(Last) \/ Recycle

ModelThread(i) ==
    CASE thread_method(i) = "source_thread" -> ModelSource
      [] thread_method(i) = "processor_thread" -> processor_thread(i)
      [] thread_method(i) = "destination_thread" -> destination_thread

ModelChildStep(i) == ChildWait(i) \/ ChildRead(i) \/ ChildPost(i)

mcapturer == ModelChildStep(0) \/ ChildAct(0, 0)
mfilter(i) == ModelChildStep(i) \/ \E status \in {0, 1} : ChildAct(i, status)

ModelChild(i) == IF i = 0 THEN mcapturer ELSE mfilter(i)

ModelNext ==
    \/ model_thread \/ RaiseModelFlag \/ model_destroy
    \/ \E i \in Modules : ModelThread(i)
    \/ \E i \in Workers : ModelChild(i)

ModelSpec ==
    /\ model_init /\ [][ModelNext]_vars
    /\ WF_vars(model_thread) /\ WF_vars(model_destroy)
    /\ \A i \in Modules : WF_vars(ModelThread(i))
    /\ \A i \in Workers : WF_vars(ModelChild(i))
=============================================================================
