----------------------------- MODULE MCPipeline -----------------------------
(* MCPipeline.cfg: a source, one processor and the finalization, as in the  *)
(* default configuration of pipeline_server.c, with two data buffers        *)
(* instead of 512.  Any child may report an error, return the strange       *)
(* status -1 or die.  MCPipelineChain.cfg: model.c, with one processor more *)
(* than in its default configuration.                                       *)
EXTENDS Model, SharedMemory

MCInitialCmds == {PROCESS_CMD_JOB}
AnyStatus == {-1, 0, 1}
ComponentStatuses == {0, 1}
Immortal == {}

\* The layout of the memory, for sizes on either side of a multiple of 256; what
\* pipeline_init asks for is 3 entries and 512 buffers of 1024 bytes.
Layouts ==
    {memory_map_create(n, s, m, d) :
        n \in {0, 1, 3}, s \in {1, 255, 2208}, m \in {0, 1, 4, 7}, d \in {1, 256, 257, 1024}}
ASSUME LayoutsAreSafe == \A map \in Layouts : LayoutOf(map)
=============================================================================
