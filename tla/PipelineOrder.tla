--------------------------- MODULE PipelineOrder ---------------------------
(***************************************************************************)
(* The pipeline seen as a Conveyor: the buffers the modules hold and the   *)
(* full slots between them, from the finalization back to the source, are  *)
(* the belt; what the finalization is printing is the sink.                *)
(***************************************************************************)
EXTENDS Pipeline

SX == INSTANCE SequencesExt

\* What stands at and before module i, the thread's own buffer first.  The
\* buffer of the finalization has left the belt.
Stage(i) ==
    (IF Holding(i) /\ i # Last THEN <<off[i]>> ELSE << >>)
    \o (IF i > 0 /\ SlotFull(i) THEN <<m_off[i]>> ELSE << >>)

Belt == SX!FlattenSeq([k \in 1 .. Last + 1 |-> Stage(Last + 1 - k)])

AsConveyor == INSTANCE Conveyor WITH
    Filled <- [k \in 1 .. DataCnt |-> k - 1],
    Nothing <- NoOffset,
    belt <- Belt,
    sink <- IF Holding(Last) THEN off[Last] ELSE NoOffset

\* Data reaches the finalization in the order in which the source took the
\* buffers, each at most once, whatever the threads' interleaving and however
\* many the processors drop.
DeliveredInOrder == AsConveyor!Spec
=============================================================================
