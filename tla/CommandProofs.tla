--------------------------- MODULE CommandProofs ---------------------------
(***************************************************************************)
(* What holds of the command server for every queue size and every number  *)
(* of commands: its types, that the pipeline in charge is shut down by one *)
(* pipeline_destroy (also when cmd_ring overflows), and, as long as no     *)
(* more commands are put than the ring has slots, that they are executed   *)
(* in the order in which they were put.                                    *)
(***************************************************************************)
EXTENDS CommandServer, TLAPS

\* Put, and not posted to command_ready yet.
Unready == IF main \in {"ring_post", "ready_post"} THEN 1 ELSE 0

\* Put, and not posted to the ring's semaphore yet.
Unposted == IF main = "ring_post" THEN 1 ELSE 0

\* Announced by command_ready to a command_thread that has not popped yet.
Claimed == IF ct \in {"wait_ring", "pop"} THEN 1 ELSE 0

\* Taken from the ring's semaphore, and not popped yet.
Held == IF ct = "pop" THEN 1 ELSE 0

\* The counters: both semaphores count the commands in the ring, the ring's
\* own with the QueueSize NULLs that were never there.
Counted ==
    /\ command_ready + Unready + Claimed + QueueSize = used
    /\ sem + Unposted + Held = used
    /\ used <= QueueSize + Len(kind)

\* Clients leave room for the STOP that command_server_destroy adds.
Budget ==
    /\ Len(kind) <= MaxCommands
    /\ main \in {"listen", "destroy"} => Len(kind) < MaxCommands /\ ~closing
    /\ main = "push" => Len(kind) < MaxCommands /\ (~closing => Len(kind) + 1 < MaxCommands)
    /\ main \in {"ring_post", "ready_post"} /\ ~closing => Len(kind) < MaxCommands

\* The words command_thread uses: a command is at hand while it is executed.
AtHand == ct \in {"execute", "input", "destroying", "free"} => cur \in Ids

\* TypeOK in the parts that change together.
ControlType ==
    /\ main \in {"listen", "push", "ring_post", "ready_post", "destroy", "join", "ended"}
    /\ req \in Requests /\ tcp_exit \in BOOLEAN /\ closing \in BOOLEAN
    /\ ct \in {"check", "wait_ready", "wait_ring", "pop", "execute", "input",
               "destroying", "free", "ended"}
    /\ exit_flag \in BOOLEAN

CountType ==
    /\ start \in 0 .. QueueSize - 1
    /\ used \in Nat /\ sem \in Nat /\ command_ready \in Nat

BufferType ==
    /\ buffer \in [Words -> Ids \cup {NULL}]
    /\ pos \in Words

KindType == kind \in Seq(Requests)

ThreadType == freed \subseteq Ids /\ cur \in Ids \cup {NULL}

ExecutedType == executed \in Seq(Ids)

PipelineType ==
    /\ pdesc \in Nat
    /\ pipelines \in Seq({"running", "stopping", "destroyed", "destroyed twice"})
    /\ faulty \subseteq 1 .. Len(pipelines)

PipelineStates == {"running", "stopping", "destroyed", "destroyed twice"}

CounterInv ==
    /\ ControlType /\ CountType /\ BufferType /\ KindType
    /\ ThreadType /\ ExecutedType /\ PipelineType
    /\ Counted /\ Budget /\ AtHand

\* The parts are the type invariant.
LEMMA CounterInvTypes == CounterInv => TypeOK
BY DEF CounterInv, ControlType, CountType, BufferType, KindType, ThreadType, ExecutedType,
       PipelineType, TypeOK

-----------------------------------------------------------------------------
\* The counters are natural numbers, and the ring's is ahead of its contents.
LEMMA CountFacts ==
  ASSUME CounterInv
  PROVE  /\ QueueSize \in Nat /\ QueueSize > 0 /\ MaxCommands \in Nat /\ MaxCommands > 0
         /\ start \in Nat /\ start < QueueSize /\ used \in Nat /\ sem \in Nat
         /\ command_ready \in Nat
         /\ Len(kind) \in Nat /\ Len(kind) <= MaxCommands
         /\ QueueSize <= used /\ used <= QueueSize + Len(kind)
         /\ (ct = "pop" => QueueSize < used)
<1>1. QueueSize \in Nat /\ QueueSize > 0 /\ MaxCommands \in Nat /\ MaxCommands > 0
  BY CommandServerAssumption
<1>2. /\ start \in Nat /\ start < QueueSize /\ used \in Nat /\ sem \in Nat
      /\ command_ready \in Nat
  BY <1>1 DEF CounterInv, CountType
<1>3. kind \in Seq(Requests) BY DEF CounterInv, KindType
<1>4. Len(kind) \in Nat BY <1>3
<1>5. Len(kind) <= MaxCommands BY DEF CounterInv, Budget
<1>6. Unready \in {0, 1} /\ Claimed \in {0, 1} /\ (ct = "pop" => Claimed = 1)
  BY DEF Unready, Claimed
<1>7. command_ready + Unready + Claimed + QueueSize = used /\ used <= QueueSize + Len(kind)
  BY DEF CounterInv, Counted
<1>8. QueueSize <= used /\ (ct = "pop" => QueueSize < used) BY <1>1, <1>2, <1>6, <1>7
<1> QED BY <1>1, <1>2, <1>4, <1>5, <1>7, <1>8

\* RingPush stores at worst MaxCommands words behind the ring.
LEMMA PositionInWords ==
  ASSUME CounterInv, main = "push"
  PROVE  /\ Position \in Words /\ Position = start + used - QueueSize
         /\ Len(kind) + 1 \in Ids
<1>1. Len(kind) < MaxCommands BY DEF CounterInv, Budget
<1>2. PICK n : n = Len(kind) OBVIOUS
<1> QED BY <1>1, <1>2, CountFacts DEF Position, Words, Ids

\* One command more.
LEMMA OneMore ==
  ASSUME NEW S, NEW s \in Seq(S), NEW e \in S
  PROVE  /\ Append(s, e) \in Seq(S) /\ Len(Append(s, e)) = Len(s) + 1
         /\ Len(s) \in Nat
OBVIOUS

\* One element replaced.
LEMMA OneReplaced ==
  ASSUME NEW S, NEW s \in Seq(S), NEW i, NEW e \in S
  PROVE  /\ [s EXCEPT ![i] = e] \in Seq(S) /\ Len([s EXCEPT ![i] = e]) = Len(s)
         /\ \A j \in 1 .. Len(s) : [s EXCEPT ![i] = e][j] = IF j = i THEN e ELSE s[j]
<1>1. PICK t : t = [s EXCEPT ![i] = e] OBVIOUS
<1>2. Len(s) \in Nat /\ s \in [1 .. Len(s) -> S] OBVIOUS
<1>3. t \in [1 .. Len(s) -> S] /\ \A j \in 1 .. Len(s) : t[j] = IF j = i THEN e ELSE s[j]
  BY <1>1, <1>2, Zenon
<1>4. t \in Seq(S) BY <1>2, <1>3
<1>5. Len(t) = Len(s) BY <1>2, <1>3, <1>4
<1> QED BY <1>1, <1>3, <1>4, <1>5, Zenon

\* Every step of the main thread keeps the types and the counters.
LEMMA CounterMain ==
  ASSUME CounterInv, \/ \E r \in Requests : PutCommand(r)
                     \/ MainThread
  PROVE  CounterInv'
<1>0. /\ ControlType /\ CountType /\ BufferType /\ KindType
      /\ ThreadType /\ ExecutedType /\ PipelineType
      /\ Counted /\ Budget /\ AtHand
  BY DEF CounterInv
<1>a. PICK n : n = Len(kind) OBVIOUS
<1>b. /\ QueueSize \in Nat /\ MaxCommands \in Nat /\ n \in Nat
      /\ used \in Nat /\ sem \in Nat /\ command_ready \in Nat
  BY <1>a, CountFacts
<1>1. ASSUME NEW r \in Requests, PutCommand(r) PROVE CounterInv'
  <2>1. main = "listen" /\ main' = "push" /\ req' = r /\ tcp_exit' \in BOOLEAN /\ n < MaxCommands - 1
    BY <1>a, <1>1 DEF PutCommand
  <2>2. UNCHANGED <<closing, ringVars, command_ready, kind, threadVars, pipelineVars>>
    BY <1>1 DEF PutCommand
  <2>3. ControlType' BY <1>0, <2>1, <2>2 DEF ControlType, threadVars
  <2>4. (CountType /\ BufferType /\ KindType /\ ThreadType /\ ExecutedType /\ PipelineType /\ AtHand)'
    BY <1>0, <2>2 DEF CountType, BufferType, KindType, ThreadType, ExecutedType, PipelineType, AtHand,
                      ringVars, threadVars, pipelineVars
  <2>5. Counted' BY <1>0, <1>a, <1>b, <2>1, <2>2 DEF Counted, Unready, Unposted, Claimed, Held, ringVars, threadVars
  <2>6. Budget' BY <1>0, <1>a, <1>b, <2>1, <2>2 DEF Budget
  <2> QED BY <2>3, <2>4, <2>5, <2>6 DEF CounterInv
<1>2. ASSUME RingPush PROVE CounterInv'
  <2>1. /\ main = "push" /\ main' = "ring_post" /\ kind' = Append(kind, req) /\ used' = used + 1
        /\ pos' = Position /\ buffer' = [buffer EXCEPT ![Position] = Len(kind) + 1]
    BY <1>2 DEF RingPush
  <2>2. UNCHANGED <<req, tcp_exit, closing, start, sem, command_ready, threadVars, pipelineVars>>
    BY <1>2 DEF RingPush
  <2>3. Position \in Words /\ Len(kind) + 1 \in Ids BY <2>1, PositionInWords
  <2>4. kind' \in Seq(Requests) /\ Len(kind') = n + 1
    <3>1. kind \in Seq(Requests) /\ req \in Requests BY <1>0 DEF KindType, ControlType
    <3> QED BY <3>1, <1>a, <2>1, OneMore
  <2>5. ControlType' BY <1>0, <2>1, <2>2 DEF ControlType, threadVars
  <2>6. CountType' BY <1>0, <1>b, <2>1, <2>2 DEF CountType
  <2>7. BufferType' BY <1>0, <2>1, <2>3 DEF BufferType
  <2>8. KindType' BY <2>4 DEF KindType
  <2>9. (ThreadType /\ ExecutedType /\ PipelineType /\ AtHand)'
    BY <1>0, <2>2 DEF ThreadType, ExecutedType, PipelineType, AtHand, threadVars, pipelineVars
  <2>10. Counted' BY <1>0, <1>a, <1>b, <2>1, <2>2, <2>4 DEF Counted, Unready, Unposted, Claimed, Held, threadVars
  <2>11. Budget' BY <1>0, <1>a, <1>b, <2>1, <2>2, <2>4 DEF Budget
  <2> QED BY <2>5, <2>6, <2>7, <2>8, <2>9, <2>10, <2>11 DEF CounterInv
<1>3. ASSUME RingPost \/ ReadyPost \/ DestroyPush \/ DestroyJoin PROVE CounterInv'
  <2>1. UNCHANGED <<start, used, buffer, pos, kind, threadVars, pipelineVars>>
    BY <1>3 DEF RingPost, ReadyPost, DestroyPush, DestroyJoin, ringVars
  <2>2. (BufferType /\ KindType /\ ThreadType /\ ExecutedType /\ PipelineType /\ AtHand)'
    BY <1>0, <2>1 DEF BufferType, KindType, ThreadType, ExecutedType, PipelineType, AtHand,
                      threadVars, pipelineVars
  <2>3. ControlType' BY <1>0, <1>3 DEF ControlType, Requests, RingPost, ReadyPost, DestroyPush, DestroyJoin, threadVars
  <2>4. CountType' BY <1>0, <1>3, <2>1 DEF CountType, RingPost, ReadyPost, DestroyPush, DestroyJoin, ringVars
  <2>5. Counted'
    BY <1>0, <1>a, <1>b, <1>3, <2>1 DEF Counted, Unready, Unposted, Claimed, Held, RingPost, ReadyPost,
       DestroyPush, DestroyJoin, ringVars, threadVars
  <2>6. Budget' BY <1>0, <1>a, <1>b, <1>3, <2>1 DEF Budget, RingPost, ReadyPost, DestroyPush, DestroyJoin
  <2> QED BY <2>2, <2>3, <2>4, <2>5, <2>6 DEF CounterInv
<1> QED BY <1>1, <1>2, <1>3 DEF MainThread, push_new_command

\* A pipeline more leaves the types of what is said of the pipelines.
LEMMA OnePipelineMore ==
  ASSUME PipelineType, StartPipeline
  PROVE  PipelineType'
<1>1. PICK States : States = {"running", "stopping", "destroyed", "destroyed twice"} OBVIOUS
<1>2. PICK n : n = Len(pipelines) OBVIOUS
<1>3. pipelines \in Seq(States) /\ "running" \in States /\ faulty \subseteq 1 .. n
  BY <1>1, <1>2 DEF PipelineType
<1>4. pipelines' = Append(pipelines, "running") /\ pdesc' = n + 1 /\ faulty' = faulty
  BY <1>2 DEF StartPipeline
<1>5. pipelines' \in Seq(States) /\ Len(pipelines') = n + 1 /\ n \in Nat
  BY <1>2, <1>3, <1>4, OneMore
<1>6. faulty' \subseteq 1 .. Len(pipelines') BY <1>3, <1>4, <1>5
<1>7. pdesc' \in Nat BY <1>4, <1>5
<1> QED BY <1>1, <1>5, <1>6, <1>7, Zenon DEF PipelineType

\* One pipeline in another state leaves them too.
LEMMA OnePipelineChanged ==
  ASSUME PipelineType, UNCHANGED <<pdesc, faulty>>,
         NEW e \in PipelineStates, NEW i, pipelines' = [pipelines EXCEPT ![i] = e]
  PROVE  PipelineType'
<1>1. pipelines \in Seq(PipelineStates) BY Zenon DEF PipelineType, PipelineStates
<1>2. PICK n : n = Len(pipelines) OBVIOUS
<1>3. pipelines' \in Seq(PipelineStates) /\ Len(pipelines') = n BY <1>1, <1>2, OneReplaced
<1> QED BY <1>2, <1>3, Zenon DEF PipelineType, PipelineStates

\* Every step of command_thread, an answer to CONFIG's question, and what
\* becomes of a pipeline keep them too.
LEMMA CounterThread ==
  ASSUME CounterInv, \/ command_thread
                     \/ ConfigInput
                     \/ \E p \in 1 .. Len(pipelines) : PipelineFault(p) \/ PipelineEnds(p)
  PROVE  CounterInv'
<1>0. /\ ControlType /\ CountType /\ BufferType /\ KindType
      /\ ThreadType /\ ExecutedType /\ PipelineType
      /\ Counted /\ Budget /\ AtHand
  BY DEF CounterInv
<1>a. PICK n : n = Len(kind) OBVIOUS
<1>b. /\ QueueSize \in Nat /\ QueueSize > 0 /\ MaxCommands \in Nat /\ n \in Nat
      /\ start \in Nat /\ start < QueueSize
      /\ used \in Nat /\ sem \in Nat /\ command_ready \in Nat
      /\ (ct = "pop" => QueueSize < used)
  BY <1>a, CountFacts
<1>1. ASSUME CheckExit \/ WaitReady \/ WaitRing PROVE CounterInv'
  <2>1. UNCHANGED <<mainVars, start, used, buffer, pos, kind, cur, exit_flag, executed, freed, pipelineVars>>
    BY <1>1 DEF CheckExit, WaitReady, WaitRing, ringVars
  <2>2. (BufferType /\ KindType /\ ThreadType /\ ExecutedType /\ PipelineType /\ Budget)'
    BY <1>0, <2>1 DEF BufferType, KindType, ThreadType, ExecutedType, PipelineType, Budget,
                      mainVars, pipelineVars
  <2>3. ControlType' BY <1>0, <1>1, <2>1 DEF ControlType, mainVars, CheckExit, WaitReady, WaitRing
  <2>4. CountType' BY <1>0, <1>b, <1>1, <2>1 DEF CountType, CheckExit, WaitReady, WaitRing, ringVars
  <2>5. Counted'
    BY <1>0, <1>a, <1>b, <1>1, <2>1 DEF Counted, Unready, Unposted, Claimed, Held, CheckExit, WaitReady,
       WaitRing, mainVars, ringVars
  <2>6. AtHand' BY <1>0, <1>1 DEF AtHand, CheckExit, WaitReady, WaitRing
  <2> QED BY <2>2, <2>3, <2>4, <2>5, <2>6 DEF CounterInv
<1>2. ASSUME RingPop PROVE CounterInv'
  <2>1. /\ ct = "pop" /\ cur' = buffer[start] /\ used' = used - 1
        /\ ct' = (IF buffer[start] = NULL THEN "check" ELSE "execute")
        /\ start' = (IF start + 1 >= QueueSize THEN 0 ELSE start + 1)
    BY <1>2 DEF RingPop
  <2>2. UNCHANGED <<mainVars, sem, buffer, pos, command_ready, kind, exit_flag, executed, freed, pipelineVars>>
    BY <1>2 DEF RingPop
  <2>3. start \in Words BY <1>b DEF Words
  <2>4. buffer[start] \in Ids \cup {NULL} BY <1>0, <2>3 DEF BufferType
  <2>5. (BufferType /\ KindType /\ ExecutedType /\ PipelineType /\ Budget)'
    BY <1>0, <2>2 DEF BufferType, KindType, ExecutedType, PipelineType, Budget, mainVars, pipelineVars
  <2>6. ControlType' BY <1>0, <2>1, <2>2 DEF ControlType, mainVars
  <2>7. CountType' BY <1>0, <1>b, <2>1, <2>2 DEF CountType
  <2>8. ThreadType' BY <1>0, <2>1, <2>2, <2>4 DEF ThreadType
  <2>9. Counted' BY <1>0, <1>a, <1>b, <2>1, <2>2 DEF Counted, Unready, Unposted, Claimed, Held, mainVars
  <2>10. AtHand' BY <2>1, <2>4 DEF AtHand
  <2> QED BY <2>5, <2>6, <2>7, <2>8, <2>9, <2>10 DEF CounterInv
<1>3. ASSUME executeAPICommand PROVE CounterInv'
  <2>1. ct = "execute" /\ cur \in Ids /\ executed' = Append(executed, cur)
    BY <1>0, <1>3 DEF AtHand, executeAPICommand, ExecuteInit, ExecuteConfig, ExecuteStop, ExecuteUnknown
  <2>2. ct' \in {"free", "input", "destroying"} /\ UNCHANGED <<mainVars, ringVars, command_ready, kind, cur, freed>>
    BY <1>3 DEF executeAPICommand, ExecuteInit, ExecuteConfig, ExecuteStop, ExecuteUnknown, StartPipeline
  <2>3. ExecutedType'
    <3>1. executed \in Seq(Ids) BY <1>0 DEF ExecutedType
    <3>2. Append(executed, cur) \in Seq(Ids) BY <2>1, <3>1, OneMore
    <3> QED BY <2>1, <3>2 DEF ExecutedType
  <2>4. PipelineType'
    <3>1. CASE ExecuteInit BY <1>0, <3>1, OnePipelineMore DEF ExecuteInit
    <3>2. CASE ExecuteStop
      <4>1. CASE UNCHANGED pipelineVars BY <1>0, <4>1 DEF PipelineType, pipelineVars
      <4>2. CASE ~UNCHANGED pipelineVars
        <5>1. UNCHANGED <<pdesc, faulty>> /\ \E e \in PipelineStates : pipelines' = [pipelines EXCEPT ![pdesc] = e]
          BY <3>2, <4>2 DEF ExecuteStop, pipelineVars, PipelineStates
        <5> QED BY <1>0, <5>1, OnePipelineChanged
      <4> QED BY <4>1, <4>2
    <3>3. CASE ExecuteConfig \/ ExecuteUnknown
      BY <1>0, <3>3 DEF PipelineType, ExecuteConfig, ExecuteUnknown, pipelineVars
    <3> QED BY <1>3, <3>1, <3>2, <3>3 DEF executeAPICommand
  <2>5. ControlType'
    <3>1. exit_flag' \in BOOLEAN
      BY <1>0, <1>3 DEF ControlType, executeAPICommand, ExecuteInit, ExecuteConfig, ExecuteStop, ExecuteUnknown
    <3> QED BY <1>0, <2>2, <3>1 DEF ControlType, mainVars
  <2>6. (CountType /\ BufferType /\ KindType /\ ThreadType /\ Budget)'
    BY <1>0, <2>2 DEF CountType, BufferType, KindType, ThreadType, Budget, mainVars, ringVars
  <2>7. Counted'
    BY <1>0, <1>a, <1>b, <2>1, <2>2 DEF Counted, Unready, Unposted, Claimed, Held, mainVars, ringVars
  <2>8. AtHand' BY <2>1, <2>2 DEF AtHand
  <2> QED BY <2>3, <2>4, <2>5, <2>6, <2>7, <2>8 DEF CounterInv
<1>4. ASSUME PipelineDestroyed \/ FreeCommand PROVE CounterInv'
  <2>1. UNCHANGED <<mainVars, ringVars, command_ready, kind, exit_flag, executed, pipelineVars>>
    BY <1>4 DEF PipelineDestroyed, FreeCommand
  <2>2. ct \in {"destroying", "free"} /\ ct' \in {"check", "free"} /\ (ct' = "free" => cur' = cur)
    BY <1>4 DEF PipelineDestroyed, FreeCommand
  <2>3. (CountType /\ BufferType /\ KindType /\ ExecutedType /\ PipelineType /\ Budget)'
    BY <1>0, <2>1 DEF CountType, BufferType, KindType, ExecutedType, PipelineType, Budget, mainVars,
                      ringVars, pipelineVars
  <2>4. ControlType' BY <1>0, <2>1, <2>2 DEF ControlType, mainVars
  <2>5. cur \in Ids BY <1>0, <2>2 DEF AtHand
  <2>6. ThreadType' BY <1>0, <1>4, <2>5 DEF ThreadType, PipelineDestroyed, FreeCommand
  <2>7. Counted'
    BY <1>0, <1>a, <1>b, <2>1, <2>2 DEF Counted, Unready, Unposted, Claimed, Held, mainVars, ringVars
  <2>8. AtHand' BY <2>2, <2>5 DEF AtHand
  <2> QED BY <2>3, <2>4, <2>6, <2>7, <2>8 DEF CounterInv
<1>5. ASSUME ConfigInput PROVE CounterInv'
  <2>1. ct = "input" /\ ct' = "free" /\ StartPipeline
        /\ UNCHANGED <<mainVars, ringVars, command_ready, kind, cur, exit_flag, executed, freed>>
    BY <1>5 DEF ConfigInput, StartPipeline
  <2>2. (CountType /\ BufferType /\ KindType /\ ThreadType /\ ExecutedType /\ Budget)'
    BY <1>0, <2>1 DEF CountType, BufferType, KindType, ThreadType, ExecutedType, Budget, mainVars, ringVars
  <2>3. ControlType' BY <1>0, <2>1 DEF ControlType, mainVars
  <2>4. PipelineType' BY <1>0, <2>1, OnePipelineMore
  <2>5. Counted'
    BY <1>0, <1>a, <1>b, <2>1 DEF Counted, Unready, Unposted, Claimed, Held, mainVars, ringVars
  <2>6. AtHand' BY <1>0, <2>1 DEF AtHand
  <2> QED BY <2>2, <2>3, <2>4, <2>5, <2>6 DEF CounterInv
<1>6. ASSUME NEW p \in 1 .. Len(pipelines), PipelineFault(p) \/ PipelineEnds(p) PROVE CounterInv'
  <2>1. UNCHANGED <<mainVars, ringVars, command_ready, kind, threadVars, pdesc>>
    BY <1>6 DEF PipelineFault, PipelineEnds
  <2>2. /\ ControlType' /\ CountType' /\ BufferType' /\ KindType' /\ ThreadType' /\ ExecutedType'
        /\ Budget' /\ AtHand'
    BY <1>0, <2>1 DEF ControlType, CountType, BufferType, KindType, ThreadType, ExecutedType, Budget, AtHand,
                      mainVars, ringVars, threadVars
  <2>3. Counted'
    BY <1>0, <2>1 DEF Counted, Unready, Unposted, Claimed, Held, mainVars, ringVars, threadVars
  <2>4. ASSUME PipelineFault(p) PROVE PipelineType'
    BY <1>0, <2>4 DEF PipelineType, PipelineFault
  <2>5. ASSUME PipelineEnds(p) PROVE PipelineType'
    <3>1. UNCHANGED <<pdesc, faulty>> /\ \E e \in PipelineStates : pipelines' = [pipelines EXCEPT ![p] = e]
      BY <2>5 DEF PipelineEnds, PipelineStates
    <3> QED BY <1>0, <3>1, OnePipelineChanged
  <2> QED BY <1>6, <2>2, <2>3, <2>4, <2>5 DEF CounterInv
<1> QED BY <1>1, <1>2, <1>3, <1>4, <1>5, <1>6 DEF command_thread

\* The types and the counters hold in every state the server reaches.
THEOREM CounterInvariance == Spec => []CounterInv
<1>1. Init => CounterInv
  <2>1. ASSUME Init PROVE CounterInv
    <3>1. /\ QueueSize \in Nat /\ QueueSize > 0 /\ MaxCommands \in Nat /\ MaxCommands > 0
      BY CommandServerAssumption
    <3>2. kind = << >> /\ Len(kind) = 0 BY <2>1 DEF Init
    <3>3. ControlType BY <2>1 DEF Init, ControlType, Requests
    <3>4. CountType BY <2>1, <3>1 DEF Init, CountType
    <3>5. BufferType
      <4>1. 0 \in Words BY <3>1 DEF Words
      <4> QED BY <2>1, <4>1 DEF Init, BufferType, NULL
    <3>6. KindType BY <3>2 DEF KindType
    <3>7. ThreadType BY <2>1 DEF Init, ThreadType
    <3>8. ExecutedType BY <2>1 DEF Init, ExecutedType
    <3>9. PipelineType BY <2>1 DEF Init, PipelineType, NULL
    <3>10. Counted BY <2>1, <3>1, <3>2 DEF Init, Counted, Unready, Unposted, Claimed, Held
    <3>11. Budget BY <2>1, <3>1, <3>2 DEF Init, Budget
    <3>12. AtHand BY <2>1 DEF Init, AtHand
    <3> QED BY <3>3, <3>4, <3>5, <3>6, <3>7, <3>8, <3>9, <3>10, <3>11, <3>12 DEF CounterInv
  <2> QED BY <2>1
<1>2. CounterInv /\ [Next]_vars => CounterInv'
  <2>1. ASSUME CounterInv, UNCHANGED vars PROVE CounterInv'
    BY <2>1 DEF CounterInv, ControlType, CountType, BufferType, KindType, ThreadType, ExecutedType,
                PipelineType, Counted, Unready, Unposted, Claimed, Held, Budget, AtHand,
                vars, mainVars, ringVars, threadVars, pipelineVars
  <2> QED BY <2>1, CounterMain, CounterThread DEF Next
<1> QED BY <1>1, <1>2, PTL DEF Spec

\* The types: start stays inside the ring, no counter underflows, and what
\* ring_buffer_push stores lies at most MaxCommands words behind the ring.
THEOREM CommandTypes == Spec => []TypeOK
BY CounterInvTypes, CounterInvariance, PTL

-----------------------------------------------------------------------------
(* The pipeline.  STOP is the last command command_thread executes: before *)
(* it every pipeline runs, after it only the one in charge is ended.  None *)
(* of this depends on which command the ring hands out.                    *)
BeforeStop ==
    ~exit_flag => /\ \A p \in 1 .. Len(pipelines) : pipelines[p] = "running"
                  /\ ct \notin {"destroying", "ended"}

AfterStop ==
    exit_flag => /\ ct \in {"destroying", "free", "check", "ended"}
                 /\ \A p \in 1 .. Len(pipelines) : pipelines[p] # "destroyed twice"
                 /\ ct = "destroying" => pdesc # NULL /\ pipelines[pdesc] \in {"stopping", "destroyed"}
                 /\ ct # "destroying" /\ pdesc # NULL => pipelines[pdesc] = "destroyed"

PipelineInv ==
    /\ pdesc \in 0 .. Len(pipelines)
    /\ BeforeStop /\ AfterStop
    /\ main = "ended" => ct = "ended"

\* Every step but executeAPICommand leaves the pipelines alone, or ends one
\* that was told to stop.
LEMMA PipelineOthers ==
  ASSUME CounterInv, PipelineInv,
         \/ \E r \in Requests : PutCommand(r)
         \/ MainThread
         \/ CheckExit \/ WaitReady \/ WaitRing \/ RingPop \/ PipelineDestroyed \/ FreeCommand
  PROVE  PipelineInv'
<1>1. UNCHANGED <<pdesc, pipelines, exit_flag>>
  BY DEF PutCommand, MainThread, push_new_command, RingPush, RingPost, ReadyPost, DestroyPush, DestroyJoin,
         CheckExit, WaitReady, WaitRing, RingPop, PipelineDestroyed, FreeCommand, threadVars, pipelineVars
<1>2. exit_flag \in BOOLEAN /\ ct \in {"check", "wait_ready", "wait_ring", "pop", "execute", "input",
                                     "destroying", "free", "ended"}
  BY DEF CounterInv, ControlType
<1>3. /\ exit_flag => ct' \in {"destroying", "free", "check", "ended"}
      /\ ~exit_flag => ct' \notin {"destroying", "ended"}
      /\ exit_flag /\ ct' = "destroying" => ct = "destroying"
      /\ ct = "destroying" /\ ct' # "destroying" => pipelines[pdesc] = "destroyed"
  BY <1>2 DEF PipelineInv, BeforeStop, AfterStop, PutCommand, MainThread, push_new_command, RingPush, RingPost,
         ReadyPost, DestroyPush, DestroyJoin, CheckExit, WaitReady, WaitRing, RingPop, PipelineDestroyed,
         FreeCommand, threadVars
<1>4. main' = "ended" => ct' = "ended"
  <2>1. CASE \/ \E r \in Requests : PutCommand(r)
             \/ MainThread
    BY <2>1 DEF PipelineInv, PutCommand, MainThread, push_new_command, RingPush, RingPost, ReadyPost,
                DestroyPush, DestroyJoin, threadVars
  <2>2. CASE CheckExit \/ WaitReady \/ WaitRing \/ RingPop \/ PipelineDestroyed \/ FreeCommand
    BY <2>2 DEF PipelineInv, CheckExit, WaitReady, WaitRing, RingPop, PipelineDestroyed, FreeCommand, mainVars
  <2> QED BY <2>1, <2>2
<1>5. BeforeStop' BY <1>1, <1>3 DEF PipelineInv, BeforeStop
<1>6. AfterStop' BY <1>1, <1>3 DEF PipelineInv, AfterStop
<1> QED BY <1>1, <1>4, <1>5, <1>6 DEF PipelineInv

\* A pipeline is started before the flag is raised.
LEMMA PipelineStarts ==
  ASSUME CounterInv, PipelineInv, StartPipeline, ~exit_flag, main # "ended", UNCHANGED <<main, exit_flag>>
  PROVE  PipelineInv'
<1>1. PICK States : States = {"running", "stopping", "destroyed", "destroyed twice"} OBVIOUS
<1>2. PICK n : n = Len(pipelines) OBVIOUS
<1>3. pipelines \in Seq(States) /\ "running" \in States
  BY <1>1 DEF CounterInv, PipelineType
<1>4. n \in Nat /\ \A p \in 1 .. n : pipelines[p] = "running"
  BY <1>2, <1>3 DEF PipelineInv, BeforeStop
<1>5. ct' = "free" /\ pipelines' = Append(pipelines, "running") /\ pdesc' = n + 1
  BY <1>2 DEF StartPipeline
<1>6. Len(pipelines') = n + 1 BY <1>2, <1>3, <1>5, OneMore
<1>7. \A p \in 1 .. n + 1 : pipelines'[p] = "running"
  <2>1. TAKE p \in 1 .. n + 1
  <2>2. CASE p = n + 1 BY <1>2, <1>3, <1>5, <2>2
  <2>3. CASE p # n + 1
    <3>1. p \in 1 .. n BY <1>4, <2>3
    <3>2. pipelines'[p] = pipelines[p] BY <1>2, <1>3, <1>5, <3>1
    <3> QED BY <1>4, <3>1, <3>2
  <2> QED BY <2>2, <2>3
<1>8. BeforeStop' BY <1>5, <1>6, <1>7 DEF BeforeStop
<1>9. AfterStop' BY DEF AfterStop
<1> QED BY <1>4, <1>5, <1>6, <1>8, <1>9 DEF PipelineInv

\* A command is executed before the flag is raised, so pipeline_destroy finds
\* a running pipeline.
LEMMA PipelineExecute ==
  ASSUME CounterInv, PipelineInv, executeAPICommand
  PROVE  PipelineInv'
<1>1. ct = "execute" /\ UNCHANGED main
  BY DEF executeAPICommand, ExecuteInit, ExecuteConfig, ExecuteStop, ExecuteUnknown, mainVars
<1>2. PICK States : States = {"running", "stopping", "destroyed", "destroyed twice"} OBVIOUS
<1>3. PICK n : n = Len(pipelines) OBVIOUS
<1>4. pipelines \in Seq(States) /\ n \in Nat /\ pdesc \in 0 .. n
  <2>1. pipelines \in Seq(States) BY <1>2 DEF CounterInv, PipelineType
  <2> QED BY <1>3, <2>1 DEF PipelineInv
<1>5. ~exit_flag BY <1>1 DEF PipelineInv, AfterStop
<1>6. \A p \in 1 .. n : pipelines[p] = "running" BY <1>3, <1>5 DEF PipelineInv, BeforeStop
<1>7. main # "ended" BY <1>1 DEF PipelineInv
<1>8. ASSUME ExecuteInit PROVE PipelineInv'
  BY <1>1, <1>5, <1>7, <1>8, PipelineStarts DEF ExecuteInit
<1>9. ASSUME ExecuteStop PROVE PipelineInv'
  <2>1. exit_flag' /\ pdesc' = pdesc BY <1>9 DEF ExecuteStop
  <2>2. BeforeStop' BY <2>1 DEF BeforeStop
  <2>3. CASE pdesc = NULL
    <3>1. ct' = "free" /\ pipelines' = pipelines BY <1>9, <2>3 DEF ExecuteStop
    <3>2. AfterStop' BY <1>3, <1>6, <2>1, <2>3, <3>1 DEF AfterStop
    <3> QED BY <1>1, <1>3, <1>4, <1>7, <2>1, <2>2, <3>1, <3>2 DEF PipelineInv
  <2>4. CASE pdesc # NULL
    <3>1. pdesc \in 1 .. n BY <1>4, <2>4 DEF NULL
    <3>2. pipelines[pdesc] = "running" BY <1>6, <3>1
    <3>3. ct' = "destroying" /\ pipelines' = [pipelines EXCEPT ![pdesc] = "stopping"]
      BY <1>9, <2>4, <3>2 DEF ExecuteStop
    <3>4. "stopping" \in States BY <1>2
    <3>5. /\ Len(pipelines') = n
          /\ \A p \in 1 .. n : pipelines'[p] = IF p = pdesc THEN "stopping" ELSE pipelines[p]
      BY <1>3, <1>4, <3>3, <3>4, OneReplaced
    <3>6. pipelines'[pdesc] = "stopping" /\ \A p \in 1 .. n : pipelines'[p] # "destroyed twice"
      BY <1>6, <3>1, <3>5
    <3>7. AfterStop' BY <2>1, <2>4, <3>3, <3>5, <3>6 DEF AfterStop, NULL
    <3> QED BY <1>1, <1>4, <1>7, <2>1, <2>2, <3>5, <3>7 DEF PipelineInv
  <2> QED BY <2>3, <2>4
<1>10. ASSUME ExecuteConfig \/ ExecuteUnknown PROVE PipelineInv'
  <2>1. ct' \in {"free", "input"} /\ UNCHANGED <<pipelines, pdesc, exit_flag>>
    BY <1>10 DEF ExecuteConfig, ExecuteUnknown, pipelineVars
  <2>2. BeforeStop' BY <1>3, <1>6, <2>1 DEF BeforeStop
  <2>3. AfterStop' BY <1>5, <2>1 DEF AfterStop
  <2> QED BY <1>1, <1>3, <1>4, <1>7, <2>1, <2>2, <2>3 DEF PipelineInv
<1> QED BY <1>8, <1>9, <1>10 DEF executeAPICommand

\* The name CONFIG waits for comes before STOP is executed.
LEMMA PipelineInput ==
  ASSUME CounterInv, PipelineInv, ConfigInput
  PROVE  PipelineInv'
<1>1. ct = "input" /\ StartPipeline /\ UNCHANGED <<main, exit_flag>>
  BY DEF ConfigInput, mainVars
<1>2. ~exit_flag /\ main # "ended" BY <1>1 DEF PipelineInv, AfterStop
<1> QED BY <1>1, <1>2, PipelineStarts

\* A pipeline that was told to stop ends.
LEMMA PipelineStep ==
  ASSUME CounterInv, PipelineInv, NEW q \in 1 .. Len(pipelines), PipelineEnds(q)
  PROVE  PipelineInv'
<1>1. /\ pipelines[q] = "stopping" /\ pipelines' = [pipelines EXCEPT ![q] = "destroyed"]
      /\ UNCHANGED <<main, ct, exit_flag, pdesc>>
  BY DEF PipelineEnds, mainVars, threadVars
<1>2. PICK States : States = {"running", "stopping", "destroyed", "destroyed twice"} OBVIOUS
<1>3. PICK n : n = Len(pipelines) OBVIOUS
<1>4. pipelines \in Seq(States) /\ "destroyed" \in States /\ n \in Nat /\ pdesc \in 0 .. n
  <2>1. pipelines \in Seq(States) BY <1>2 DEF CounterInv, PipelineType
  <2>2. "destroyed" \in States BY <1>2
  <2> QED BY <1>3, <2>1, <2>2 DEF PipelineInv
<1>5. /\ Len(pipelines') = n
      /\ \A p \in 1 .. n : pipelines'[p] = IF p = q THEN "destroyed" ELSE pipelines[p]
  BY <1>1, <1>3, <1>4, OneReplaced
<1>6. exit_flag BY <1>1 DEF PipelineInv, BeforeStop
<1>7. BeforeStop' BY <1>1, <1>6 DEF BeforeStop
<1>8. AfterStop'
  <2>1. \A p \in 1 .. n : pipelines'[p] # "destroyed twice" BY <1>3, <1>5, <1>6 DEF PipelineInv, AfterStop
  <2>2. ASSUME pdesc # NULL PROVE pipelines'[pdesc] = "destroyed" \/ pipelines'[pdesc] = pipelines[pdesc]
    <3>1. pdesc \in 1 .. n BY <1>4, <2>2 DEF NULL
    <3> QED BY <1>5, <3>1
  <2> QED BY <1>1, <1>5, <1>6, <2>1, <2>2 DEF PipelineInv, AfterStop
<1> QED BY <1>1, <1>3, <1>4, <1>5, <1>7, <1>8 DEF PipelineInv

\* What is said of the pipelines holds in every state the server reaches.
THEOREM PipelineInvariance == Spec => []PipelineInv
<1>1. Init => PipelineInv BY DEF Init, PipelineInv, BeforeStop, AfterStop, NULL
<1>2. CounterInv /\ PipelineInv /\ [Next]_vars => PipelineInv'
  <2>1. ASSUME PipelineInv, UNCHANGED <<main, ct, exit_flag, pdesc, pipelines>> PROVE PipelineInv'
    BY <2>1 DEF PipelineInv, BeforeStop, AfterStop
  <2>2. ASSUME PipelineInv, UNCHANGED vars PROVE PipelineInv'
    BY <2>1, <2>2 DEF vars, mainVars, threadVars, pipelineVars
  <2>3. ASSUME PipelineInv, NEW p \in 1 .. Len(pipelines), PipelineFault(p) PROVE PipelineInv'
    BY <2>1, <2>3 DEF PipelineFault, mainVars, threadVars
  <2> QED BY <2>2, <2>3, PipelineOthers, PipelineExecute, PipelineInput, PipelineStep DEF Next, command_thread
<1> QED BY <1>1, <1>2, CounterInvariance, PTL DEF Spec

\* When the server ends, the pipeline in charge has been shut down by exactly
\* one pipeline_destroy, for every queue size and number of commands: also when
\* cmd_ring overflows and hands out commands twice.
THEOREM PipelineIsShutDownOnce == Spec => []PipelineShutDownOnce
<1>1. PipelineInv => PipelineShutDownOnce
  <2>1. ASSUME PipelineInv PROVE PipelineShutDownOnce
    <3>1. main = "ended" => exit_flag /\ ct = "ended" BY <2>1 DEF PipelineInv, BeforeStop
    <3>2. \A p \in 1 .. Len(pipelines) : pipelines[p] # "destroyed twice"
      BY <2>1 DEF PipelineInv, BeforeStop, AfterStop
    <3> QED BY <2>1, <3>1, <3>2 DEF PipelineInv, AfterStop, PipelineShutDownOnce
  <2> QED BY <2>1
<1> QED BY <1>1, PipelineInvariance, PTL

-----------------------------------------------------------------------------
(* The order.  As long as no more commands are put than cmd_ring has slots *)
(* the k-th is in slot k - 1, and start counts the commands popped.        *)
Popped == QueueSize + Len(kind) - used

Slots == \A k \in 1 .. Len(kind) : buffer[k - 1] = k

Executing == ct \in {"execute", "input", "destroying", "free"}

\* The command at hand is the one popped last, and it has not been freed.
Current ==
    /\ Executing => cur = Popped
    /\ \A k \in freed : k <= Popped /\ (Executing => k < Popped)

FifoInv ==
    /\ start = IF Popped = QueueSize THEN 0 ELSE Popped
    /\ Slots
    /\ Current
    /\ Len(executed) = IF ct = "execute" THEN Popped - 1 ELSE Popped
    /\ ExecutedInOrder

\* While it is executed, a command is one that was put and has not been freed.
CommandIsLive == ct = "execute" => cur \in 1 .. Len(kind) /\ cur \notin freed

\* A command is put into the slot behind those put before.
LEMMA FifoPush ==
  ASSUME MaxCommands <= QueueSize, CounterInv, FifoInv, RingPush
  PROVE  FifoInv'
<1>1. /\ main = "push" /\ kind' = Append(kind, req) /\ used' = used + 1
      /\ buffer' = [buffer EXCEPT ![Position] = Len(kind) + 1]
      /\ UNCHANGED <<start, ct, cur, executed, freed>>
  BY DEF RingPush, threadVars
<1>2. PICK n : n = Len(kind) OBVIOUS
<1>3. Len(kind') = n + 1
  <2>1. kind \in Seq(Requests) /\ req \in Requests BY DEF CounterInv, KindType, ControlType
  <2> QED BY <1>1, <1>2, <2>1, OneMore
<1>4. n \in Nat /\ QueueSize \in Nat /\ used \in Nat /\ n < MaxCommands /\ MaxCommands \in Nat
      /\ QueueSize <= used
  BY <1>1, <1>2, CountFacts DEF CounterInv, Budget
<1>5. Popped' = Popped /\ Popped = QueueSize + n - used
  BY <1>1, <1>2, <1>3, <1>4 DEF Popped
<1>6. start = Popped
  <2>1. Popped # QueueSize BY <1>4, <1>5
  <2> QED BY <2>1 DEF FifoInv
<1>7. Position = n /\ n \in Words
  <2>1. Position \in Words /\ Position = start + used - QueueSize BY <1>1, PositionInWords
  <2> QED BY <1>4, <1>5, <1>6, <2>1
<1>8. Slots'
  <2>1. ASSUME NEW k \in 1 .. n + 1 PROVE buffer'[k - 1] = k
    <3>1. k - 1 \in Words BY <1>4 DEF Words
    <3>2. buffer'[k - 1] = IF k - 1 = n THEN n + 1 ELSE buffer[k - 1]
      BY <1>1, <1>2, <1>7, <3>1 DEF CounterInv, BufferType
    <3>3. CASE k = n + 1 BY <1>4, <3>2, <3>3
    <3>4. CASE k # n + 1
      <4>1. k \in 1 .. n /\ k - 1 # n BY <1>4, <3>4
      <4>2. buffer[k - 1] = k BY <1>2, <4>1 DEF FifoInv, Slots
      <4> QED BY <3>2, <4>1, <4>2
    <3> QED BY <3>3, <3>4
  <2> QED BY <1>3, <2>1 DEF Slots
<1>9. Current' BY <1>1, <1>5 DEF FifoInv, Current, Executing
<1>10. ExecutedInOrder' BY <1>1 DEF FifoInv, ExecutedInOrder
<1> QED BY <1>1, <1>5, <1>8, <1>9, <1>10 DEF FifoInv

\* The command popped is the next one.
LEMMA FifoPop ==
  ASSUME MaxCommands <= QueueSize, CounterInv, FifoInv, RingPop
  PROVE  FifoInv'
<1>1. /\ ct = "pop" /\ cur' = buffer[start] /\ used' = used - 1
      /\ ct' = (IF buffer[start] = NULL THEN "check" ELSE "execute")
      /\ start' = (IF start + 1 >= QueueSize THEN 0 ELSE start + 1)
      /\ UNCHANGED <<kind, buffer, executed, freed>>
  BY DEF RingPop
<1>2. PICK n : n = Len(kind) OBVIOUS
<1>3. PICK p : p = Popped OBVIOUS
<1>4. /\ n \in Nat /\ QueueSize \in Nat /\ used \in Nat /\ n <= MaxCommands /\ MaxCommands \in Nat
      /\ QueueSize < used /\ used <= QueueSize + n /\ p = QueueSize + n - used
  BY <1>1, <1>2, <1>3, CountFacts DEF Popped
<1>5. p \in Nat /\ p < n /\ p < QueueSize /\ Popped' = p + 1
  BY <1>1, <1>2, <1>4 DEF Popped
<1>6. start = p BY <1>3, <1>4, <1>5 DEF FifoInv
<1>7. buffer[start] = p + 1
  <2>1. p + 1 \in 1 .. n /\ (p + 1) - 1 = start BY <1>4, <1>5, <1>6
  <2>2. buffer[(p + 1) - 1] = p + 1 BY <1>2, <2>1 DEF FifoInv, Slots
  <2> QED BY <2>1, <2>2
<1>8. ct' = "execute" /\ cur' = p + 1 BY <1>1, <1>5, <1>7 DEF NULL
<1>9. start' = IF Popped' = QueueSize THEN 0 ELSE Popped' BY <1>1, <1>4, <1>5, <1>6
<1>10. Slots' BY <1>1 DEF FifoInv, Slots
<1>11. Current'
  <2>1. ASSUME NEW k \in freed PROVE k <= p + 1 /\ k < p + 1
    <3>1. k <= p BY <1>3 DEF FifoInv, Current
    <3>2. k \in Nat BY DEF CounterInv, ThreadType, Ids
    <3> QED BY <1>5, <3>1, <3>2
  <2> QED BY <1>1, <1>5, <1>8, <2>1 DEF Current, Executing
<1>12. Len(executed) = p BY <1>1, <1>3 DEF FifoInv
<1>13. Len(executed') = Popped' - 1 BY <1>1, <1>5, <1>12
<1>14. ExecutedInOrder' BY <1>1 DEF FifoInv, ExecutedInOrder
<1> QED BY <1>8, <1>9, <1>10, <1>11, <1>13, <1>14 DEF FifoInv

\* The command executed is the next one, whatever it asks for.
LEMMA FifoExecute ==
  ASSUME MaxCommands <= QueueSize, CounterInv, FifoInv, executeAPICommand
  PROVE  FifoInv'
<1>1. /\ ct = "execute" /\ ct' \in {"free", "input", "destroying"} /\ executed' = Append(executed, cur)
      /\ UNCHANGED <<start, used, buffer, kind, cur, freed>>
  BY DEF executeAPICommand, ExecuteInit, ExecuteConfig, ExecuteStop, ExecuteUnknown, StartPipeline, ringVars
<1>2. Popped' = Popped BY <1>1 DEF Popped
<1>3. PICK m : m = Len(executed) OBVIOUS
<1>4. executed \in Seq(Ids) /\ cur \in Ids BY <1>1 DEF CounterInv, ExecutedType, AtHand
<1>5. m \in Nat /\ cur \in Nat BY <1>3, <1>4 DEF Ids
<1>6. cur = Popped /\ m = cur - 1 BY <1>1, <1>3 DEF FifoInv, Current, Executing
<1>7. cur = m + 1 BY <1>5, <1>6
<1>8. Len(executed') = m + 1 BY <1>1, <1>3, <1>4, OneMore
<1>9. ExecutedInOrder'
  <2>1. \A k \in 1 .. m : executed[k] = k
    <3>1. executed = [k \in 1 .. m |-> k] BY <1>3 DEF FifoInv, ExecutedInOrder
    <3> QED BY <3>1, Zenon
  <2>2. ASSUME NEW k \in 1 .. m + 1 PROVE executed'[k] = k
    <3>1. CASE k = m + 1
      <4>1. Append(executed, cur)[m + 1] = cur BY <1>3, <1>4
      <4> QED BY <1>1, <1>7, <3>1, <4>1
    <3>2. CASE k # m + 1
      <4>1. k \in 1 .. m BY <1>5, <3>2
      <4>2. Append(executed, cur)[k] = executed[k] BY <1>3, <1>4, <4>1
      <4> QED BY <1>1, <2>1, <4>1, <4>2
    <3> QED BY <3>1, <3>2
  <2>3. executed' \in [1 .. m + 1 -> Ids]
    <3>1. executed' \in Seq(Ids) BY <1>1, <1>4, OneMore
    <3> QED BY <1>8, <3>1
  <2>4. executed' = [k \in 1 .. m + 1 |-> k] BY <2>2, <2>3, Zenon
  <2> QED BY <1>8, <2>4 DEF ExecutedInOrder
<1>10. Slots' BY <1>1 DEF FifoInv, Slots
<1>11. Current' BY <1>1, <1>2 DEF FifoInv, Current, Executing
<1> QED BY <1>1, <1>2, <1>5, <1>6, <1>7, <1>8, <1>9, <1>10, <1>11 DEF FifoInv

\* The other steps put, pop and execute nothing; one frees the command at hand.
LEMMA FifoOthers ==
  ASSUME CounterInv, FifoInv,
         \/ \E r \in Requests : PutCommand(r)
         \/ RingPost \/ ReadyPost \/ DestroyPush \/ DestroyJoin
         \/ CheckExit \/ WaitReady \/ WaitRing \/ PipelineDestroyed \/ FreeCommand
         \/ ConfigInput
         \/ \E p \in 1 .. Len(pipelines) : PipelineFault(p) \/ PipelineEnds(p)
  PROVE  FifoInv'
<1>1. UNCHANGED <<start, used, buffer, kind, executed>>
  BY DEF PutCommand, RingPost, ReadyPost, DestroyPush, DestroyJoin, CheckExit, WaitReady, WaitRing,
         PipelineDestroyed, FreeCommand, ConfigInput, PipelineFault, PipelineEnds, ringVars, threadVars
<1>2. Popped' = Popped BY <1>1 DEF Popped
<1>3. \/ UNCHANGED <<ct, cur, freed>>
      \/ /\ ct \in {"check", "wait_ready", "wait_ring"}
         /\ ct' \in {"ended", "wait_ready", "wait_ring", "pop"} /\ UNCHANGED freed
      \/ ct \in {"input", "destroying"} /\ ct' = "free" /\ UNCHANGED <<cur, freed>>
      \/ ct = "free" /\ ct' = "check" /\ freed' = freed \cup {cur}
  BY DEF PutCommand, RingPost, ReadyPost, DestroyPush, DestroyJoin, CheckExit, WaitReady, WaitRing,
         PipelineDestroyed, FreeCommand, ConfigInput, StartPipeline, PipelineFault,
         PipelineEnds, threadVars
<1>4. ct' = "execute" <=> ct = "execute" BY <1>3
<1>5. Current'
  <2>1. Executing' => Executing /\ cur' = cur /\ freed' = freed BY <1>3 DEF Executing
  <2>2. Executing' => Current' BY <1>2, <2>1 DEF FifoInv, Current
  <2>3. ASSUME NEW k \in freed' PROVE k <= Popped
    <3>1. CASE k \in freed BY <3>1 DEF FifoInv, Current
    <3>2. CASE k \notin freed
      <4>1. k = cur /\ ct = "free" BY <1>3, <3>2
      <4>2. cur = Popped /\ cur \in Nat
        BY <4>1 DEF FifoInv, Current, Executing, CounterInv, AtHand, Ids
      <4> QED BY <4>1, <4>2
    <3> QED BY <3>1, <3>2
  <2>4. ~Executing' => Current' BY <1>2, <2>3 DEF Current
  <2> QED BY <2>2, <2>4
<1>6. Slots' BY <1>1 DEF FifoInv, Slots
<1>7. ExecutedInOrder' BY <1>1 DEF FifoInv, ExecutedInOrder
<1> QED BY <1>1, <1>2, <1>4, <1>5, <1>6, <1>7 DEF FifoInv

\* The order of the commands holds in every state the server reaches.
THEOREM FifoInvariance == ASSUME MaxCommands <= QueueSize PROVE Spec => []FifoInv
<1>1. Init => FifoInv
  <2>1. ASSUME Init PROVE FifoInv
    <3>1. /\ Len(kind) = 0 /\ Len(executed) = 0 /\ used = QueueSize /\ start = 0 /\ freed = {}
          /\ ct = "check" /\ executed = << >>
      BY <2>1 DEF Init
    <3>2. QueueSize \in Nat /\ QueueSize # 0 BY CommandServerAssumption
    <3>3. Popped = 0 BY <3>1, <3>2 DEF Popped
    <3>4. ExecutedInOrder BY <3>1 DEF ExecutedInOrder
    <3> QED BY <3>1, <3>2, <3>3, <3>4 DEF FifoInv, Slots, Current, Executing
  <2> QED BY <2>1
<1>2. CounterInv /\ FifoInv /\ [Next]_vars => FifoInv'
  <2>1. ASSUME FifoInv, UNCHANGED vars PROVE FifoInv'
    BY <2>1 DEF FifoInv, Slots, Current, Executing, Popped, ExecutedInOrder, vars, mainVars, ringVars,
                threadVars
  <2> QED BY <2>1, FifoPush, FifoPop, FifoExecute, FifoOthers
          DEF Next, MainThread, push_new_command, command_thread
<1> QED BY <1>1, <1>2, CounterInvariance, PTL DEF Spec

\* Commands are executed in the order in which clients sent them, each once,
\* as long as no more are put than cmd_ring has slots.  The bound is exact:
\* with one more the ring overflows (NoOverflow).
THEOREM CommandsExecutedInOrder == ASSUME MaxCommands <= QueueSize PROVE Spec => []ExecutedInOrder
<1>1. FifoInv => ExecutedInOrder BY DEF FifoInv
<1> QED BY <1>1, FifoInvariance, PTL

\* executeAPICommand reads a command that was put and has not been freed:
\* what it acts on is what the client asked for (Contents is {kind[cur]}).
THEOREM CommandsAreLive == ASSUME MaxCommands <= QueueSize PROVE Spec => []CommandIsLive
<1>1. CounterInv /\ FifoInv => CommandIsLive
  <2>1. ASSUME CounterInv, FifoInv, ct = "execute" PROVE cur \in 1 .. Len(kind) /\ cur \notin freed
    <3>1. cur = Popped /\ cur \in Nat /\ cur >= 1 /\ \A k \in freed : k < cur
      BY <2>1 DEF FifoInv, Current, Executing, CounterInv, AtHand, Ids
    <3>2. PICK n : n = Len(kind) OBVIOUS
    <3>3. n \in Nat /\ QueueSize \in Nat /\ used \in Nat /\ QueueSize <= used /\ cur = QueueSize + n - used
      BY <2>1, <3>1, <3>2, CountFacts DEF Popped
    <3>4. cur <= n BY <3>1, <3>3
    <3>5. ~(cur < cur) BY <3>1
    <3> QED BY <3>1, <3>2, <3>3, <3>4, <3>5
  <2> QED BY <2>1 DEF CommandIsLive
<1> QED BY <1>1, CounterInvariance, FifoInvariance, PTL
=============================================================================
