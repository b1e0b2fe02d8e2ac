---------------------------- MODULE GigeCamera ----------------------------
(***************************************************************************)
(* capture/src/gvcp.c and camera.c with tools/test_capture.c: one GigE     *)
(* camera driven from its first register to its last frame.                *)
(*                                                                         *)
(*   GVCP   the main thread reads and writes registers of the camera, one  *)
(*          datagram out, one acknowledge back.  Either may be lost or     *)
(*          take any time.  Nothing is sent twice, and an acknowledge is   *)
(*          not compared with the request it answers.                      *)
(*   GVSP   while it acquires, the camera sends each frame as a leader,    *)
(*          blocks 1 .. Blocks and a trailer.  gvsp_thread gathers the     *)
(*          blocks of a frame and hands it over when a packet with another *)
(*          frame id arrives.  Packets may be lost, and a packet may       *)
(*          overtake the one before it.                                    *)
(*                                                                         *)
(* What the main thread does is a script of steps; the functions of the    *)
(* library are pieces of it, a loop is repeated Rounds times.  OldCapture  *)
(* adds the script of tools/capture.c.  Registers are told apart as far as *)
(* they act on the camera: Setup stands for those that configure it.       *)
(***************************************************************************)
EXTENDS Integers, Sequences, FiniteSets

CONSTANTS Blocks,       \* data blocks of a frame
          MaxFrames,    \* bound: frames the camera sends
          QueueCap,     \* packets the data socket holds
          Rounds,       \* bound: rounds of the watchdog loop (10 and 15 in the code)
          MaxLost,      \* bound: datagrams lost on the way to or from the registers
          MaxSwaps      \* bound: packets that overtake another

ASSUME CameraAssumption ==
    /\ Blocks \in Nat /\ MaxFrames \in Nat /\ QueueCap \in Nat \ {0}
    /\ Rounds \in Nat /\ MaxLost \in Nat /\ MaxSwaps \in Nat

VARIABLES
    program,                    \* the program that runs
    pc, waiting, value,         \* the main thread: its step, and the last value read
    req, acks,                  \* datagrams on their way
    priv, streaming, cursor,    \* the camera: its privilege, and the packet it sends next
    wire, live, thread,         \* the data socket, cam->state and gvsp_thread
    frame, saved,               \* the frame being gathered, the frames handed over
    lost, bounced, swaps        \* so far: datagrams lost, one of them reported; overtakings

mainVars == <<program, pc, waiting, value>>
gvcpVars == <<req, acks, lost, bounced>>
streamVars == <<cursor, wire, swaps>>
threadVars == <<thread, frame, saved>>
vars == <<mainVars, gvcpVars, priv, streaming, streamVars, live, threadVars>>

-----------------------------------------------------------------------------
(* Scripts.                                                                *)
Control == "GV_CONTROL_CHANNEL_PRIVILEGE"
Stream == "GV_STREAM_CHANNEL_0"
Start == "0xF0F04030"
Stop == "0xF0F00614"
Setup == "setup"
Registers == {Control, Stream, Start, Stop, Setup}

Read(reg) == [do |-> "read", reg |-> reg, val |-> 0]
Write(reg, val) == [do |-> "write", reg |-> reg, val |-> val]
Step(do) == [do |-> do, reg |-> Setup, val |-> 0]

\* if (value != 0x02) write_register(the privilege, 0x02)
Renew == [do |-> "renew", reg |-> Control, val |-> 2]

Repeat(steps, n) ==
    [i \in 1 .. n * Len(steps) |-> steps[1 + ((i - 1) % Len(steps))]]

gvcp_init ==
    <<Read(Setup), Read(Setup), Write(Control, 2),
      Write(Stream, 1), Write(Stream, 1), Read(Stream)>>

\* Steps 2 to 19 configure the camera; which of them write is what is kept.
gvcp_start ==
    <<Write(Control, 2)>>
    \o [i \in 1 .. 18 |-> IF i \in {1, 3, 4, 9, 11, 14, 15} THEN Write(Setup, 0) ELSE Read(Setup)]
    \o <<Read(Stream), Read(Stream), Write(Start, 1)>>

\* Mutant: a watchdog that does not renew the privilege.
WatchdogWithoutRenewal == <<Read(Control), Write(Start, 1), Read(Stream)>>

gvcp_watchdog == <<Read(Control), Renew, Write(Start, 1), Read(Stream)>>

gvcp_stop == <<Write(Control, 2), Read(Stop), Write(Stop, 0)>>

gige_camera_init == <<Step("open")>> \o gvcp_init

\* Mutant: the stream is told to stop while the camera still sends.
TestStopsThreadOnly ==
    gvcp_start \o <<Step("create")>>
    \o Repeat(gvcp_watchdog \o <<Step("sleep")>>, Rounds)
    \o <<Step("stop"), Step("close"), Step("sleep"), Step("join")>>

gige_camera_test ==
    gvcp_start \o <<Step("create")>>
    \o Repeat(gvcp_watchdog \o <<Step("sleep")>>, Rounds)
    \o gvcp_stop \o <<Step("stop"), Step("close"), Step("sleep"), Step("join")>>

gige_camera_destroy == <<Step("close"), Step("free")>>

\* new_device_callback and main of test_capture.c: the device that
\* gige_camera_destroy has freed is freed again.
test_capture == gige_camera_init \o gige_camera_test \o gige_camera_destroy \o <<Step("free again")>>

-----------------------------------------------------------------------------
Init ==
    /\ pc = 1 /\ waiting = FALSE /\ value = 0
    /\ req = << >> /\ acks = << >> /\ lost = 0 /\ bounced = FALSE
    /\ priv = 0 /\ streaming = FALSE
    /\ cursor = [id |-> 1, n |-> 0] /\ wire = << >> /\ swaps = 0
    /\ live = FALSE /\ thread = "none"
    /\ frame = [started |-> FALSE, id |-> 0, blocks |-> << >>]
    /\ saved = << >>

Crashed == 0          \* a value of pc
Ended(script) == pc \in {Crashed, Len(script) + 1}

Advance ==
    /\ pc' = pc + 1
    /\ UNCHANGED <<program, waiting, value>>

-----------------------------------------------------------------------------
(* The main thread.                                                        *)

\* gvcp_read_register_packet, gvcp_write_register_packet and the write that
\* sends the packet.  op is the step that asks: the header's id is not used
\* by the receiver of the answer.
SendRequest(s) ==
    /\ ~waiting
    /\ s.do \in {"read", "write"} \/ (s.do = "renew" /\ value # 2)
    /\ req' = <<[op |-> pc, write |-> s.do # "read", reg |-> s.reg, val |-> s.val]>>
    /\ waiting' = TRUE
    /\ UNCHANGED <<program, pc, value, acks, lost, bounced, priv, streaming, streamVars, live, threadVars>>

SkipRenewal(s) ==
    /\ s.do = "renew" /\ ~waiting /\ value = 2
    /\ Advance
    /\ UNCHANGED <<gvcpVars, priv, streaming, streamVars, live, threadVars>>

\* Mutant: the unused listen_packet_ack, which gives up after half a second.
ReceiveAckOrTimeout(s) ==
    /\ waiting
    /\ acks' = IF acks = << >> THEN acks ELSE Tail(acks)
    /\ waiting' = FALSE /\ pc' = pc + 1
    /\ value' = IF acks # << >> /\ s.do = "read" THEN Head(acks).val ELSE value
    /\ UNCHANGED <<program, req, lost, bounced, priv, streaming, streamVars, live, threadVars>>

gvcp_register_ack(s, ack) == IF s.do = "read" THEN ack.val ELSE value

\* listen_packet_ack_new: the next datagram is the answer.  A refusal has no
\* data: it is shorter than what the loop waits for, which goes on waiting.
ReceiveAck(s) ==
    /\ waiting /\ acks # << >>
    /\ acks' = Tail(acks)
    /\ IF Head(acks).refused
       THEN UNCHANGED <<pc, waiting, value>>
       ELSE /\ waiting' = FALSE /\ pc' = pc + 1
            /\ value' = gvcp_register_ack(s, Head(acks))
    /\ UNCHANGED <<program, req, lost, bounced, priv, streaming, streamVars, live, threadVars>>

\* The request comes back undelivered: recvfrom reports an error, and the caller
\* goes on as if it had been answered.
ReceiveBounce(s) ==
    /\ waiting /\ req # << >> /\ lost < MaxLost
    /\ req' = << >> /\ lost' = lost + 1 /\ bounced' = TRUE
    /\ waiting' = FALSE /\ pc' = pc + 1
    /\ UNCHANGED <<program, value, acks, priv, streaming, streamVars, live, threadVars>>

\* The sockets of gige_camera_init: bound and connected, or an early return.
OpenSockets(s) ==
    /\ s.do = "open"
    /\ Advance
    /\ UNCHANGED <<gvcpVars, priv, streaming, streamVars, live, threadVars>>

\* gige_camera_init returns NULL, which gige_camera_test dereferences.
OpenFails(s) ==
    /\ s.do = "open"
    /\ pc' = Crashed
    /\ UNCHANGED <<program, waiting, value, gvcpVars, priv, streaming, streamVars, live, threadVars>>

CreateThread(s) ==
    /\ s.do = "create"
    /\ live' = TRUE /\ thread' = "loop"
    /\ Advance
    /\ UNCHANGED <<gvcpVars, priv, streaming, streamVars, frame, saved>>

StopThread(s) ==
    /\ s.do = "stop"
    /\ live' = FALSE
    /\ Advance
    /\ UNCHANGED <<gvcpVars, priv, streaming, streamVars, threadVars>>

\* sleep, close and the first free of the device.
Proceed(s) ==
    /\ s.do \in {"sleep", "close", "free"}
    /\ Advance
    /\ UNCHANGED <<gvcpVars, priv, streaming, streamVars, live, threadVars>>

JoinThread(s) ==
    /\ s.do = "join" /\ thread = "ended"
    /\ Advance
    /\ UNCHANGED <<gvcpVars, priv, streaming, streamVars, live, threadVars>>

\* The second free: the allocator notices and aborts, or it does not.
FreeAgain(s) ==
    /\ s.do = "free again"
    /\ pc' \in {Crashed, pc + 1}
    /\ UNCHANGED <<program, waiting, value, gvcpVars, priv, streaming, streamVars, live, threadVars>>

read_register(s) == s.do = "read" /\ (SendRequest(s) \/ ReceiveAck(s) \/ ReceiveBounce(s))
write_register(s) ==
    s.do \in {"write", "renew"} /\ (SendRequest(s) \/ ReceiveAck(s) \/ ReceiveBounce(s))

MainStep(s) ==
    \/ read_register(s) \/ write_register(s) \/ SkipRenewal(s)
    \/ OpenSockets(s) \/ CreateThread(s) \/ StopThread(s) \/ Proceed(s)
    \/ JoinThread(s) \/ FreeAgain(s)

-----------------------------------------------------------------------------
(* The network and the camera.                                             *)
LoseDatagram ==
    /\ lost < MaxLost /\ lost' = lost + 1
    /\ \/ req # << >> /\ req' = << >> /\ acks' = acks
       \/ acks # << >> /\ acks' = Tail(acks) /\ req' = req
    /\ UNCHANGED <<mainVars, bounced, priv, streaming, streamVars, live, threadVars>>

\* A write is refused unless it is, or follows, the taking of the privilege.
HandleRequest ==
    /\ req # << >>
    /\ LET r == req[1]
           refused == r.write /\ r.reg # Control /\ priv # 2
           accepted == r.write /\ ~refused
       IN /\ acks' = Append(acks, [op |-> r.op, refused |-> refused,
                                   val |-> IF r.reg = Control THEN priv ELSE 0])
          /\ priv' = IF accepted /\ r.reg = Control THEN r.val ELSE priv
          /\ streaming' = IF accepted /\ r.reg = Start THEN TRUE
                          ELSE IF accepted /\ r.reg = Stop THEN FALSE
                          ELSE streaming
    /\ req' = << >>
    /\ UNCHANGED <<mainVars, lost, bounced, streamVars, live, threadVars>>

\* No command for as long as the camera's heartbeat: it ends the control
\* session and the stream.  Only a sleeping program is silent.
HeartbeatExpires(s) ==
    /\ s.do = "sleep" /\ priv = 2
    /\ priv' = 0 /\ streaming' = FALSE
    /\ cursor' = IF cursor.n = 0 THEN cursor ELSE [id |-> cursor.id + 1, n |-> 0]
    /\ UNCHANGED <<mainVars, gvcpVars, wire, swaps, live, threadVars>>

NextPacket == IF cursor.n <= Blocks THEN [cursor EXCEPT !.n = @ + 1]
                                    ELSE [id |-> cursor.id + 1, n |-> 0]

\* The camera sends a packet: it arrives, overtakes the one before it, or is
\* lost, as it is when the socket's buffer is full.
CameraSends ==
    /\ streaming /\ cursor.id <= MaxFrames
    /\ cursor' = NextPacket
    /\ \/ UNCHANGED <<wire, swaps>>
       \/ Len(wire) < QueueCap /\ wire' = Append(wire, cursor) /\ swaps' = swaps
       \/ /\ Len(wire) \in 1 .. QueueCap - 1 /\ swaps < MaxSwaps
          /\ wire' = SubSeq(wire, 1, Len(wire) - 1) \o <<cursor, wire[Len(wire)]>>
          /\ swaps' = swaps + 1
    /\ UNCHANGED <<mainVars, gvcpVars, priv, streaming, live, threadVars>>

Camera(s) == LoseDatagram \/ HandleRequest \/ HeartbeatExpires(s) \/ CameraSends

-----------------------------------------------------------------------------
(* gvsp_thread                                                             *)
ThreadTest ==
    /\ thread = "loop"
    /\ thread' = IF live THEN "select" ELSE "ended"
    /\ UNCHANGED <<mainVars, gvcpVars, priv, streaming, streamVars, live, frame, saved>>

\* select times out after half a second.
SelectTimeout ==
    /\ thread = "select" /\ wire = << >>
    /\ thread' = "loop"
    /\ UNCHANGED <<mainVars, gvcpVars, priv, streaming, streamVars, live, frame, saved>>

\* recvfrom fails: the thread returns.
ReceiveError ==
    /\ thread = "select" /\ wire # << >>
    /\ thread' = "ended"
    /\ UNCHANGED <<mainVars, gvcpVars, priv, streaming, streamVars, live, frame, saved>>

IsBlock(p) == p.n \in 1 .. Blocks

\* The packet is added to the frame: only a data block has data to add.
Gather(blocks, p) == IF IsBlock(p) THEN Append(blocks, <<p.id, p.n>>) ELSE blocks

\* new_frame_action: the frame gathered so far becomes a file.
HandOver(f) == saved' = IF f.started THEN Append(saved, [id |-> f.id, blocks |-> f.blocks])
                                     ELSE saved

\* Mutant: real_size is not set back for a new frame.
WithoutReset(p, new) ==
    /\ thread = "select" /\ thread' = "loop"
    /\ wire' = Tail(wire)
    /\ IF new
       THEN /\ HandOver(frame)
            /\ frame' = [started |-> TRUE, id |-> p.id, blocks |-> Gather(frame.blocks, p)]
       ELSE /\ saved' = saved
            /\ frame' = IF frame.started THEN [frame EXCEPT !.blocks = Gather(@, p)] ELSE frame
    /\ UNCHANGED <<mainVars, gvcpVars, priv, streaming, cursor, swaps, live>>

\* One packet: a new frame begins, or the packet goes to the frame at hand
\* whatever its id.  packet_id is not looked at: n_packets stays 0, so the
\* test for a duplicate and the tracking of missing packets do nothing.
ReceivePacket(p, new) ==
    /\ thread = "select" /\ thread' = "loop"
    /\ wire' = Tail(wire)
    /\ IF new
       THEN /\ HandOver(frame)
            /\ frame' = [started |-> TRUE, id |-> p.id, blocks |-> Gather(<< >>, p)]
       ELSE /\ saved' = saved
            /\ frame' = IF frame.started THEN [frame EXCEPT !.blocks = Gather(@, p)] ELSE frame
    /\ UNCHANGED <<mainVars, gvcpVars, priv, streaming, cursor, swaps, live>>

GvspReceive == wire # << >> /\ ReceivePacket(Head(wire), Head(wire).id # frame.id)

gvsp_thread == ThreadTest \/ SelectTimeout \/ ReceiveError \/ GvspReceive
=============================================================================
