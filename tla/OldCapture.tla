---------------------------- MODULE OldCapture ----------------------------
(***************************************************************************)
(* capture/tools/capture.c, the one-file program the library was taken     *)
(* from (oldcapture), beside the library's own program (udpcapture).  It   *)
(* drives the camera by the same datagrams, in an order of its own, and    *)
(* its data thread differs in one test: a frame begins with a greater id,  *)
(* where gvsp_thread begins one with any other id.                         *)
(* Discovery models what both do before: finding the device.               *)
(***************************************************************************)
EXTENDS GigeCamera

\* connect_to_device up to "Acquisition started".
ConnectAndStart ==
    <<Step("open")>>
    \o [i \in 1 .. 4 |-> Read(Setup)]
    \o <<Write(Control, 2), Write(Stream, 1), Write(Stream, 1), Read(Stream), Write(Control, 2)>>
    \o SubSeq(gvcp_start, 2, 19)
    \o <<Write(Stream, 1), Read(Stream), Write(Start, 1)>>

WatchdogRound == <<Read(Control), Renew, Write(Start, 1), Read(Stream), Step("sleep")>>

\* "Stop acquisition", and "Control Channel Privelege off" after the join.
StopAndRelease ==
    <<Read(Control), Renew, Read(Stop), Write(Stop, 0),
      Step("stop"), Step("sleep"), Step("join"), Write(Control, 0), Step("free")>>

connect_to_device ==
    ConnectAndStart \o <<Step("create")>> \o Repeat(WatchdogRound, Rounds) \o StopAndRelease

\* read_register, write_register, listen_packet_ack and
\* parse_gvcp_register_ack of capture.c: the steps of gvcp.c; a select that
\* times out is repeated.
RegisterAccess(s) == read_register(s) \/ write_register(s) \/ SkipRenewal(s)

\* An early return of connect_to_device; main goes on to devices_destroy.
ConnectFails(s) ==
    /\ s.do = "open"
    /\ pc' = Len(connect_to_device) + 1
    /\ UNCHANGED <<program, waiting, value, gvcpVars, priv, streaming, streamVars, live, threadVars>>

OldMain(s) ==
    \/ RegisterAccess(s)
    \/ OpenSockets(s) \/ CreateThread(s) \/ StopThread(s) \/ Proceed(s) \/ JoinThread(s)

\* Mutant: the test gvsp_thread makes.
OldReceiveAnyOther == wire # << >> /\ ReceivePacket(Head(wire), Head(wire).id # frame.id)

OldReceive == wire # << >> /\ ReceivePacket(Head(wire), Head(wire).id > frame.id)

source_data_thread_udp == ThreadTest \/ SelectTimeout \/ ReceiveError \/ OldReceive

-----------------------------------------------------------------------------
Old == program = "oldcapture"
Script == IF Old THEN connect_to_device ELSE test_capture
Running == pc \in 1 .. Len(Script)

CaptureInit == Init /\ program \in {"oldcapture", "udpcapture"}

Main ==
    /\ Running
    /\ IF Old THEN OldMain(Script[pc]) ELSE MainStep(Script[pc])

Fails ==
    /\ Running
    /\ IF Old THEN ConnectFails(Script[pc]) ELSE OpenFails(Script[pc])

DataThread == IF Old THEN source_data_thread_udp ELSE gvsp_thread

Outside == Running /\ Camera(Script[pc])

CaptureNext == Main \/ Fails \/ DataThread \/ Outside

\* A thread that can run runs, and the camera answers what reaches it.
CaptureSpec ==
    /\ CaptureInit
    /\ [][CaptureNext]_vars
    /\ WF_vars(Main) /\ WF_vars(DataThread) /\ WF_vars(Running /\ HandleRequest)

-----------------------------------------------------------------------------
Increasing(s) == \A i, j \in 1 .. Len(s) : i < j => s[i] < s[j]

OwnBlocksInOrder(f) ==
    /\ \A i \in 1 .. Len(f.blocks) : f.blocks[i][1] = f.id
    /\ Increasing([i \in 1 .. Len(f.blocks) |-> f.blocks[i][2]])

SavedIds == [i \in 1 .. Len(saved) |-> saved[i].id]

\* However many packets are lost, the frame being gathered and every frame
\* handed over hold blocks of their own frame only, in order and none twice (so
\* never more than fit the buffer), and frames are handed over in order: as
\* long as no packet overtook another, since neither thread looks at packet_id.
FramesFaithful ==
    swaps = 0 =>
        /\ OwnBlocksInOrder(frame)
        /\ \A i \in 1 .. Len(saved) : OwnBlocksInOrder(saved[i])
        /\ Increasing(Append(SavedIds, frame.id))

\* Even when packets overtake each other, oldcapture never writes a file twice
\* and never goes back to an earlier frame.
SavedForward == Old => Increasing(SavedIds)

\* The datagram the main thread will take for the answer is the answer to the
\* request it has just sent, although nothing in it is compared: there is never
\* a second request before the answer to the first.
AckMatchesRequest == waiting /\ acks # << >> => Head(acks).op = pc

\* When the program is over the camera does not stream and nobody reads what it
\* sent; oldcapture has given the control privilege back.  Lost datagrams and an
\* expired heartbeat do not change that; a request that came back undelivered
\* does, since the caller is not told.
StoppedWhenDone ==
    Ended(Script) /\ ~bounced => ~streaming /\ thread \in {"none", "ended"} /\ (Old => priv = 0)

\* The program ends, whenever the camera's heartbeat expires and whatever the
\* stream loses: unless a register datagram is lost, which it waits for for ever.
CaptureEnds == <>(Ended(Script) \/ lost > 0)
=============================================================================
