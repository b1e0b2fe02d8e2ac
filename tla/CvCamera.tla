------------------------------ MODULE CvCamera ------------------------------
(***************************************************************************)
(* The test camera of cvcamera: cvserver (cvgenerator.cpp) sends every     *)
(* client the same images over TCP, each behind a header with its size and *)
(* number; cvclient (cvcollector.cpp) puts them together again and         *)
(* announces an object when enough frames with one are followed by enough  *)
(* frames without.                                                         *)
(*                                                                         *)
(* A connection carries bytes; byte k of image i is the pair <<i, k>>, the *)
(* first of the header standing for the size, the others for the number.   *)
(* The image before the first one, which next_image returns first, lies in *)
(* front of the buffer: its bytes are anything.                            *)
(***************************************************************************)
EXTENDS Integers, Sequences, FiniteSets, SequencesExt

CONSTANTS Clients,          \* cvclient processes
          H, R,             \* IMAGE_HEADER_SIZE, IMAGE_RAW_SIZE
          DATA_CNT,         \* images
          SizesBefore,      \* what the size in front of the first may be
          ObjMin, EmptyMin, \* 16 and 8 frames make an object and its end
          SocketCap,        \* bytes under way in a connection
          MaxImages,        \* bound: images taken in all
          MaxFaults         \* bound: failing calls and resets

ASSUME CvCameraAssumption ==
    /\ H \in Nat \ {0, 1} /\ R \in Nat \ {0} /\ DATA_CNT \in Nat \ {0, 1}
    /\ SizesBefore \subseteq Nat /\ SocketCap \in Nat \ {0} /\ MaxImages \in Nat /\ 0 \notin Clients

DATA_SIZE == H + R
None == 0

\* What test_data_create puts into the buffer for image i.
Chunk(i) == [k \in 1 .. DATA_SIZE |-> <<i, k>>]

VARIABLES
    serving,                        \* cvserver runs
    curr, fd,                       \* struct data_generator
    conn,                           \* the client behind a descriptor of cvserver
    gen,                            \* the thread started for a client
    stream, ended,                  \* a connection: bytes under way, its state
    col,                            \* a client's collect_data_thread
    exit_flag, data_ready, main,    \* struct data_collector, and cvclient's main
    sent, delivered, clean,         \* history: images begun on a connection, frames
                                    \* delivered, and whether no header was cut, nothing
                                    \* came from before the buffer, no writes mixed and
                                    \* no image went on from another connection
    images, faults                  \* images taken and failures so far

serverVars == <<serving, curr, fd, conn>>
clientVars == <<col, exit_flag, data_ready, main>>
history == <<sent, delivered, clean, images, faults>>
vars == <<serverVars, gen, stream, ended, clientVars, history>>

\* collect_data_thread's local variables; rest is remaining_len, and
\* recieved_len is the length of buf.
Collecting == [pc |-> "run", header_ok |-> FALSE, buf |-> << >>, rest |-> H, reads |-> 0,
               frame_id |-> -1, obj |-> 0, empty |-> 0, non |-> 0]

\* test_data_create has filled the buffer, and cvserver listens.
Init ==
    /\ serving = TRUE /\ curr = -1 /\ fd = 0
    /\ conn = [f \in 1 .. Cardinality(Clients) |-> None]
    /\ gen = [c \in Clients |-> [pc |-> "none", fd |-> 0, image |-> -1, pos |-> 0, size |-> 0]]
    /\ stream = [c \in Clients |-> << >>] /\ ended = [c \in Clients |-> "no"]
    /\ col = [c \in Clients |-> [Collecting EXCEPT !.pc = "none"]]
    /\ exit_flag = [c \in Clients |-> FALSE] /\ data_ready = [c \in Clients |-> 0]
    /\ main = [c \in Clients |-> "init"]
    /\ sent = [c \in Clients |-> << >>] /\ delivered = sent
    /\ clean = [c \in Clients |-> TRUE] /\ images = 0 /\ faults = 0

Fault == faults < MaxFaults /\ faults' = faults + 1

-----------------------------------------------------------------------------
(* cvserver: generator_init.                                               *)

\* A connection waits to be accepted from connect on.
Waiting(c) == col[c].pc = "run" /\ ended[c] = "no" /\ gen[c].pc = "none"
              /\ \A f \in DOMAIN conn : conn[f] # c

\* The thread is in the middle of an image.
Writing(c) == gen[c].pc = "write" /\ gen[c].pos > 0 /\ gen[c].pos < gen[c].size

\* accept takes the lowest free descriptor, which a thread may still write to:
\* the rest of an image then comes first (clean).  The thread reads it from the
\* structure when it starts; if getnameinfo fails nobody serves the client.
Accept(c) ==
    /\ serving /\ Waiting(c)
    /\ \E f \in DOMAIN conn :
        /\ conn[f] = None /\ \A g \in 1 .. f - 1 : conn[g] # None
        /\ conn' = [conn EXCEPT ![f] = c]
        /\ \/ fd' = f /\ gen' = [gen EXCEPT ![c].pc = "created"] /\ UNCHANGED faults
           \/ Fault /\ UNCHANGED <<fd, gen>>
        /\ clean' = [clean EXCEPT ![c] = @ /\ \A o \in Clients : gen[o].fd = f => ~Writing(o)]
    /\ UNCHANGED <<serving, curr, stream, ended, clientVars, sent, delivered, images>>

\* The process ends: its threads are gone and every connection is closed.
Exit ==
    /\ serving' = FALSE
    /\ gen' = [c \in Clients |-> [gen[c] EXCEPT !.pc = "ended"]]
    /\ conn' = [f \in DOMAIN conn |-> None]
    /\ ended' = [c \in Clients |-> IF col[c].pc = "run" /\ ended[c] = "no" THEN "eof" ELSE ended[c]]

\* accept or select fails for good.
GeneratorFails ==
    /\ serving /\ Exit /\ Fault
    /\ UNCHANGED <<curr, fd, stream, clientVars, sent, delivered, clean, images>>

-----------------------------------------------------------------------------
(* generate_data_thread, one for every accepted client.                    *)

Goto(c, pc) == gen' = [gen EXCEPT ![c].pc = pc]

ThreadStart(c) ==
    /\ gen[c].pc = "created"
    /\ gen' = [gen EXCEPT ![c].pc = "write", ![c].fd = fd]
    /\ UNCHANGED <<serverVars, stream, ended, clientVars, history>>

\* The chunk before is written; after a sixteenth of a second next_image
\* reads curr, which all threads read and write without a lock.
LoadCurr(c) ==
    /\ gen[c].pc = "write" /\ gen[c].pos = gen[c].size /\ images < MaxImages
    /\ gen' = [gen EXCEPT ![c].pc = "store", ![c].image = curr]
    /\ images' = images + 1
    /\ UNCHANGED <<serverVars, stream, ended, clientVars, sent, delivered, clean, faults>>

StoreCurr(c) == gen[c].pc = "store" /\ curr' = gen[c].image + 1

\* The chunk's size is in its header.
next_image(c) ==
    /\ StoreCurr(c) /\ gen[c].image >= 0
    /\ gen' = [gen EXCEPT ![c].pc = "write", ![c].size = DATA_SIZE, ![c].pos = 0,
                          ![c].image = @ % DATA_CNT]
    /\ UNCHANGED <<serving, fd, conn, stream, ended, clientVars, history>>

\* In front of the buffer there may be any size, one that makes write fail,
\* or no memory at all.
ImageBefore(c) ==
    /\ StoreCurr(c) /\ gen[c].image < 0
    /\ \/ /\ \E size \in SizesBefore :
                gen' = [gen EXCEPT ![c].pc = "write", ![c].size = size, ![c].pos = 0]
          /\ UNCHANGED <<serving, conn, ended>>
       \/ Goto(c, "close") /\ UNCHANGED <<serving, conn, ended>>
       \/ Exit
    /\ UNCHANGED <<fd, stream, clientVars, history>>

\* The connection a thread writes to: another client's when fd was assigned
\* again before it started, or when its descriptor was closed and reused.
Target(c) == conn[gen[c].fd]
Broken(c) == IF Target(c) = None THEN TRUE ELSE ended[Target(c)] # "no"

WriteByte(c) ==
    /\ gen[c].pc = "write" /\ gen[c].pos < gen[c].size /\ ~Broken(c)
    /\ LET t == Target(c) IN
        /\ Len(stream[t]) < SocketCap
        /\ stream' = [stream EXCEPT ![t] = Append(@, <<gen[c].image, gen[c].pos + 1>>)]
        /\ sent' = IF gen[c].pos > 0 THEN sent ELSE [sent EXCEPT ![t] = Append(@, gen[c].image)]
        /\ clean' = [clean EXCEPT ![t] =
                        /\ @ /\ gen[c].image >= 0
                        /\ \A o \in Clients \ {c} : Writing(o) => Target(o) # t]
    /\ gen' = [gen EXCEPT ![c].pos = @ + 1]
    /\ UNCHANGED <<serverVars, ended, clientVars, delivered, images, faults>>

\* write fails or returns early.
WriteFails(c) ==
    /\ gen[c].pc = "write" /\ gen[c].pos < gen[c].size
    /\ Broken(c)
    /\ Goto(c, "close")
    /\ UNCHANGED <<serverVars, stream, ended, clientVars, history>>

\* The descriptor may be another connection's by now.
CloseFd(c) ==
    /\ gen[c].pc = "close"
    /\ Goto(c, "ended")
    /\ conn' = [conn EXCEPT ![gen[c].fd] = None]
    /\ ended' = IF Broken(c) THEN ended ELSE [ended EXCEPT ![Target(c)] = "eof"]
    /\ UNCHANGED <<serving, curr, fd, stream, clientVars, history>>

generate_data_thread(c) ==
    \/ ThreadStart(c) \/ LoadCurr(c) \/ next_image(c) \/ ImageBefore(c)
    \/ WriteByte(c) \/ WriteFails(c) \/ CloseFd(c)

-----------------------------------------------------------------------------
(* cvclient: collector_init, collect_data_thread, main, collector_destroy. *)

\* Without a connection cvclient asks the user to try again, and ends.
collector_init(c) ==
    /\ main[c] = "init"
    /\ \/ /\ serving
          /\ main' = [main EXCEPT ![c] = "test"]
          /\ col' = [col EXCEPT ![c] = Collecting]
       \/ main' = [main EXCEPT ![c] = "done"] /\ UNCHANGED col
    /\ UNCHANGED <<serverVars, gen, stream, ended, exit_flag, data_ready, history>>

\* Mutant: the header's own bytes are counted as still to come.
StartBodyWhole(k, bytes) ==
    [k EXCEPT !.header_ok = TRUE, !.buf = << >>, !.rest = DATA_SIZE, !.frame_id = k.buf[H][1]]

\* The header is complete: what is left to read is the size it names less
\* the bytes of the last read.
StartBody(k, bytes) ==
    IF k.buf[1][1] >= 0 /\ k.buf[1][2] = 1
    THEN [k EXCEPT !.header_ok = TRUE, !.buf = << >>, !.rest = DATA_SIZE - bytes,
                   !.frame_id = IF k.buf[H][2] = H THEN k.buf[H][1] ELSE -1]
    ELSE [k EXCEPT !.pc = "wild"]

\* Too few bytes so far: go on behind them.
More(k, bytes) == [k EXCEPT !.rest = @ - bytes]

\* More than the image has room for: neither comparison holds any more, and
\* the thread writes behind the image.
Overrun(k) == [k EXCEPT !.pc = "wild"]

\* What the frame in buf is: the image of the header if the bytes are its.
FrameOf(k) ==
    IF k.buf = SubSeq(Chunk(k.frame_id), H + 1, DATA_SIZE) THEN k.frame_id ELSE -1

\* The detection of objects, by the radius findRadius sees in the frame; the
\* flag new_object is 0 whenever it is tested.
Detect(k, radius) ==
    CASE radius = "empty" ->
            IF k.obj >= ObjMin /\ k.empty + 1 >= EmptyMin
            THEN [k EXCEPT !.obj = 0, !.non = 0, !.empty = 0]
            ELSE [k EXCEPT !.empty = @ + 1]
      [] radius = "object" -> [k EXCEPT !.obj = @ + 1 + k.empty + k.non, !.empty = 0, !.non = 0]
      [] radius = "between" -> [k EXCEPT !.non = @ + 1]

Announces(k, radius) == radius = "empty" /\ k.obj >= ObjMin /\ k.empty + 1 >= EmptyMin

NextHeader(k) == [k EXCEPT !.rest = H, !.buf = << >>, !.header_ok = FALSE, !.reads = 0]

Running(c) == col[c].pc = "run"

\* A read returns what has arrived, up to rest.
Bytes(c) == Min({col[c].rest, Len(stream[c])})
Received(c) ==
    [col[c] EXCEPT !.buf = @ \o SubSeq(stream[c], 1, Bytes(c)), !.reads = @ + 1]
Readable(c) == Running(c) /\ ended[c] # "reset" /\ stream[c] # << >>
Consume(c) == stream' = [stream EXCEPT ![c] = SubSeq(@, Bytes(c) + 1, Len(@))]

ReadHeader(c) ==
    /\ Readable(c) /\ ~col[c].header_ok
    /\ LET k == Received(c) IN
        /\ col' = [col EXCEPT ![c] = IF Len(k.buf) < H THEN More(k, Bytes(c))
                                     ELSE StartBody(k, Bytes(c))]
        /\ clean' = [clean EXCEPT ![c] = @ /\ (Len(k.buf) = H => k.reads = 1)]
    /\ Consume(c)
    /\ UNCHANGED <<serverVars, gen, ended, exit_flag, data_ready, main, sent, delivered, images, faults>>

ReadBody(c) ==
    /\ Readable(c) /\ col[c].header_ok /\ Len(Received(c).buf) # R
    /\ LET k == Received(c) IN
        col' = [col EXCEPT ![c] = IF Len(k.buf) < R THEN More(k, Bytes(c)) ELSE Overrun(k)]
    /\ Consume(c)
    /\ UNCHANGED <<serverVars, gen, ended, exit_flag, data_ready, main, history>>

ReadFrame(c) ==
    /\ Readable(c) /\ col[c].header_ok /\ Len(Received(c).buf) = R
    /\ \E radius \in {"empty", "object", "between"} :
        /\ col' = [col EXCEPT ![c] = NextHeader(Detect(Received(c), radius))]
        /\ data_ready' = [data_ready EXCEPT ![c] =
                            IF Announces(col[c], radius) THEN @ + 1 ELSE @]
    /\ delivered' = [delivered EXCEPT ![c] = Append(@, FrameOf(Received(c)))]
    /\ Consume(c)
    /\ UNCHANGED <<serverVars, gen, ended, exit_flag, main, sent, clean, images, faults>>

\* At the end of the stream read returns 0 for ever: sleep and try again.
ReadNothing(c) ==
    /\ Running(c) /\ ended[c] = "eof" /\ stream[c] = << >>
    /\ UNCHANGED vars

\* A failed read stops the thread, without a post of data_ready.
ReadError(c) ==
    /\ Running(c) /\ ended[c] = "reset"
    /\ exit_flag' = [exit_flag EXCEPT ![c] = TRUE]
    /\ col' = [col EXCEPT ![c].pc = "stopped"]
    /\ UNCHANGED <<serverVars, gen, stream, ended, data_ready, main, history>>

collect_data_thread(c) ==
    ReadHeader(c) \/ ReadBody(c) \/ ReadFrame(c) \/ ReadNothing(c) \/ ReadError(c)

\* main tests the flag, then waits for an object.
MainTest(c) ==
    /\ main[c] = "test"
    /\ main' = [main EXCEPT ![c] = IF exit_flag[c] THEN "join" ELSE "wait"]
    /\ UNCHANGED <<serverVars, gen, stream, ended, col, exit_flag, data_ready, history>>

MainWait(c) ==
    /\ main[c] = "wait" /\ data_ready[c] > 0
    /\ main' = [main EXCEPT ![c] = "test"]
    /\ data_ready' = [data_ready EXCEPT ![c] = @ - 1]
    /\ UNCHANGED <<serverVars, gen, stream, ended, col, exit_flag, history>>

\* collect_data_thread has its own copy of the flag: the join waits for its end.
collector_destroy(c) ==
    /\ main[c] = "join" /\ col[c].pc = "stopped"
    /\ main' = [main EXCEPT ![c] = "done"]
    /\ UNCHANGED <<serverVars, gen, stream, ended, col, exit_flag, data_ready, history>>

\* The network resets a connection; what was under way is lost.
Reset(c) ==
    /\ Running(c) /\ ended[c] # "reset"
    /\ ended' = [ended EXCEPT ![c] = "reset"]
    /\ stream' = [stream EXCEPT ![c] = << >>]
    /\ Fault
    /\ UNCHANGED <<serverVars, gen, clientVars, sent, delivered, clean, images>>

cvclient(c) == collector_init(c) \/ collect_data_thread(c) \/ MainTest(c) \/ MainWait(c)
               \/ collector_destroy(c)

Next ==
    \/ GeneratorFails
    \/ \E c \in Clients : Accept(c) \/ generate_data_thread(c) \/ cvclient(c) \/ Reset(c)

Spec == Init /\ [][Next]_vars

-----------------------------------------------------------------------------
\* However the bytes of a connection are cut into reads, as long as every
\* header comes in one read, nothing from before the buffer is sent, no two
\* threads write into one connection at a time and the descriptor was not that
\* of an image half written, the frames the collector delivers are the images
\* sent, whole and in order, and it never writes behind its image
\* (cvcollector.cpp, collect_data_thread).
FramesAligned ==
    \A c \in Clients :
        clean[c] => col[c].pc # "wild" /\ IsPrefix(delivered[c], sent[c])
=============================================================================
