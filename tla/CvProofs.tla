------------------------------ MODULE CvProofs ------------------------------
(***************************************************************************)
(* FramesAligned of CvCamera, for any number of clients and images, any    *)
(* sizes of header and image and any limit of the sockets.                 *)
(*                                                                         *)
(* The bytes of a connection are counted from its first one: image k of    *)
(* those sent takes the places Off(k - 1) + 1 .. Off(k).  Consumed says    *)
(* how far the collector has read, so that each byte on its way has one    *)
(* place (InTransit), and how much has been written is told by the thread  *)
(* in the middle of an image, if there is one (Written).  A read moves the *)
(* border between what is consumed and what is on its way, a byte written  *)
(* goes to the next place.                                                 *)
(***************************************************************************)
EXTENDS CvCamera, SequenceTheorems, TLAPS

Byte == Int \X Int
Fds == 1 .. Cardinality(Clients)

GenType ==
    [pc : {"none", "created", "write", "store", "close", "ended"},
     fd : Int, image : Int, pos : Nat, size : Nat]
ColType ==
    [pc : {"none", "run", "stopped", "wild"}, header_ok : BOOLEAN, buf : Seq(Byte),
     rest : Int, reads : Nat, frame_id : Int, obj : Int, empty : Int, non : Int]

TypeInv ==
    /\ curr \in Int /\ conn \in [Fds -> Clients \cup {None}]
    /\ gen \in [Clients -> GenType]
    /\ stream \in [Clients -> Seq(Byte)] /\ ended \in [Clients -> {"no", "eof", "reset"}]
    /\ col \in [Clients -> ColType]
    /\ sent \in [Clients -> Seq(Int)] /\ delivered \in [Clients -> Seq(Int)]
    /\ clean \in [Clients -> BOOLEAN]
    /\ main \in [Clients -> {"init", "test", "wait", "join", "done"}]

\* A thread has the descriptor of a connection from its start on; the chunk it
\* writes is as long as it should be, unless it comes from before the buffer.
ThreadInv(c) ==
    /\ gen[c].pc = "created" => fd \in Fds
    /\ gen[c].pc \in {"write", "store", "close"} => gen[c].fd \in Fds
    /\ gen[c].pc \in {"none", "created"} => gen[c].pos = 0 /\ gen[c].size = 0 /\ gen[c].image < 0
    /\ gen[c].pc = "write" /\ gen[c].image >= 0 => gen[c].size = DATA_SIZE

\* The collector reads while something is missing, and never more than that.
CollectorInv(c) ==
    /\ main[c] = "init" => col[c].pc = "none"
    /\ col[c].pc = "none" => col[c] = [Collecting EXCEPT !.pc = "none"]
    /\ col[c].pc = "stopped" => ended[c] = "reset"
    /\ col[c].pc = "run" /\ ~col[c].header_ok =>
          Len(col[c].buf) < H /\ col[c].rest = H - Len(col[c].buf)
    /\ col[c].pc = "run" /\ col[c].header_ok =>
          Len(col[c].buf) < R /\ col[c].rest >= R - Len(col[c].buf)

\* A connection is that of a client which has connected.
Connected == \A f \in Fds : conn[f] # None => col[conn[f]].pc # "none"

Control == TypeInv /\ Connected /\ \A c \in Clients : ThreadInv(c) /\ CollectorInv(c)

-----------------------------------------------------------------------------
\* The bytes of k images.
Off(k) == k * DATA_SIZE

\* How far the collector is in the image it puts together, and in all.
Gathered(k) == (IF k.header_ok THEN H ELSE 0) + Len(k.buf)
Consumed(c) == Off(Len(delivered[c])) + Gathered(col[c])

\* What has been gathered is the image whose turn it is.
Assembly(c) ==
    LET next == sent[c][Len(delivered[c]) + 1]
        k == col[c]
    IN /\ \A j \in 1 .. Len(k.buf) : k.buf[j] = <<next, (IF k.header_ok THEN H ELSE 0) + j>>
       /\ k.header_ok => k.frame_id = next /\ k.rest = R - Len(k.buf)
       /\ ~k.header_ok /\ k.reads = 0 => k.buf = << >>

\* Every byte on its way is the one that belongs to its place.
InTransit(c) ==
    /\ Consumed(c) + Len(stream[c]) <= Off(Len(sent[c]))
    /\ \A k \in 1 .. Len(sent[c]), d \in 1 .. DATA_SIZE :
          LET j == Off(k - 1) + d - Consumed(c)
          IN j \in 1 .. Len(stream[c]) => stream[c][j] = <<sent[c][k], d>>

Writes(o, c) == Writing(o) /\ Target(o) = c

\* Whole images have been written, or one thread is in the middle of the last.
Written(c) ==
    LET written == Consumed(c) + Len(stream[c])
        n == Len(sent[c])
    IN /\ (\A o \in Clients : ~Writes(o, c)) => written = Off(n)
       /\ \A o \in Clients : Writes(o, c) =>
             /\ \A p \in Clients : Writes(p, c) => p = o
             /\ n > 0 /\ gen[o].image = sent[c][n] /\ gen[o].image >= 0
             /\ written = Off(n - 1) + gen[o].pos

DeliveredInOrder(c) ==
    /\ Len(delivered[c]) <= Len(sent[c])
    /\ \A i \in 1 .. Len(delivered[c]) : delivered[c][i] = sent[c][i]

Aligned(c) ==
    /\ col[c].pc # "wild"
    /\ DeliveredInOrder(c)
    /\ ended[c] # "reset" =>
          (\A i \in 1 .. Len(sent[c]) : sent[c][i] >= 0) /\ Assembly(c) /\ InTransit(c)
    /\ ended[c] = "no" => Written(c)

CvInv == Control /\ \A c \in Clients : clean[c] => Aligned(c)

-----------------------------------------------------------------------------
\* A header and an image have at least a byte.
LEMMA Sizes ==
    /\ H \in Nat /\ R \in Nat /\ DATA_SIZE \in Nat /\ DATA_CNT \in Nat
    /\ H >= 2 /\ R >= 1 /\ DATA_SIZE = H + R /\ DATA_CNT >= 2
    /\ None \notin Clients /\ SizesBefore \subseteq Nat
BY CvCameraAssumption DEF DATA_SIZE, None

\* Images lie one behind the other.
LEMMA OffFacts ==
    /\ Off(0) = 0
    /\ \A k \in Nat : Off(k) \in Nat /\ Off(k + 1) = Off(k) + DATA_SIZE
    /\ \A j, k \in Nat : j < k => Off(j) + DATA_SIZE <= Off(k)
<1>0. PICK d \in Nat : d = DATA_SIZE /\ d > 0 BY Sizes
<1>1. Off(0) = 0 BY <1>0 DEF Off
<1>2. ASSUME NEW k \in Nat PROVE Off(k) \in Nat /\ Off(k + 1) = Off(k) + DATA_SIZE
  BY <1>0 DEF Off
<1>3. ASSUME NEW j \in Nat, NEW k \in Nat, j < k PROVE Off(j) + DATA_SIZE <= Off(k)
  <2>1. PICK e \in Nat : k = j + 1 + e
    <3>1. k - j - 1 \in Nat /\ k = j + 1 + (k - j - 1) BY <1>3
    <3> QED BY <3>1
  <2>2. e * d >= 0 BY <1>0
  <2>3. k * d = j * d + d + e * d BY <2>1, <1>0
  <2> QED BY <1>0, <2>2, <2>3 DEF Off
<1> QED BY <1>1, <1>2, <1>3

-----------------------------------------------------------------------------
\* The invariant holds when cvserver listens and no client has connected.
LEMMA ControlInit == Init => Control
<1> SUFFICES ASSUME Init PROVE Control OBVIOUS
<1>1. TypeInv
  <2>1. [pc |-> "none", fd |-> 0, image |-> -1, pos |-> 0, size |-> 0] \in GenType BY DEF GenType
  <2>3. << >> \in Seq(Byte) /\ << >> \in Seq(Int) OBVIOUS
  <2>2. [Collecting EXCEPT !.pc = "none"] \in ColType
    <3>1. H \in Int BY Sizes
    <3>2. Collecting \in ColType BY <2>3, <3>1 DEF ColType, Collecting
    <3> QED BY <3>2 DEF ColType
  <2>4. conn \in [Fds -> Clients \cup {None}] BY DEF Init, Fds
  <2> QED BY <2>1, <2>2, <2>3, <2>4 DEF Init, TypeInv
<1>2. Connected BY DEF Init, Connected, Fds
<1>3. ASSUME NEW c \in Clients PROVE ThreadInv(c) /\ CollectorInv(c)
  <2>1. gen[c] = [pc |-> "none", fd |-> 0, image |-> -1, pos |-> 0, size |-> 0] BY DEF Init
  <2>2. col[c] = [Collecting EXCEPT !.pc = "none"] /\ col[c].pc = "none" BY DEF Init, Collecting
  <2> QED BY <2>1, <2>2 DEF Init, ThreadInv, CollectorInv
<1> QED BY <1>1, <1>2, <1>3 DEF Control

\* One step of a thread, a client or the network.
ServerStep(c) == Accept(c) \/ generate_data_thread(c)
ReadStep(c) == ReadHeader(c) \/ ReadBody(c) \/ ReadFrame(c)
ClientStep(c) ==
    collector_init(c) \/ ReadNothing(c) \/ ReadError(c) \/ MainTest(c) \/ MainWait(c)
    \/ collector_destroy(c) \/ Reset(c)

\* What a thread changes of its own variables.
LEMMA ThreadRecord ==
    ASSUME NEW g \in GenType
    PROVE  /\ \A x \in {"created", "write", "store", "close", "ended"} : [g EXCEPT !.pc = x] \in GenType
           /\ \A f \in Int : [g EXCEPT !.pc = "write", !.fd = f] \in GenType
           /\ \A i \in Int : [g EXCEPT !.pc = "store", !.image = i] \in GenType
           /\ \A s \in Nat : [g EXCEPT !.pc = "write", !.size = s, !.pos = 0] \in GenType
           /\ \A s \in Nat, i \in Int :
                 [g EXCEPT !.pc = "write", !.size = s, !.pos = 0, !.image = i] \in GenType
           /\ \A p \in Nat : [g EXCEPT !.pos = p] \in GenType
<1>1. \A x \in {"created", "write", "store", "close", "ended"} : [g EXCEPT !.pc = x] \in GenType
  BY DEF GenType
<1>2. \A f \in Int : [g EXCEPT !.pc = "write", !.fd = f] \in GenType BY DEF GenType
<1>3. \A i \in Int : [g EXCEPT !.pc = "store", !.image = i] \in GenType BY DEF GenType
<1>4. \A s \in Nat : [g EXCEPT !.pc = "write", !.size = s, !.pos = 0] \in GenType BY DEF GenType
<1>5. \A s \in Nat, i \in Int :
         [g EXCEPT !.pc = "write", !.size = s, !.pos = 0, !.image = i] \in GenType
  BY DEF GenType
<1>6. \A p \in Nat : [g EXCEPT !.pos = p] \in GenType BY DEF GenType
<1> QED BY <1>1, <1>2, <1>3, <1>4, <1>5, <1>6

\* The variables of a thread, one by one.
LEMMA ThreadFields ==
    ASSUME TypeInv, NEW c \in Clients
    PROVE  /\ gen[c] \in GenType /\ gen[c].fd \in Int /\ gen[c].image \in Int
           /\ gen[c].pos \in Nat /\ gen[c].size \in Nat
           /\ gen[c].pc \in {"none", "created", "write", "store", "close", "ended"}
<1>1. PICK g \in GenType : g = gen[c] BY DEF TypeInv
<1> QED BY <1>1 DEF GenType

\* The steps of the server keep the types.
LEMMA ServerTypes ==
    ASSUME Control, GeneratorFails \/ \E c \in Clients : ServerStep(c)
    PROVE  TypeInv'
<1> USE Sizes
<1>0. TypeInv BY DEF Control
<1>1. CASE Exit /\ UNCHANGED <<stream, col, sent, delivered, clean, main>> /\ curr' \in Int
  <2>1. ASSUME NEW o \in Clients PROVE [gen[o] EXCEPT !.pc = "ended"] \in GenType
    BY <1>0, ThreadRecord DEF TypeInv
  <2>2. gen' \in [Clients -> GenType] BY <1>1, <2>1 DEF Exit
  <2>3. conn' \in [Fds -> Clients \cup {None}] BY <1>0, <1>1 DEF TypeInv, Exit
  <2>4. ended' \in [Clients -> {"no", "eof", "reset"}] BY <1>0, <1>1 DEF TypeInv, Exit
  <2> QED BY <1>0, <1>1, <2>2, <2>3, <2>4 DEF TypeInv
<1>2. CASE GeneratorFails
  <2>1. curr' \in Int BY <1>0, <1>2 DEF GeneratorFails, TypeInv
  <2> QED BY <1>1, <1>2, <2>1 DEF GeneratorFails, clientVars
<1> SUFFICES ASSUME NEW c \in Clients, ServerStep(c) PROVE TypeInv' BY <1>2
<1>3. CASE Accept(c)
  <2>1. [gen[c] EXCEPT !.pc = "created"] \in GenType BY <1>0, ThreadRecord DEF TypeInv
  <2>2. gen' \in [Clients -> GenType] BY <1>0, <1>3, <2>1 DEF Accept, TypeInv
  <2>3. conn' \in [Fds -> Clients \cup {None}] BY <1>0, <1>3 DEF Accept, TypeInv
  <2>4. clean' \in [Clients -> BOOLEAN] BY <1>0, <1>3 DEF Accept, TypeInv
  <2> QED BY <1>0, <1>3, <2>2, <2>3, <2>4 DEF Accept, TypeInv, clientVars
<1>4. CASE ThreadStart(c)
  <2>1. CASE fd \in Int
    <3>1. [gen[c] EXCEPT !.pc = "write", !.fd = fd] \in GenType
      BY <1>0, <2>1, ThreadRecord DEF TypeInv
    <3>2. gen' \in [Clients -> GenType] BY <1>0, <1>4, <3>1 DEF ThreadStart, TypeInv
    <3> QED BY <1>0, <1>4, <3>2 DEF ThreadStart, TypeInv, clientVars, serverVars, history
  <2>2. fd \in Int BY <1>4 DEF ThreadStart, Control, ThreadInv, Fds
  <2> QED BY <2>1, <2>2
<1>5. CASE LoadCurr(c)
  <2>1. [gen[c] EXCEPT !.pc = "store", !.image = curr] \in GenType
    BY <1>0, ThreadRecord DEF TypeInv
  <2>2. gen' \in [Clients -> GenType] BY <1>0, <1>5, <2>1 DEF LoadCurr, TypeInv
  <2> QED BY <1>0, <1>5, <2>2 DEF LoadCurr, TypeInv, clientVars, serverVars, history
<1>6. ASSUME StoreCurr(c) PROVE curr' \in Int
  BY <1>0, <1>6, ThreadFields DEF StoreCurr
<1>7. CASE next_image(c)
  <2>1. gen[c].image % DATA_CNT \in Int
    <3>1. PICK i \in Int : i = gen[c].image BY <1>0, ThreadFields
    <3> QED BY <3>1
  <2>2. [gen[c] EXCEPT !.pc = "write", !.size = DATA_SIZE, !.pos = 0, !.image = gen[c].image % DATA_CNT]
          \in GenType
    BY <1>0, <2>1, ThreadRecord DEF TypeInv
  <2>3. gen' \in [Clients -> GenType] BY <1>0, <1>7, <2>2 DEF next_image, TypeInv
  <2> QED BY <1>0, <1>6, <1>7, <2>3 DEF next_image, TypeInv, clientVars, history
<1>8. CASE ImageBefore(c)
  <2>1. CASE Exit BY <1>1, <1>6, <1>8, <2>1 DEF ImageBefore, clientVars, history
  <2>2. CASE Goto(c, "close") /\ UNCHANGED <<serving, conn, ended>>
    <3>1. [gen[c] EXCEPT !.pc = "close"] \in GenType BY <1>0, ThreadRecord DEF TypeInv
    <3>2. gen' \in [Clients -> GenType] BY <1>0, <2>2, <3>1 DEF Goto, TypeInv
    <3> QED BY <1>0, <1>6, <1>8, <2>2, <3>2 DEF ImageBefore, TypeInv, clientVars, history
  <2>3. ASSUME NEW size \in SizesBefore,
               gen' = [gen EXCEPT ![c].pc = "write", ![c].size = size, ![c].pos = 0],
               UNCHANGED <<serving, conn, ended>>
        PROVE  TypeInv'
    <3>1. [gen[c] EXCEPT !.pc = "write", !.size = size, !.pos = 0] \in GenType
      BY <1>0, ThreadRecord DEF TypeInv
    <3>2. gen' \in [Clients -> GenType] BY <1>0, <2>3, <3>1 DEF TypeInv
    <3> QED BY <1>0, <1>6, <1>8, <2>3, <3>2 DEF ImageBefore, TypeInv, clientVars, history
  <2> QED BY <1>8, <2>1, <2>2, <2>3 DEF ImageBefore
<1>9. CASE WriteByte(c)
  <2>1. PICK t \in Clients : t = Target(c)
    <3>1. gen[c].fd \in Fds BY <1>9 DEF WriteByte, Control, ThreadInv
    <3>2. Target(c) # None BY <1>9 DEF WriteByte, Broken
    <3> QED BY <1>0, <3>1, <3>2 DEF Target, TypeInv
  <2>2. gen[c].image \in Int /\ gen[c].pos + 1 \in Nat
    <3>1. PICK i \in Nat : i = gen[c].pos BY <1>0, ThreadFields
    <3> QED BY <1>0, <3>1, ThreadFields
  <2>3. <<gen[c].image, gen[c].pos + 1>> \in Byte BY <2>2 DEF Byte
  <2>4. [gen[c] EXCEPT !.pos = gen[c].pos + 1] \in GenType BY <1>0, <2>2, ThreadRecord DEF TypeInv
  <2>5. gen' \in [Clients -> GenType] BY <1>0, <1>9, <2>4 DEF WriteByte, TypeInv
  <2>6. stream' \in [Clients -> Seq(Byte)]
    <3>1. stream' = [stream EXCEPT ![t] = Append(stream[t], <<gen[c].image, gen[c].pos + 1>>)]
      BY <1>9, <2>1 DEF WriteByte
    <3>2. Append(stream[t], <<gen[c].image, gen[c].pos + 1>>) \in Seq(Byte)
      BY <1>0, <2>3, AppendProperties DEF TypeInv
    <3> QED BY <1>0, <3>1, <3>2 DEF TypeInv
  <2>7. sent' \in [Clients -> Seq(Int)]
    <3>1. sent' \in {sent, [sent EXCEPT ![t] = Append(sent[t], gen[c].image)]}
      BY <1>9, <2>1 DEF WriteByte
    <3>2. Append(sent[t], gen[c].image) \in Seq(Int)
      BY <1>0, <2>2, AppendProperties DEF TypeInv
    <3> QED BY <1>0, <3>1, <3>2 DEF TypeInv
  <2>8. clean' \in [Clients -> BOOLEAN]
    <3>1. clean' = [clean EXCEPT ![t] = clean[t] /\ gen[c].image >= 0
                                /\ \A o \in Clients \ {c} : Writing(o) => Target(o) # t]
      BY <1>9, <2>1 DEF WriteByte
    <3> QED BY <1>0, <3>1 DEF TypeInv
  <2> QED BY <1>0, <1>9, <2>5, <2>6, <2>7, <2>8 DEF WriteByte, TypeInv, clientVars, serverVars
<1>10. CASE WriteFails(c)
  <2>1. [gen[c] EXCEPT !.pc = "close"] \in GenType BY <1>0, ThreadRecord DEF TypeInv
  <2>2. gen' \in [Clients -> GenType] BY <1>0, <1>10, <2>1 DEF WriteFails, Goto, TypeInv
  <2> QED BY <1>0, <1>10, <2>2 DEF WriteFails, TypeInv, clientVars, serverVars, history
<1>11. CASE CloseFd(c)
  <2>1. [gen[c] EXCEPT !.pc = "ended"] \in GenType BY <1>0, ThreadRecord DEF TypeInv
  <2>2. gen' \in [Clients -> GenType] BY <1>0, <1>11, <2>1 DEF CloseFd, Goto, TypeInv
  <2>3. conn' \in [Fds -> Clients \cup {None}] BY <1>0, <1>11 DEF CloseFd, TypeInv
  <2>4. ended' \in [Clients -> {"no", "eof", "reset"}] BY <1>0, <1>11 DEF CloseFd, TypeInv
  <2> QED BY <1>0, <1>11, <2>2, <2>3, <2>4 DEF CloseFd, TypeInv, clientVars, history
<1> QED BY <1>3, <1>4, <1>5, <1>7, <1>8, <1>9, <1>10, <1>11 DEF ServerStep, generate_data_thread

\* The variables of a collector, one by one.
LEMMA CollectorFields ==
    ASSUME NEW k \in ColType
    PROVE  /\ k.buf \in Seq(Byte) /\ Len(k.buf) \in Nat /\ k.rest \in Int /\ k.reads \in Nat
           /\ k.header_ok \in BOOLEAN /\ k.frame_id \in Int
           /\ k.obj \in Int /\ k.empty \in Int /\ k.non \in Int
           /\ k.pc \in {"none", "run", "stopped", "wild"}
<1>1. k.buf \in Seq(Byte) BY DEF ColType
<1> QED BY <1>1, LenProperties DEF ColType

\* What has been read, once more and one longer.
LEMMA MoreFields ==
    ASSUME NEW k \in ColType, NEW b \in Int
    PROVE  /\ More(k, b) \in ColType /\ More(k, b).pc = k.pc /\ More(k, b).buf = k.buf
           /\ More(k, b).rest = k.rest - b /\ More(k, b).header_ok = k.header_ok
           /\ More(k, b).reads = k.reads /\ More(k, b).frame_id = k.frame_id
<1>1. k.rest - b \in Int BY DEF ColType
<1> QED BY <1>1 DEF More, ColType

\* A header is taken for the frame it names, or the thread is lost.
LEMMA StartFields ==
    ASSUME NEW k \in ColType, NEW b \in Int, Len(k.buf) = H
    PROVE  LET s == StartBody(k, b)
           IN /\ s \in ColType
              /\ s.pc # "wild" => s.pc = k.pc /\ s.header_ok /\ s.buf = << >> /\ s.rest = DATA_SIZE - b
              /\ s.pc # "wild" /\ k.buf[H][2] = H => s.frame_id = k.buf[H][1]
              /\ k.buf[1][1] >= 0 /\ k.buf[1][2] = 1 => s.pc = k.pc
              /\ s.pc \in {k.pc, "wild"}
<1>1. PICK n \in Int : n = DATA_SIZE - b BY Sizes
<1>2. k.buf[H] \in Byte
  <2>1. H \in 1 .. Len(k.buf) BY Sizes
  <2> QED BY <2>1, CollectorFields, ElementOfSeq
<1>3. PICK f \in Int : f = IF k.buf[H][2] = H THEN k.buf[H][1] ELSE -1
  <2>1. k.buf[H][1] \in Int BY <1>2 DEF Byte
  <2> QED BY <2>1
<1>4. << >> \in Seq(Byte) OBVIOUS
<1>5. CASE k.buf[1][1] >= 0 /\ k.buf[1][2] = 1
  <2>1. StartBody(k, b) = [k EXCEPT !.header_ok = TRUE, !.buf = << >>, !.rest = n, !.frame_id = f]
    BY <1>1, <1>3, <1>5 DEF StartBody
  <2>2. PICK s : s = [k EXCEPT !.header_ok = TRUE, !.buf = << >>, !.rest = n, !.frame_id = f] OBVIOUS
  <2>3. /\ s \in ColType /\ s.pc = k.pc /\ s.header_ok /\ s.buf = << >> /\ s.rest = n
        /\ s.frame_id = f
    BY <1>4, <2>2 DEF ColType
  <2> QED BY <1>1, <1>3, <2>1, <2>2, <2>3
<1>6. CASE ~(k.buf[1][1] >= 0 /\ k.buf[1][2] = 1)
  <2>1. StartBody(k, b) = [k EXCEPT !.pc = "wild"] BY <1>6 DEF StartBody
  <2>2. [k EXCEPT !.pc = "wild"] \in ColType /\ [k EXCEPT !.pc = "wild"].pc = "wild" BY DEF ColType
  <2> QED BY <1>6, <2>1, <2>2
<1> QED BY <1>5, <1>6

\* After a frame, whatever it shows, the next header is read.
LEMMA NextFields ==
    ASSUME NEW k \in ColType, NEW r \in {"empty", "object", "between"}
    PROVE  LET n == NextHeader(Detect(k, r))
           IN /\ n \in ColType /\ n.pc = k.pc /\ ~n.header_ok /\ n.buf = << >> /\ n.rest = H
              /\ n.reads = 0
<1>1. PICK d : d = Detect(k, r) OBVIOUS
<1>2. d \in ColType /\ d.pc = k.pc
  <2>1. k.empty + 1 \in Int /\ k.non + 1 \in Int /\ k.obj + 1 + k.empty + k.non \in Int
    BY CollectorFields
  <2>2. CASE r = "empty"
    <3>1. [k EXCEPT !.obj = 0, !.non = 0, !.empty = 0] \in ColType
          /\ [k EXCEPT !.obj = 0, !.non = 0, !.empty = 0].pc = k.pc
      <4>1. PICK z \in Int : z = 0 OBVIOUS
      <4>2. [k EXCEPT !.obj = z, !.non = z, !.empty = z] \in ColType
        BY CollectorFields DEF ColType
      <4>3. [k EXCEPT !.obj = z, !.non = z, !.empty = z].pc = k.pc BY DEF ColType
      <4> QED BY <4>1, <4>2, <4>3
    <3>2. [k EXCEPT !.empty = k.empty + 1] \in ColType /\ [k EXCEPT !.empty = k.empty + 1].pc = k.pc
      BY <2>1 DEF ColType
    <3> QED BY <1>1, <2>2, <3>1, <3>2 DEF Detect
  <2>3. CASE r = "object"
    <3>1. d = [k EXCEPT !.obj = k.obj + 1 + k.empty + k.non, !.empty = 0, !.non = 0]
      BY <1>1, <2>3 DEF Detect
    <3>2. PICK z \in Int : z = 0 OBVIOUS
    <3>3. PICK o \in Int : o = k.obj + 1 + k.empty + k.non BY <2>1
    <3>4. d = [k EXCEPT !.obj = o, !.empty = z, !.non = z] BY <3>1, <3>2, <3>3
    <3> QED BY <3>4 DEF ColType
  <2>4. CASE r = "between"
    <3>1. d = [k EXCEPT !.non = k.non + 1] BY <1>1, <2>4 DEF Detect
    <3> QED BY <2>1, <3>1 DEF ColType
  <2> QED BY <2>2, <2>3, <2>4
<1>3. << >> \in Seq(Byte) /\ H \in Int BY Sizes
<1> QED BY <1>1, <1>2, <1>3 DEF NextHeader, ColType


\* Two sequences of known lengths, one behind the other.
LEMMA TwoPieces ==
    ASSUME NEW S, NEW x \in Seq(S), NEW y \in Seq(S), NEW a, NEW b, Len(x) = a, Len(y) = b
    PROVE  /\ x \o y \in Seq(S) /\ Len(x \o y) = a + b
           /\ \A i \in 1 .. a + b : (x \o y)[i] = IF i <= a THEN x[i] ELSE y[i - a]
BY ConcatProperties

\* The first n elements of a sequence, and the others.
LEMMA Divided ==
    ASSUME NEW S, NEW u \in Seq(S), NEW n \in Nat, n <= Len(u)
    PROVE  /\ SubSeq(u, 1, n) \in Seq(S) /\ Len(SubSeq(u, 1, n)) = n
           /\ \A i \in 1 .. n : SubSeq(u, 1, n)[i] = u[i]
           /\ SubSeq(u, n + 1, Len(u)) \in Seq(S) /\ Len(SubSeq(u, n + 1, Len(u))) = Len(u) - n
           /\ \A i \in 1 .. Len(u) - n : SubSeq(u, n + 1, Len(u))[i] = u[n + i]
<1>1. PICK l : l = Len(u) OBVIOUS
<1>2. l \in Nat /\ n <= l /\ n \in Int /\ l \in Int /\ n + 1 \in Int BY <1>1
<1>3. \A i \in 1 .. l : u[i] \in S BY <1>1
<1>4. \A i \in 1 .. n : u[i] \in S BY <1>2, <1>3
<1>5. \A i \in n + 1 .. l : u[i] \in S BY <1>2, <1>3
<1>6. /\ SubSeq(u, 1, n) \in Seq(S)
      /\ Len(SubSeq(u, 1, n)) = IF 1 <= n THEN n - 1 + 1 ELSE 0
      /\ \A i \in 1 .. n - 1 + 1 : SubSeq(u, 1, n)[i] = u[1 + i - 1]
  BY <1>2, <1>4, SubSeqProperties
<1>7. /\ SubSeq(u, n + 1, l) \in Seq(S)
      /\ Len(SubSeq(u, n + 1, l)) = IF n + 1 <= l THEN l - (n + 1) + 1 ELSE 0
      /\ \A i \in 1 .. l - (n + 1) + 1 : SubSeq(u, n + 1, l)[i] = u[(n + 1) + i - 1]
  BY <1>2, <1>5, SubSeqProperties
<1>8. ASSUME NEW i \in 1 .. n PROVE SubSeq(u, 1, n)[i] = u[i]
  <2>1. i \in 1 .. n - 1 + 1 /\ 1 + i - 1 = i OBVIOUS
  <2> QED BY <1>6, <2>1
<1>9. ASSUME NEW i \in 1 .. l - n PROVE SubSeq(u, n + 1, l)[i] = u[n + i]
  <2>1. i \in 1 .. l - (n + 1) + 1 /\ (n + 1) + i - 1 = n + i BY <1>2
  <2> QED BY <1>7, <2>1
<1>10. Len(SubSeq(u, 1, n)) = n BY <1>6
<1>11. Len(SubSeq(u, n + 1, l)) = l - n BY <1>2, <1>7
<1> QED BY <1>1, <1>6, <1>7, <1>8, <1>9, <1>10, <1>11

-----------------------------------------------------------------------------
\* A read takes at least a byte and no more than is missing.
LEMMA BytesFacts ==
    ASSUME Control, NEW c \in Clients, Readable(c)
    PROVE  Bytes(c) \in Nat /\ 1 <= Bytes(c) /\ Bytes(c) <= Len(stream[c]) /\ Bytes(c) <= col[c].rest
<1>1. stream[c] \in Seq(Byte) /\ stream[c] # << >> /\ col[c] \in ColType
  BY DEF Control, TypeInv, Readable
<1>2. PICK l \in Nat : l = Len(stream[c]) /\ l >= 1 BY <1>1, EmptySeq
<1>3. PICK r \in Int : r = col[c].rest /\ r >= 1
  <2>1. col[c].rest \in Int /\ Len(col[c].buf) \in Nat BY <1>1, CollectorFields
  <2>2. col[c].rest >= 1
    <3>1. /\ col[c].pc = "run" /\ ~col[c].header_ok =>
                Len(col[c].buf) < H /\ col[c].rest = H - Len(col[c].buf)
          /\ col[c].pc = "run" /\ col[c].header_ok =>
                Len(col[c].buf) < R /\ col[c].rest >= R - Len(col[c].buf)
      BY DEF Control, CollectorInv
    <3>2. col[c].pc = "run" BY DEF Readable, Running
    <3>3. CASE col[c].header_ok BY <2>1, <3>1, <3>2, <3>3, Sizes
    <3>4. CASE ~col[c].header_ok BY <2>1, <3>1, <3>2, <3>4, Sizes
    <3> QED BY <3>3, <3>4
  <2> QED BY <2>1, <2>2
<1>4. \E x \in {r, l} : \A y \in {r, l} : x =< y
  <2>1. CASE r =< l BY <2>1
  <2>2. CASE l =< r BY <2>2
  <2> QED BY <2>1, <2>2
<1>5. Bytes(c) \in {r, l} /\ \A y \in {r, l} : Bytes(c) =< y BY <1>2, <1>3, <1>4 DEF Bytes, Min
<1> QED BY <1>2, <1>3, <1>5

\* What a read leaves of the stream.
LEMMA RestFacts ==
    ASSUME Control, NEW c \in Clients, Readable(c), NEW b, b = Bytes(c),
           NEW s, s = SubSeq(stream[c], b + 1, Len(stream[c]))
    PROVE  /\ s \in Seq(Byte) /\ Len(s) = Len(stream[c]) - b
           /\ \A i \in 1 .. Len(stream[c]) - b : s[i] = stream[c][b + i]
<1>1. b \in Nat /\ b <= Len(stream[c]) BY BytesFacts
<1>2. stream[c] \in Seq(Byte) BY DEF Control, TypeInv
<1> QED BY <1>1, <1>2, Divided

\* What a read adds to the buffer.
LEMMA ReadFacts ==
    ASSUME Control, NEW c \in Clients, Readable(c), NEW b, b = Bytes(c), NEW k, k = Received(c)
    PROVE  /\ b \in Nat /\ 1 <= b /\ b <= Len(stream[c]) /\ b <= col[c].rest
           /\ k \in ColType /\ k.pc = "run" /\ k.header_ok = col[c].header_ok
           /\ k.rest = col[c].rest /\ k.frame_id = col[c].frame_id /\ k.reads = col[c].reads + 1
           /\ Len(k.buf) = Len(col[c].buf) + b
           /\ \A j \in 1 .. Len(col[c].buf) + b :
                 k.buf[j] = IF j <= Len(col[c].buf) THEN col[c].buf[j]
                            ELSE stream[c][j - Len(col[c].buf)]
           /\ ~k.header_ok => Len(k.buf) <= H
<1>1. b \in Nat /\ 1 <= b /\ b <= Len(stream[c]) /\ b <= col[c].rest BY BytesFacts
<1>2. stream[c] \in Seq(Byte) /\ col[c] \in ColType BY DEF Control, TypeInv
<1>4. PICK f : f = SubSeq(stream[c], 1, b) OBVIOUS
<1>5. f \in Seq(Byte) /\ Len(f) = b /\ \A i \in 1 .. b : f[i] = stream[c][i] BY <1>1, <1>2, <1>4, Divided
<1>6. PICK a : a = col[c].buf \o f OBVIOUS
<1>7. PICK n \in Nat : n = Len(col[c].buf) BY <1>2, CollectorFields
<1>8. /\ a \in Seq(Byte) /\ Len(a) = n + b
      /\ \A i \in 1 .. n + b : a[i] = IF i <= n THEN col[c].buf[i] ELSE f[i - n]
  BY <1>2, <1>5, <1>6, <1>7, CollectorFields, TwoPieces
<1>9. PICK r \in Nat : r = col[c].reads + 1 BY <1>2, CollectorFields
<1>10. k = [col[c] EXCEPT !.buf = a, !.reads = r] BY <1>4, <1>6, <1>9 DEF Received
<1>11. /\ k \in ColType /\ k.pc = col[c].pc /\ k.header_ok = col[c].header_ok
       /\ k.rest = col[c].rest /\ k.frame_id = col[c].frame_id /\ k.reads = r /\ k.buf = a
  BY <1>2, <1>8, <1>10 DEF ColType
<1>12. ASSUME NEW j \in 1 .. n + b, j > n PROVE f[j - n] = stream[c][j - n]
  <2>1. j - n \in 1 .. b BY <1>1, <1>12
  <2> QED BY <1>5, <2>1
<1>13. \A j \in 1 .. n + b : k.buf[j] = IF j <= n THEN col[c].buf[j] ELSE stream[c][j - n]
  BY <1>8, <1>11, <1>12
<1>14. col[c].pc = "run" BY DEF Readable, Running
<1>15. ASSUME ~k.header_ok PROVE n + b <= H
  BY <1>1, <1>7, <1>11, <1>14, <1>15, Sizes DEF Control, CollectorInv
<1> QED BY <1>1, <1>7, <1>8, <1>9, <1>11, <1>13, <1>14, <1>15

\* Whatever a read leads to, what is left of the stream is a stream.
LEMMA ConsumeFacts ==
    ASSUME Control, NEW c \in Clients, Readable(c), Consume(c)
    PROVE  /\ stream' \in [Clients -> Seq(Byte)]
           /\ stream' = [stream EXCEPT ![c] = SubSeq(stream[c], Bytes(c) + 1, Len(stream[c]))]
<1>1. stream[c] \in Seq(Byte) BY DEF Control, TypeInv
<1>2. PICK u \in Seq(Byte) : u = stream[c] BY <1>1
<1>3. PICK b \in Nat : b = Bytes(c) /\ b <= Len(u) BY <1>2, BytesFacts
<1>4. SubSeq(u, b + 1, Len(u)) \in Seq(Byte) BY <1>3, Divided
<1> QED BY <1>2, <1>3, <1>4 DEF Consume, Control, TypeInv

\* What the collector is after each of the three reads.
AfterHeader(c) ==
    IF Len(Received(c).buf) < H THEN More(Received(c), Bytes(c)) ELSE StartBody(Received(c), Bytes(c))
AfterBody(c) ==
    IF Len(Received(c).buf) < R THEN More(Received(c), Bytes(c)) ELSE Overrun(Received(c))
AfterFrame(c, radius) == NextHeader(Detect(Received(c), radius))

\* It waits for the rest of a header or of an image, or is lost.
Collects(k) ==
    /\ k.pc \in {"run", "wild"}
    /\ k.pc = "run" /\ ~k.header_ok => Len(k.buf) < H /\ k.rest = H - Len(k.buf)
    /\ k.pc = "run" /\ k.header_ok => Len(k.buf) < R /\ k.rest >= R - Len(k.buf)

\* The header, or a piece of it: the collector waits for what it should.
LEMMA AfterHeaderFacts ==
    ASSUME Control, NEW c \in Clients, Readable(c), ~col[c].header_ok
    PROVE  AfterHeader(c) \in ColType /\ Collects(AfterHeader(c))
<1>1. PICK b : b = Bytes(c) OBVIOUS
<1>2. PICK k : k = Received(c) OBVIOUS
<1>3. /\ b \in Nat /\ 1 <= b /\ k \in ColType /\ k.pc = "run" /\ ~k.header_ok
      /\ b <= col[c].rest /\ k.rest = col[c].rest /\ Len(k.buf) = Len(col[c].buf) + b /\ Len(k.buf) <= H
  BY <1>1, <1>2, ReadFacts
<1>4. PICK n \in Nat : n = Len(col[c].buf) BY CollectorFields DEF Control, TypeInv
<1>5. col[c].rest = H - n BY <1>4 DEF Control, CollectorInv, Readable, Running
<1>6. CASE Len(k.buf) < H
  <2>1. AfterHeader(c) = More(k, b) BY <1>1, <1>2, <1>6 DEF AfterHeader
  <2>2. b \in Int BY <1>3
  <2>3. /\ More(k, b) \in ColType /\ More(k, b).pc = k.pc /\ More(k, b).buf = k.buf
        /\ More(k, b).rest = k.rest - b /\ More(k, b).header_ok = k.header_ok
    BY <1>3, <2>2, MoreFields
  <2>4. Len(k.buf) = n + b /\ k.rest - b = H - (n + b) BY <1>3, <1>4, <1>5, Sizes
  <2> QED BY <1>3, <1>6, <2>1, <2>3, <2>4 DEF Collects
<1>7. CASE ~(Len(k.buf) < H)
  <2>1. Len(k.buf) = H BY <1>3, <1>4, <1>7, Sizes
  <2>2. AfterHeader(c) = StartBody(k, b) BY <1>1, <1>2, <1>7 DEF AfterHeader
  <2>3. b \in Int BY <1>3
  <2>4. PICK t : t = StartBody(k, b) OBVIOUS
  <2>5. /\ t \in ColType /\ t.pc \in {k.pc, "wild"}
        /\ t.pc # "wild" => t.header_ok /\ t.buf = << >> /\ t.rest = DATA_SIZE - b
    BY <1>3, <2>1, <2>3, <2>4, StartFields
  <2>6. b <= H BY <1>3, <1>4, <1>5, Sizes
  <2>7. Len(<< >>) = 0 BY EmptySeq
  <2>8. t.pc = "run" => t.header_ok /\ Len(t.buf) = 0 /\ t.rest >= R
    BY <1>3, <2>5, <2>6, <2>7, Sizes
  <2> QED BY <1>3, <2>2, <2>4, <2>5, <2>8, Sizes DEF Collects
<1> QED BY <1>6, <1>7

\* A piece of the image: the same, unless it is more than the image has room for.
LEMMA AfterBodyFacts ==
    ASSUME Control, NEW c \in Clients, Readable(c), col[c].header_ok, Len(Received(c).buf) # R
    PROVE  AfterBody(c) \in ColType /\ Collects(AfterBody(c))
<1>1. PICK b : b = Bytes(c) OBVIOUS
<1>2. PICK k : k = Received(c) OBVIOUS
<1>3. /\ b \in Nat /\ 1 <= b /\ k \in ColType /\ k.pc = "run" /\ k.header_ok
      /\ k.rest = col[c].rest /\ Len(k.buf) = Len(col[c].buf) + b
  BY <1>1, <1>2, ReadFacts
<1>4. PICK n \in Nat : n = Len(col[c].buf) BY CollectorFields DEF Control, TypeInv
<1>5. PICK r \in Int : r = col[c].rest BY CollectorFields DEF Control, TypeInv
<1>6. r >= R - n BY <1>4, <1>5 DEF Control, CollectorInv, Readable, Running
<1>7. CASE Len(k.buf) < R
  <2>1. AfterBody(c) = More(k, b) BY <1>1, <1>2, <1>7 DEF AfterBody
  <2>2. b \in Int BY <1>3
  <2>3. /\ More(k, b) \in ColType /\ More(k, b).pc = k.pc /\ More(k, b).buf = k.buf
        /\ More(k, b).rest = k.rest - b /\ More(k, b).header_ok = k.header_ok
    BY <1>3, <2>2, MoreFields
  <2>4. Len(k.buf) = n + b /\ k.rest - b >= R - (n + b) BY <1>3, <1>4, <1>5, <1>6, Sizes
  <2> QED BY <1>3, <1>7, <2>1, <2>3, <2>4 DEF Collects
<1>8. CASE ~(Len(k.buf) < R)
  <2>1. AfterBody(c) = [k EXCEPT !.pc = "wild"] BY <1>2, <1>8 DEF AfterBody, Overrun
  <2>2. [k EXCEPT !.pc = "wild"] \in ColType /\ [k EXCEPT !.pc = "wild"].pc = "wild"
    BY <1>3 DEF ColType
  <2> QED BY <2>1, <2>2 DEF Collects
<1> QED BY <1>7, <1>8

\* The end of the image: the collector waits for the next header.
LEMMA AfterFrameFacts ==
    ASSUME Control, NEW c \in Clients, Readable(c), NEW r \in {"empty", "object", "between"}
    PROVE  AfterFrame(c, r) \in ColType /\ Collects(AfterFrame(c, r))
<1>0. PICK b : b = Bytes(c) OBVIOUS
<1>1. PICK k : k = Received(c) OBVIOUS
<1>2. k \in ColType /\ k.pc = "run" BY <1>0, <1>1, ReadFacts
<1>3. PICK n : n = NextHeader(Detect(k, r)) OBVIOUS
<1>4. /\ n \in ColType /\ n.pc = k.pc /\ ~n.header_ok /\ n.buf = << >> /\ n.rest = H
  BY <1>2, <1>3, NextFields
<1>5. Len(<< >>) = 0 BY EmptySeq
<1>6. Len(n.buf) < H /\ n.rest = H - Len(n.buf) BY <1>4, <1>5, Sizes
<1> QED BY <1>1, <1>2, <1>3, <1>4, <1>6 DEF AfterFrame, Collects

\* A read changes the collector and its stream, and what is told of them.
LEMMA ReadControl ==
    ASSUME Control, NEW c \in Clients, ReadStep(c)
    PROVE  /\ Readable(c) /\ Consume(c) /\ UNCHANGED <<serverVars, gen, ended, exit_flag, main, sent>>
           /\ \E k \in ColType : col' = [col EXCEPT ![c] = k] /\ Collects(k)
           /\ delivered' \in [Clients -> Seq(Int)] /\ clean' \in [Clients -> BOOLEAN]
<1>0. delivered \in [Clients -> Seq(Int)] /\ clean \in [Clients -> BOOLEAN] BY DEF Control, TypeInv
<1>1. CASE ReadHeader(c)
  <2>1. col' = [col EXCEPT ![c] = AfterHeader(c)] BY <1>1 DEF ReadHeader, AfterHeader
  <2>2. AfterHeader(c) \in ColType /\ Collects(AfterHeader(c)) BY <1>1, AfterHeaderFacts DEF ReadHeader
  <2>3. clean' \in [Clients -> BOOLEAN] BY <1>0, <1>1 DEF ReadHeader
  <2> QED BY <1>0, <1>1, <2>1, <2>2, <2>3 DEF ReadHeader
<1>2. CASE ReadBody(c)
  <2>1. col' = [col EXCEPT ![c] = AfterBody(c)] BY <1>2 DEF ReadBody, AfterBody
  <2>2. AfterBody(c) \in ColType /\ Collects(AfterBody(c)) BY <1>2, AfterBodyFacts DEF ReadBody
  <2> QED BY <1>0, <1>2, <2>1, <2>2 DEF ReadBody, history
<1>3. CASE ReadFrame(c)
  <2>1. PICK r \in {"empty", "object", "between"} : col' = [col EXCEPT ![c] = AfterFrame(c, r)]
    BY <1>3 DEF ReadFrame, AfterFrame
  <2>2. AfterFrame(c, r) \in ColType /\ Collects(AfterFrame(c, r))
    BY <1>3, AfterFrameFacts DEF ReadFrame
  <2>3. FrameOf(Received(c)) \in Int
    <3>1. PICK k : k = Received(c) OBVIOUS
    <3>0. PICK b : b = Bytes(c) OBVIOUS
    <3>2. k \in ColType BY <1>3, <3>0, <3>1, ReadFacts DEF ReadFrame
    <3>3. PICK i \in Int : i = k.frame_id BY <3>2, CollectorFields
    <3> QED BY <3>1, <3>3 DEF FrameOf
  <2>4. delivered' \in [Clients -> Seq(Int)]
    <3>1. Append(delivered[c], FrameOf(Received(c))) \in Seq(Int)
      BY <1>0, <2>3, AppendProperties
    <3> QED BY <1>0, <1>3, <3>1 DEF ReadFrame
  <2> QED BY <1>0, <1>3, <2>1, <2>2, <2>4 DEF ReadFrame
<1> QED BY <1>1, <1>2, <1>3 DEF ReadStep

\* The steps of a client and of the network keep the types.
LEMMA ClientTypes ==
    ASSUME Control, NEW c \in Clients, ReadStep(c) \/ ClientStep(c)
    PROVE  TypeInv'
<1>0. TypeInv BY DEF Control
<1>1. CASE ReadStep(c)
  <2>1. PICK k \in ColType : col' = [col EXCEPT ![c] = k] BY <1>1, ReadControl
  <2>2. col' \in [Clients -> ColType] BY <1>0, <2>1 DEF TypeInv
  <2>3. stream' \in [Clients -> Seq(Byte)] BY <1>1, ReadControl, ConsumeFacts
  <2>4. delivered' \in [Clients -> Seq(Int)] /\ clean' \in [Clients -> BOOLEAN] BY <1>1, ReadControl
  <2>5. UNCHANGED <<serverVars, gen, ended, exit_flag, main, sent>> BY <1>1, ReadControl
  <2> QED BY <1>0, <2>2, <2>3, <2>4, <2>5 DEF TypeInv, serverVars
<1>2. CASE collector_init(c)
  <2>1. main' \in [Clients -> {"init", "test", "wait", "join", "done"}]
    BY <1>0, <1>2 DEF collector_init, TypeInv
  <2>2. Collecting \in ColType
    <3>1. << >> \in Seq(Byte) /\ H \in Int BY Sizes
    <3> QED BY <3>1 DEF ColType, Collecting
  <2>3. col' \in [Clients -> ColType] BY <1>0, <1>2, <2>2 DEF collector_init, TypeInv
  <2> QED BY <1>0, <1>2, <2>1, <2>3 DEF collector_init, TypeInv, serverVars, history
<1>3. CASE ReadNothing(c)
  BY <1>0, <1>3 DEF ReadNothing, TypeInv, vars, serverVars, history, clientVars
<1>4. CASE ReadError(c)
  <2>1. [col[c] EXCEPT !.pc = "stopped"] \in ColType
    <3>1. PICK k \in ColType : k = col[c] BY <1>0 DEF TypeInv
    <3> QED BY <3>1 DEF ColType
  <2>2. col' \in [Clients -> ColType] BY <1>0, <1>4, <2>1 DEF ReadError, TypeInv
  <2> QED BY <1>0, <1>4, <2>2 DEF ReadError, TypeInv, serverVars, history
<1>5. CASE MainTest(c) BY <1>0, <1>5 DEF MainTest, TypeInv, serverVars, history
<1>6. CASE MainWait(c) BY <1>0, <1>6 DEF MainWait, TypeInv, serverVars, history
<1>7. CASE collector_destroy(c) BY <1>0, <1>7 DEF collector_destroy, TypeInv, serverVars, history
<1>8. CASE Reset(c)
  <2>1. << >> \in Seq(Byte) OBVIOUS
  <2>2. stream' \in [Clients -> Seq(Byte)] BY <1>0, <1>8, <2>1 DEF Reset, TypeInv
  <2>3. ended' \in [Clients -> {"no", "eof", "reset"}] BY <1>0, <1>8 DEF Reset, TypeInv
  <2> QED BY <1>0, <1>8, <2>2, <2>3 DEF Reset, TypeInv, serverVars, clientVars
<1> QED BY <1>1, <1>2, <1>3, <1>4, <1>5, <1>6, <1>7, <1>8 DEF ClientStep

\* The server leaves the clients alone; what is lost stays lost.
LEMMA ServerLeavesClients ==
    ASSUME TypeInv, GeneratorFails \/ \E c \in Clients : ServerStep(c), NEW o \in Clients
    PROVE  UNCHANGED <<col, main, delivered>> /\ (ended[o] = "reset" <=> ended'[o] = "reset")
<1>1. CASE Exit
  <2>1. ended' = [c \in Clients |-> IF col[c].pc = "run" /\ ended[c] = "no" THEN "eof" ELSE ended[c]]
    BY <1>1 DEF Exit
  <2>2. ended[o] = "reset" <=> ended'[o] = "reset" BY <2>1
  <2>3. CASE GeneratorFails BY <2>2, <2>3 DEF GeneratorFails, clientVars
  <2>4. ASSUME NEW c \in Clients, ImageBefore(c) PROVE UNCHANGED <<col, main, delivered>>
    BY <2>4 DEF ImageBefore, clientVars, history
  <2>5. ASSUME NEW c \in Clients, ServerStep(c) PROVE UNCHANGED <<col, main, delivered>>
    BY <2>4, <2>5 DEF ServerStep, generate_data_thread, Accept, ThreadStart, LoadCurr, next_image,
                      WriteByte, WriteFails, CloseFd, clientVars, history
  <2> QED BY <2>2, <2>3, <2>5
<1>2. CASE ~Exit
  <2>1. PICK c \in Clients : ServerStep(c) BY <1>2 DEF GeneratorFails
  <2>2. CASE CloseFd(c)
    <3>1. Broken(c) \/ ended[Target(c)] = "no" BY DEF Broken
    <3>2. ended' = ended \/ (ended' = [ended EXCEPT ![Target(c)] = "eof"] /\ ~Broken(c))
      BY <2>2 DEF CloseFd
    <3>3. ended \in [Clients -> {"no", "eof", "reset"}] BY DEF TypeInv
    <3> QED BY <2>2, <3>1, <3>2, <3>3 DEF CloseFd, clientVars, history
  <2>3. CASE ~CloseFd(c)
    BY <1>2, <2>1, <2>3 DEF ServerStep, generate_data_thread, Accept, ThreadStart, LoadCurr, next_image,
                       ImageBefore, Goto, WriteByte, WriteFails, clientVars, history
  <2> QED BY <2>2, <2>3
<1> QED BY <1>1, <1>2

\* A client leaves the server alone.
LEMMA ClientLeavesServer ==
    ASSUME Control, NEW c \in Clients, ReadStep(c) \/ ClientStep(c)
    PROVE  UNCHANGED <<serverVars, gen, sent>>
<1>1. CASE ReadStep(c) BY <1>1, ReadControl
<1>2. CASE ClientStep(c)
  BY <1>2 DEF ClientStep, collector_init, ReadNothing, ReadError, MainTest, MainWait,
              collector_destroy, Reset, vars, history
<1> QED BY <1>1, <1>2

\* One client's step is not another's.
LEMMA ClientAlone ==
    ASSUME Control, NEW c \in Clients, ReadStep(c) \/ ClientStep(c), NEW o \in Clients, o # c
    PROVE  UNCHANGED <<col[o], stream[o], ended[o], delivered[o], clean[o], main[o]>>
<1>0. TypeInv BY DEF Control
<1>1. CASE ReadHeader(c) BY <1>0, <1>1 DEF ReadHeader, Consume, TypeInv
<1>2. CASE ReadBody(c) BY <1>0, <1>2 DEF ReadBody, Consume, TypeInv, history
<1>3. CASE ReadFrame(c)
  <2>1. PICK k : col' = [col EXCEPT ![c] = k] BY <1>3 DEF ReadFrame
  <2>2. PICK d : delivered' = [delivered EXCEPT ![c] = d] BY <1>3 DEF ReadFrame
  <2> QED BY <1>0, <1>3, <2>1, <2>2 DEF ReadFrame, Consume, TypeInv
<1>4. CASE ClientStep(c)
  BY <1>0, <1>4 DEF ClientStep, collector_init, ReadNothing, ReadError, MainTest, MainWait,
                    collector_destroy, Reset, vars, history, clientVars, TypeInv
<1> QED BY <1>1, <1>2, <1>3, <1>4 DEF ReadStep

\* A connection is opened to a client that runs, and only closed afterwards.
LEMMA ConnectedStep ==
    ASSUME Control,
           GeneratorFails \/ \E c \in Clients : ServerStep(c) \/ ReadStep(c) \/ ClientStep(c)
    PROVE  Connected'
<1>0. TypeInv /\ Connected BY DEF Control
<1>1. CASE GeneratorFails \/ \E c \in Clients : ServerStep(c)
  <2>1. UNCHANGED col
    <3>1. CASE Clients = {} BY <1>1, <3>1 DEF GeneratorFails, clientVars
    <3>2. CASE Clients # {} BY <1>0, <1>1, <3>2, ServerLeavesClients
    <3> QED BY <3>1, <3>2
  <2>2. SUFFICES ASSUME NEW f \in Fds, conn'[f] # None
                 PROVE  col[conn'[f]].pc # "none"
    BY <2>1 DEF Connected
  <2>3. SUFFICES conn'[f] = conn[f] \/ \E c \in Clients : conn'[f] = c /\ col[c].pc = "run"
    BY <1>0, <2>2 DEF Connected
  <2>4. conn \in [Fds -> Clients \cup {None}] BY <1>0 DEF TypeInv
  <2>5. ASSUME Exit PROVE FALSE BY <2>2, <2>4, <2>5 DEF Exit
  <2>6. PICK c \in Clients : ServerStep(c) BY <1>1, <2>5 DEF GeneratorFails
  <2>7. CASE Accept(c)
    <3>1. PICK g \in DOMAIN conn : conn' = [conn EXCEPT ![g] = c] BY <2>7 DEF Accept
    <3> QED BY <2>4, <2>7, <3>1 DEF Accept, Waiting
  <2>8. CASE CloseFd(c) BY <2>2, <2>4, <2>8 DEF CloseFd
  <2>9. CASE ~Accept(c) /\ ~CloseFd(c)
    BY <2>5, <2>6, <2>9 DEF ServerStep, generate_data_thread, ThreadStart, LoadCurr, next_image,
                            ImageBefore, WriteByte, WriteFails, serverVars
  <2> QED BY <2>7, <2>8, <2>9
<1>2. ASSUME NEW c \in Clients, ReadStep(c) \/ ClientStep(c) PROVE Connected'
  <2>1. UNCHANGED conn BY <1>2, ClientLeavesServer DEF serverVars
  <2>2. SUFFICES ASSUME NEW o \in Clients, col[o].pc # "none" PROVE col'[o].pc # "none"
    <3>1. ASSUME NEW f \in Fds, conn[f] # None PROVE conn[f] \in Clients /\ col[conn[f]].pc # "none"
      BY <1>0, <3>1 DEF Connected, TypeInv
    <3> QED BY <2>1, <3>1, <2>2 DEF Connected
  <2>3. CASE o # c BY <1>2, <2>2, <2>3, ClientAlone
  <2>4. CASE o = c
    <3>1. CASE ReadStep(c)
      <4>1. PICK k \in ColType : col' = [col EXCEPT ![c] = k] /\ Collects(k) BY <3>1, ReadControl
      <4> QED BY <1>0, <2>4, <4>1 DEF Collects, TypeInv
    <3>2. CASE collector_init(c)
      BY <1>0, <2>2, <2>4, <3>2 DEF collector_init, TypeInv, Collecting
    <3>3. CASE ReadError(c)
      <4>1. PICK k \in ColType : k = col[c] BY <1>0 DEF TypeInv
      <4>2. [k EXCEPT !.pc = "stopped"].pc = "stopped" BY DEF ColType
      <4>3. col' = [col EXCEPT ![c] = [k EXCEPT !.pc = "stopped"]] BY <3>3, <4>1 DEF ReadError
      <4> QED BY <1>0, <2>4, <4>2, <4>3 DEF TypeInv
    <3>4. CASE ReadNothing(c) \/ MainTest(c) \/ MainWait(c) \/ collector_destroy(c) \/ Reset(c)
      BY <2>2, <2>4, <3>4 DEF ReadNothing, MainTest, MainWait, collector_destroy, Reset, vars, clientVars
    <3> QED BY <1>2, <3>1, <3>2, <3>3, <3>4 DEF ClientStep
  <2> QED BY <2>3, <2>4
<1> QED BY <1>1, <1>2

\* A thread's descriptor, and the size of the chunk it writes, step by step.
LEMMA ThreadStep ==
    ASSUME Control,
           GeneratorFails \/ \E c \in Clients : ServerStep(c) \/ ReadStep(c) \/ ClientStep(c),
           NEW o \in Clients
    PROVE  ThreadInv(o)'
<1>0. TypeInv /\ ThreadInv(o) /\ gen[o] \in GenType BY ThreadFields DEF Control
<1>1. PICK g \in GenType : g = gen[o] BY <1>0
<1>2. CASE Exit
  <2>1. gen'[o] = [g EXCEPT !.pc = "ended"] BY <1>1, <1>2 DEF Exit
  <2>2. [g EXCEPT !.pc = "ended"].pc = "ended" BY DEF GenType
  <2> QED BY <2>1, <2>2 DEF ThreadInv
<1>3. CASE ~Exit /\ ~\E c \in Clients : ServerStep(c)
  <2>1. PICK c \in Clients : ReadStep(c) \/ ClientStep(c) BY <1>3 DEF GeneratorFails
  <2>2. UNCHANGED <<gen, fd>> BY <2>1, ClientLeavesServer DEF serverVars
  <2> QED BY <1>0, <2>2 DEF ThreadInv
<1>4. ASSUME ~Exit, NEW c \in Clients, ServerStep(c) PROVE ThreadInv(o)'
  <2>1. CASE Accept(c)
    <3>1. PICK f \in Fds : (fd' = f /\ gen' = [gen EXCEPT ![c].pc = "created"]) \/ UNCHANGED <<fd, gen>>
      BY <1>0, <2>1 DEF Accept, TypeInv
    <3>2. CASE UNCHANGED <<fd, gen>> BY <1>0, <3>2 DEF ThreadInv
    <3>3. CASE fd' = f /\ gen' = [gen EXCEPT ![c].pc = "created"] /\ o = c
      <4>1. gen'[o] = [g EXCEPT !.pc = "created"] BY <1>0, <1>1, <3>3 DEF TypeInv
      <4>2. /\ [g EXCEPT !.pc = "created"].pc = "created" /\ [g EXCEPT !.pc = "created"].pos = g.pos
            /\ [g EXCEPT !.pc = "created"].size = g.size /\ [g EXCEPT !.pc = "created"].image = g.image
        BY DEF GenType
      <4>3. g.pc = "none" BY <1>1, <2>1, <3>3 DEF Accept, Waiting
      <4> QED BY <1>0, <1>1, <3>1, <3>3, <4>1, <4>2, <4>3 DEF ThreadInv
    <3>4. CASE fd' = f /\ gen' = [gen EXCEPT ![c].pc = "created"] /\ o # c
      <4>1. gen'[o] = g BY <1>0, <1>1, <3>4 DEF TypeInv
      <4> QED BY <1>0, <1>1, <3>1, <3>4, <4>1 DEF ThreadInv
    <3> QED BY <3>1, <3>2, <3>3, <3>4
  <2>2. CASE ~Accept(c) /\ o # c
    <3>1. gen'[o] = g /\ fd' = fd
      BY <1>0, <1>1, <1>4, <2>2 DEF TypeInv, ServerStep, generate_data_thread, ThreadStart, LoadCurr, next_image,
         ImageBefore, Goto, WriteByte, WriteFails, CloseFd, serverVars
    <3> QED BY <1>0, <1>1, <3>1 DEF ThreadInv
  <2>3. CASE ThreadStart(c) /\ o = c
    <3>1. fd \in Fds /\ g.image < 0 BY <1>0, <1>1, <2>3 DEF ThreadStart, ThreadInv
    <3>2. PICK f \in Int : f = fd BY <3>1 DEF Fds
    <3>3. gen'[o] = [g EXCEPT !.pc = "write", !.fd = f] BY <1>0, <1>1, <2>3, <3>2 DEF ThreadStart, TypeInv
    <3>4. PICK h : h = [g EXCEPT !.pc = "write", !.fd = f] OBVIOUS
    <3>5. h.pc = "write" /\ h.fd = f /\ h.image = g.image BY <3>4 DEF GenType
    <3>6. g.image \in Int BY DEF GenType
    <3> QED BY <3>1, <3>2, <3>3, <3>4, <3>5, <3>6 DEF ThreadInv
  <2>4. CASE LoadCurr(c) /\ o = c
    <3>1. gen'[o] = [g EXCEPT !.pc = "store", !.image = curr] BY <1>0, <1>1, <2>4 DEF LoadCurr, TypeInv
    <3>2. PICK h : h = [g EXCEPT !.pc = "store", !.image = curr] OBVIOUS
    <3>3. h.pc = "store" /\ h.fd = g.fd BY <3>2 DEF GenType
    <3>4. g.fd \in Fds BY <1>0, <1>1, <2>4 DEF LoadCurr, ThreadInv
    <3> QED BY <3>1, <3>2, <3>3, <3>4 DEF ThreadInv
  <2>5. CASE next_image(c) /\ o = c
    <3>1. PICK i : i = gen[c].image % DATA_CNT OBVIOUS
    <3>2. gen'[o] = [g EXCEPT !.pc = "write", !.size = DATA_SIZE, !.pos = 0, !.image = i]
      BY <1>0, <1>1, <2>5, <3>1 DEF next_image, TypeInv
    <3>3. PICK h : h = [g EXCEPT !.pc = "write", !.size = DATA_SIZE, !.pos = 0, !.image = i] OBVIOUS
    <3>4. h.pc = "write" /\ h.fd = g.fd /\ h.size = DATA_SIZE BY <3>3 DEF GenType
    <3>5. g.fd \in Fds BY <1>0, <1>1, <2>5 DEF next_image, StoreCurr, ThreadInv
    <3> QED BY <3>2, <3>3, <3>4, <3>5 DEF ThreadInv
  <2>6. CASE ImageBefore(c) /\ o = c
    <3>1. g.fd \in Fds /\ g.image < 0 /\ g.image \in Int
      BY <1>0, <1>1, <2>6 DEF ImageBefore, StoreCurr, ThreadInv, GenType
    <3>2. ASSUME NEW s, gen' = [gen EXCEPT ![c].pc = "write", ![c].size = s, ![c].pos = 0]
          PROVE  ThreadInv(o)'
      <4>1. gen'[o] = [g EXCEPT !.pc = "write", !.size = s, !.pos = 0] BY <1>0, <1>1, <2>6, <3>2 DEF TypeInv
      <4>2. PICK h : h = [g EXCEPT !.pc = "write", !.size = s, !.pos = 0] OBVIOUS
      <4>3. h.pc = "write" /\ h.fd = g.fd /\ h.image = g.image BY <4>2 DEF GenType
      <4> QED BY <3>1, <4>1, <4>2, <4>3 DEF ThreadInv
    <3>3. CASE Goto(c, "close")
      <4>1. gen'[o] = [g EXCEPT !.pc = "close"] BY <1>0, <1>1, <2>6, <3>3 DEF Goto, TypeInv
      <4>2. [g EXCEPT !.pc = "close"].pc = "close" /\ [g EXCEPT !.pc = "close"].fd = g.fd BY DEF GenType
      <4> QED BY <3>1, <4>1, <4>2 DEF ThreadInv
    <3> QED BY <1>4, <2>6, <3>2, <3>3 DEF ImageBefore
  <2>7. CASE WriteByte(c) /\ o = c
    <3>1. PICK p : p = gen[c].pos + 1 OBVIOUS
    <3>2. gen'[o] = [g EXCEPT !.pos = p] BY <1>0, <1>1, <2>7, <3>1 DEF WriteByte, TypeInv
    <3>3. PICK h : h = [g EXCEPT !.pos = p] OBVIOUS
    <3>4. h.pc = g.pc /\ h.fd = g.fd /\ h.image = g.image /\ h.size = g.size BY <3>3 DEF GenType
    <3>5. g.pc = "write" BY <1>1, <2>7 DEF WriteByte
    <3> QED BY <1>0, <1>1, <3>2, <3>3, <3>4, <3>5 DEF ThreadInv
  <2>8. CASE WriteFails(c) /\ o = c
    <3>1. gen'[o] = [g EXCEPT !.pc = "close"] BY <1>0, <1>1, <2>8 DEF WriteFails, Goto, TypeInv
    <3>2. [g EXCEPT !.pc = "close"].pc = "close" /\ [g EXCEPT !.pc = "close"].fd = g.fd BY DEF GenType
    <3>3. g.fd \in Fds BY <1>0, <1>1, <2>8 DEF WriteFails, ThreadInv
    <3> QED BY <3>1, <3>2, <3>3 DEF ThreadInv
  <2>9. CASE CloseFd(c) /\ o = c
    <3>1. gen'[o] = [g EXCEPT !.pc = "ended"] BY <1>0, <1>1, <2>9 DEF CloseFd, Goto, TypeInv
    <3>2. [g EXCEPT !.pc = "ended"].pc = "ended" BY DEF GenType
    <3> QED BY <3>1, <3>2 DEF ThreadInv
  <2> QED BY <1>4, <2>1, <2>2, <2>3, <2>4, <2>5, <2>6, <2>7, <2>8, <2>9 DEF ServerStep, generate_data_thread
<1> QED BY <1>2, <1>3, <1>4

\* The collector's state and its client's, step by step.
LEMMA CollectorStep ==
    ASSUME Control,
           GeneratorFails \/ \E c \in Clients : ServerStep(c) \/ ReadStep(c) \/ ClientStep(c),
           NEW o \in Clients
    PROVE  CollectorInv(o)'
<1>0. TypeInv /\ CollectorInv(o) BY DEF Control
<1>1. CASE GeneratorFails \/ \E c \in Clients : ServerStep(c)
  <2>1. UNCHANGED <<col, main>> /\ (ended[o] = "reset" <=> ended'[o] = "reset")
    BY <1>0, <1>1, ServerLeavesClients
  <2> QED BY <1>0, <2>1 DEF CollectorInv
<1>2. ASSUME NEW c \in Clients, ReadStep(c) \/ ClientStep(c), o # c PROVE CollectorInv(o)'
  <2>1. UNCHANGED <<col[o], ended[o], main[o]>> BY <1>2, ClientAlone
  <2> QED BY <1>0, <2>1 DEF CollectorInv
<1>3. CASE ReadStep(o)
  <2>1. PICK k \in ColType : col' = [col EXCEPT ![o] = k] /\ Collects(k) BY <1>3, ReadControl
  <2>2. UNCHANGED <<ended, main>> /\ Readable(o) BY <1>3, ReadControl
  <2>3. col'[o] = k BY <1>0, <2>1 DEF TypeInv
  <2>4. main[o] # "init" BY <1>0, <2>2 DEF CollectorInv, Readable, Running
  <2> QED BY <2>1, <2>2, <2>3, <2>4 DEF CollectorInv, Collects
<1>4. CASE collector_init(o)
  <2>1. main'[o] # "init" /\ ended' = ended BY <1>0, <1>4 DEF collector_init, TypeInv
  <2>2. CASE col' = [col EXCEPT ![o] = Collecting]
    <3>1. col'[o] = Collecting BY <1>0, <2>2 DEF TypeInv
    <3>2. Len(<< >>) = 0 BY EmptySeq
    <3>3. /\ Collecting.pc = "run" /\ ~Collecting.header_ok /\ Collecting.buf = << >>
          /\ Collecting.rest = H
      BY DEF Collecting
    <3>4. Len(Collecting.buf) < H /\ Collecting.rest = H - Len(Collecting.buf) BY <3>2, <3>3, Sizes
    <3> QED BY <2>1, <3>1, <3>3, <3>4 DEF CollectorInv
  <2>3. CASE UNCHANGED col BY <1>0, <2>1, <2>3 DEF CollectorInv
  <2> QED BY <1>4, <2>2, <2>3 DEF collector_init
<1>5. CASE ReadError(o)
  <2>1. PICK k \in ColType : k = col[o] BY <1>0 DEF TypeInv
  <2>2. [k EXCEPT !.pc = "stopped"].pc = "stopped" BY DEF ColType
  <2>3. col'[o] = [k EXCEPT !.pc = "stopped"] BY <1>0, <1>5, <2>1 DEF ReadError, TypeInv
  <2>4. main[o] # "init" BY <1>0, <1>5 DEF CollectorInv, ReadError, Running
  <2> QED BY <1>5, <2>2, <2>3, <2>4 DEF CollectorInv, ReadError
<1>6. CASE ReadNothing(o) \/ MainTest(o) \/ MainWait(o) \/ collector_destroy(o)
  <2>1. UNCHANGED <<col, ended>> /\ (main'[o] = "init" => main[o] = "init")
    BY <1>0, <1>6 DEF ReadNothing, MainTest, MainWait, collector_destroy, vars, clientVars, TypeInv
  <2> QED BY <1>0, <2>1 DEF CollectorInv
<1>7. CASE Reset(o)
  <2>1. UNCHANGED <<col, main>> BY <1>7 DEF Reset, clientVars
  <2>2. ended'[o] = "reset" BY <1>0, <1>7 DEF Reset, TypeInv
  <2> QED BY <1>0, <2>1, <2>2 DEF CollectorInv
<1>8. CASE ClientStep(o) BY <1>4, <1>5, <1>6, <1>7, <1>8 DEF ClientStep
<1> QED BY <1>1, <1>2, <1>3, <1>8

\* Types, descriptors and what the collectors wait for stay as they should.
LEMMA ControlStep == Control /\ Next => Control'
<1> SUFFICES ASSUME Control, Next PROVE Control' OBVIOUS
<1>1. GeneratorFails \/ \E c \in Clients : ServerStep(c) \/ ReadStep(c) \/ ClientStep(c)
  BY DEF Next, cvclient, collect_data_thread, ServerStep, ReadStep, ClientStep
<1>2. TypeInv'
  <2>1. CASE GeneratorFails \/ \E c \in Clients : ServerStep(c) BY <2>1, ServerTypes
  <2>2. ASSUME NEW c \in Clients, ReadStep(c) \/ ClientStep(c) PROVE TypeInv' BY <2>2, ClientTypes
  <2> QED BY <1>1, <2>1, <2>2
<1>3. Connected' BY <1>1, ConnectedStep
<1>4. \A o \in Clients : ThreadInv(o)' /\ CollectorInv(o)' BY <1>1, ThreadStep, CollectorStep
<1> QED BY <1>2, <1>3, <1>4 DEF Control

-----------------------------------------------------------------------------
\* The threads in the middle of an image for t are the same, and as far.
WritersStay(t) ==
    \A o \in Clients :
        /\ Writes(o, t)' <=> Writes(o, t)
        /\ Writes(o, t) => gen'[o].image = gen[o].image /\ gen'[o].pos = gen[o].pos

\* A step that moves no byte of t's connection.
Quiet(t) ==
    /\ stream'[t] = stream[t] /\ sent'[t] = sent[t] /\ delivered'[t] = delivered[t]
    /\ col'[t].buf = col[t].buf /\ col'[t].header_ok = col[t].header_ok /\ col'[t].rest = col[t].rest
    /\ col'[t].frame_id = col[t].frame_id /\ col'[t].reads = col[t].reads
    /\ col'[t].pc # "wild"
    /\ ended'[t] # "reset" => ended[t] # "reset"
    /\ ended'[t] = "no" => ended[t] = "no" /\ WritersStay(t)

\* Where no byte moves the connection stays aligned.
LEMMA QuietKeeps ==
    ASSUME NEW t \in Clients, Aligned(t), Quiet(t)
    PROVE  Aligned(t)'
<1>1. Consumed(t)' = Consumed(t) BY DEF Quiet, Consumed, Gathered
<1>2. DeliveredInOrder(t)' BY DEF Quiet, DeliveredInOrder, Aligned
<1>3. ASSUME Assembly(t) PROVE Assembly(t)' BY <1>3 DEF Assembly, Quiet
<1>4. ASSUME InTransit(t) PROVE InTransit(t)' BY <1>1, <1>4 DEF InTransit, Quiet
<1>5. ASSUME Written(t), WritersStay(t) PROVE Written(t)'
  BY <1>1, <1>5 DEF Written, WritersStay, Quiet
<1> QED BY <1>2, <1>3, <1>4, <1>5 DEF Aligned, Quiet

\* Only thread c moves, and it does not write to t.
LEMMA WritersElsewhere ==
    ASSUME NEW t \in Clients, NEW c \in Clients, UNCHANGED conn,
           \A o \in Clients \ {c} : gen'[o] = gen[o],
           ~Writes(c, t), ~Writes(c, t)'
    PROVE  WritersStay(t)
BY DEF WritersStay, Writes, Writing, Target

\* The end of the server.
LEMMA ExitQuiet ==
    ASSUME Control, Exit, UNCHANGED <<stream, sent, delivered, col>>, NEW t \in Clients, Aligned(t)
    PROVE  Quiet(t)
<1>1. ASSUME ended'[t] = "no" PROVE ended[t] = "no" /\ WritersStay(t)
  <2>1. ended[t] = "no" /\ col[t].pc # "run" BY <1>1 DEF Exit
  <2>2. col[t].pc = "none"
    <3>1. col[t].pc \in {"none", "run", "stopped", "wild"} BY CollectorFields DEF Control, TypeInv
    <3>2. col[t].pc # "stopped" /\ col[t].pc # "wild" BY <2>1 DEF Aligned, Control, CollectorInv
    <3> QED BY <2>1, <3>1, <3>2
  <2>3. ASSUME NEW o \in Clients PROVE ~Writes(o, t)
    <3>1. Writing(o) => gen[o].fd \in Fds BY DEF Writing, Control, ThreadInv
    <3>2. t # None BY Sizes
    <3> QED BY <2>2, <3>1, <3>2 DEF Writes, Target, Control, Connected
  <2>4. ASSUME NEW o \in Clients PROVE ~Writes(o, t)'
    <3>1. PICK g \in GenType : g = gen[o] BY DEF Control, TypeInv
    <3>2. gen'[o] = [g EXCEPT !.pc = "ended"] BY <3>1 DEF Exit
    <3>3. [g EXCEPT !.pc = "ended"].pc = "ended" BY DEF GenType
    <3> QED BY <3>2, <3>3 DEF Writes, Writing
  <2> QED BY <2>1, <2>3, <2>4 DEF WritersStay
<1>2. ended'[t] # "reset" => ended[t] # "reset" BY DEF Exit
<1> QED BY <1>1, <1>2 DEF Quiet, Aligned

\* A client that is accepted gets a descriptor nobody is in the middle of an image with.
LEMMA AcceptQuiet ==
    ASSUME Control, NEW c \in Clients, Accept(c), NEW t \in Clients, Aligned(t), clean'[t]
    PROVE  Quiet(t)
<1>0. TypeInv BY DEF Control
<1>1. PICK f \in Fds :
         /\ conn[f] = None /\ conn' = [conn EXCEPT ![f] = c]
         /\ (gen' = [gen EXCEPT ![c].pc = "created"]) \/ UNCHANGED gen
         /\ clean' = [clean EXCEPT ![c] = clean[c] /\ \A o \in Clients : gen[o].fd = f => ~Writing(o)]
  BY <1>0 DEF Accept, TypeInv
<1>2. gen[c].pc = "none" /\ \A e \in Fds : conn[e] # c BY <1>0 DEF Accept, Waiting, TypeInv
<1>3. ASSUME NEW o \in Clients PROVE (Writing(o)' <=> Writing(o)) /\ (Writing(o) => gen'[o] = gen[o])
  <2>1. CASE gen'[o] = gen[o] BY <2>1 DEF Writing
  <2>2. CASE o = c /\ gen' = [gen EXCEPT ![c].pc = "created"]
    <3>1. PICK g \in GenType : g = gen[c] BY <1>0 DEF TypeInv
    <3>2. gen'[c] = [g EXCEPT !.pc = "created"] BY <1>0, <2>2, <3>1 DEF TypeInv
    <3>3. [g EXCEPT !.pc = "created"].pc = "created" BY DEF GenType
    <3> QED BY <1>2, <2>2, <3>2, <3>3 DEF Writing
  <2> QED BY <1>0, <1>1, <2>1, <2>2 DEF TypeInv
<1>4. ASSUME NEW o \in Clients PROVE Writes(o, t)' <=> Writes(o, t)
  <2>1. SUFFICES ASSUME Writing(o) PROVE (Target(o)' = t) <=> (Target(o) = t)
    BY <1>3 DEF Writes
  <2>2. gen[o].fd \in Fds /\ gen'[o] = gen[o] BY <1>3, <2>1 DEF Writing, Control, ThreadInv
  <2>3. CASE gen[o].fd # f
    <3>1. conn'[gen[o].fd] = conn[gen[o].fd] BY <1>0, <1>1, <2>2, <2>3 DEF TypeInv
    <3> QED BY <2>2, <3>1 DEF Target
  <2>4. CASE gen[o].fd = f
    <3>1. t # c BY <1>0, <1>1, <2>1, <2>4 DEF TypeInv
    <3>2. Target(o)' = c /\ Target(o) = None BY <1>0, <1>1, <2>2, <2>4 DEF TypeInv, Target
    <3>3. t # None BY Sizes
    <3> QED BY <3>1, <3>2, <3>3
  <2> QED BY <2>3, <2>4
<1>5. WritersStay(t)
  <2>1. \A o \in Clients : Writes(o, t) => gen'[o] = gen[o] BY <1>3 DEF Writes
  <2> QED BY <1>4, <2>1 DEF WritersStay
<1> QED BY <1>5 DEF Quiet, Accept, clientVars, Aligned

\* A thread between two images, or which finds its connection broken.
LEMMA ThreadQuiet ==
    ASSUME Control, NEW c \in Clients,
           ThreadStart(c) \/ LoadCurr(c) \/ next_image(c) \/ (ImageBefore(c) /\ ~Exit) \/ WriteFails(c),
           NEW t \in Clients, Aligned(t)
    PROVE  Quiet(t)
<1>0. TypeInv /\ ThreadInv(c) BY DEF Control
<1>1. PICK g \in GenType : g = gen[c] BY <1>0 DEF TypeInv
<1>2. UNCHANGED <<stream, sent, delivered, col, ended, conn>>
  BY DEF ThreadStart, LoadCurr, next_image, ImageBefore, WriteFails, clientVars, history, serverVars
<1>3. \A o \in Clients \ {c} : gen'[o] = gen[o]
  BY <1>0 DEF TypeInv, ThreadStart, LoadCurr, next_image, ImageBefore, Goto, WriteFails
<1>4. ~Writing(c)'
  <2>1. CASE ThreadStart(c)
    <3>1. g.pos = 0 BY <1>0, <1>1, <2>1 DEF ThreadStart, ThreadInv
    <3>2. gen'[c] = [g EXCEPT !.pc = "write", !.fd = fd] BY <1>0, <1>1, <2>1 DEF ThreadStart, TypeInv
    <3>3. [g EXCEPT !.pc = "write", !.fd = fd].pos = g.pos BY DEF GenType
    <3> QED BY <3>1, <3>2, <3>3 DEF Writing
  <2>2. CASE LoadCurr(c)
    <3>1. gen'[c] = [g EXCEPT !.pc = "store", !.image = curr] BY <1>0, <1>1, <2>2 DEF LoadCurr, TypeInv
    <3>2. [g EXCEPT !.pc = "store", !.image = curr].pc = "store" BY DEF GenType
    <3> QED BY <3>1, <3>2 DEF Writing
  <2>3. CASE next_image(c)
    <3>1. PICK i : i = gen[c].image % DATA_CNT OBVIOUS
    <3>2. gen'[c] = [g EXCEPT !.pc = "write", !.size = DATA_SIZE, !.pos = 0, !.image = i]
      BY <1>0, <1>1, <2>3, <3>1 DEF next_image, TypeInv
    <3>3. [g EXCEPT !.pc = "write", !.size = DATA_SIZE, !.pos = 0, !.image = i].pos = 0 BY DEF GenType
    <3> QED BY <3>2, <3>3 DEF Writing
  <2>4. CASE ImageBefore(c) /\ ~Exit
    <3>1. ASSUME NEW s, gen' = [gen EXCEPT ![c].pc = "write", ![c].size = s, ![c].pos = 0]
          PROVE  ~Writing(c)'
      <4>1. gen'[c] = [g EXCEPT !.pc = "write", !.size = s, !.pos = 0] BY <1>0, <1>1, <3>1 DEF TypeInv
      <4>2. [g EXCEPT !.pc = "write", !.size = s, !.pos = 0].pos = 0 BY DEF GenType
      <4> QED BY <4>1, <4>2 DEF Writing
    <3>2. ASSUME Goto(c, "close") PROVE ~Writing(c)'
      <4>1. gen'[c] = [g EXCEPT !.pc = "close"] BY <1>0, <1>1, <3>2 DEF Goto, TypeInv
      <4>2. [g EXCEPT !.pc = "close"].pc = "close" BY DEF GenType
      <4> QED BY <4>1, <4>2 DEF Writing
    <3> QED BY <2>4, <3>1, <3>2 DEF ImageBefore
  <2>5. CASE WriteFails(c)
    <3>1. gen'[c] = [g EXCEPT !.pc = "close"] BY <1>0, <1>1, <2>5 DEF WriteFails, Goto, TypeInv
    <3>2. [g EXCEPT !.pc = "close"].pc = "close" BY DEF GenType
    <3> QED BY <3>1, <3>2 DEF Writing
  <2> QED BY <2>1, <2>2, <2>3, <2>4, <2>5
<1>5. ended[t] = "no" => ~Writes(c, t)
  <2>1. CASE WriteFails(c)
    <3>1. t # None BY Sizes
    <3> QED BY <2>1, <3>1 DEF WriteFails, Broken, Writes
  <2>2. CASE ~WriteFails(c)
    <3>1. ~Writing(c)
      <4>1. PICK p \in Nat : p = gen[c].pos BY <1>0, ThreadFields
      <4>2. gen[c].pc \in {"created", "store"} \/ gen[c].size = p
        BY <2>2, <4>1 DEF ThreadStart, LoadCurr, next_image, ImageBefore, StoreCurr
      <4> QED BY <4>1, <4>2 DEF Writing
    <3> QED BY <3>1 DEF Writes
  <2> QED BY <2>1, <2>2
<1>6. ended[t] = "no" => WritersStay(t) BY <1>2, <1>3, <1>4, <1>5, WritersElsewhere DEF Writes
<1> QED BY <1>2, <1>6 DEF Quiet, Aligned

\* A descriptor is closed: nobody writes to its connection any more.
LEMMA CloseQuiet ==
    ASSUME Control, NEW c \in Clients, CloseFd(c), NEW t \in Clients, Aligned(t)
    PROVE  Quiet(t)
<1>0. TypeInv BY DEF Control
<1>1. PICK f \in Fds : f = gen[c].fd BY DEF CloseFd, Control, ThreadInv
<1>2. conn' = [conn EXCEPT ![f] = None] /\ t # None BY <1>1, Sizes DEF CloseFd
<1>3. ended' = ended \/ (ended' = [ended EXCEPT ![Target(c)] = "eof"] /\ ~Broken(c))
  BY DEF CloseFd
<1>4. ended[t] = "reset" => ended'[t] = "reset"
  <2>1. ~Broken(c) => ended[Target(c)] = "no" BY DEF Broken
  <2> QED BY <1>0, <1>3, <2>1 DEF TypeInv
<1>5. ended'[t] = "no" => ended[t] = "no" /\ Target(c) # t
  <2>1. CASE Target(c) = t
    <3>1. Broken(c) <=> ended[t] # "no" BY <1>2, <2>1 DEF Broken
    <3>2. ended[t] = "no" => ended'[t] = "eof" BY <1>0, <2>1, <3>1 DEF CloseFd, TypeInv
    <3>3. ended[t] # "no" => ended'[t] = ended[t] BY <3>1 DEF CloseFd
    <3> QED BY <3>2, <3>3
  <2>2. CASE Target(c) # t
    <3>1. ended'[t] = "no" => ended[t] = "no" BY <1>0, <1>3, <2>2 DEF TypeInv
    <3> QED BY <2>2, <3>1
  <2> QED BY <2>1, <2>2
<1>6. ASSUME Target(c) # t, NEW o \in Clients
      PROVE  /\ Writes(o, t)' <=> Writes(o, t)
             /\ Writes(o, t) => gen'[o].image = gen[o].image /\ gen'[o].pos = gen[o].pos
  <2>1. CASE o = c
    <3>1. PICK g \in GenType : g = gen[c] BY <1>0 DEF TypeInv
    <3>2. gen'[c] = [g EXCEPT !.pc = "ended"] BY <1>0, <3>1 DEF CloseFd, Goto, TypeInv
    <3>3. [g EXCEPT !.pc = "ended"].pc = "ended" BY DEF GenType
    <3>4. ~Writes(o, t)' BY <2>1, <3>2, <3>3 DEF Writes, Writing
    <3>5. ~Writes(o, t) BY <2>1, <1>6 DEF Writes
    <3> QED BY <3>4, <3>5
  <2>2. CASE o # c
    <3>1. gen'[o] = gen[o] BY <1>0, <2>2 DEF CloseFd, Goto, TypeInv
    <3>2. Writing(o) => gen[o].fd \in Fds BY DEF Writing, Control, ThreadInv
    <3>3. ASSUME NEW e \in Fds PROVE (conn'[e] = t) <=> (conn[e] = t)
      BY <1>0, <1>1, <1>2, <1>6 DEF TypeInv, Target
    <3>4. (Writing(o)' <=> Writing(o)) /\ Target(o)' = conn'[gen[o].fd] BY <3>1 DEF Writing, Target
    <3> QED BY <3>1, <3>2, <3>3, <3>4 DEF Writes, Target
  <2> QED BY <2>1, <2>2
<1>7. Target(c) # t => WritersStay(t) BY <1>6 DEF WritersStay
<1>8. UNCHANGED <<stream, sent, delivered, col>> BY DEF CloseFd, clientVars, history
<1> QED BY <1>4, <1>5, <1>7, <1>8 DEF Quiet, Aligned

\* What a client does apart from reading.
LEMMA ClientQuiet ==
    ASSUME Control, NEW c \in Clients, ClientStep(c), ~Reset(c), NEW t \in Clients, Aligned(t)
    PROVE  Quiet(t)
<1>0. TypeInv BY DEF Control
<1>1. UNCHANGED <<stream, sent, delivered, ended, gen, conn>>
  BY DEF ClientStep, collector_init, ReadNothing, ReadError, MainTest, MainWait, collector_destroy,
         vars, history, serverVars
<1>2. WritersStay(t) BY <1>1 DEF WritersStay, Writes, Writing, Target
<1>3. CASE UNCHANGED col[t] BY <1>1, <1>2, <1>3 DEF Quiet, Aligned
<1>4. CASE collector_init(c) /\ t = c /\ ~UNCHANGED col[t]
  <2>1. col'[t] = Collecting BY <1>0, <1>4 DEF collector_init, TypeInv
  <2>2. col[t] = [Collecting EXCEPT !.pc = "none"] BY <1>4 DEF collector_init, Control, CollectorInv
  <2>3. /\ col'[t].buf = col[t].buf /\ col'[t].header_ok = col[t].header_ok /\ col'[t].rest = col[t].rest
        /\ col'[t].frame_id = col[t].frame_id /\ col'[t].reads = col[t].reads /\ col'[t].pc = "run"
    BY <2>1, <2>2 DEF Collecting
  <2> QED BY <1>1, <1>2, <2>3 DEF Quiet
<1>5. CASE ReadError(c) /\ t = c
  <2>1. PICK k \in ColType : k = col[t] BY <1>0 DEF TypeInv
  <2>2. col'[t] = [k EXCEPT !.pc = "stopped"] BY <1>0, <1>5, <2>1 DEF ReadError, TypeInv
  <2>3. PICK n : n = [k EXCEPT !.pc = "stopped"] OBVIOUS
  <2>4. /\ n.buf = k.buf /\ n.header_ok = k.header_ok /\ n.rest = k.rest
        /\ n.frame_id = k.frame_id /\ n.reads = k.reads /\ n.pc = "stopped"
    BY <2>3 DEF ColType
  <2> QED BY <1>1, <1>2, <2>1, <2>2, <2>3, <2>4 DEF Quiet
<1>6. CASE t # c
  <2>1. UNCHANGED col[t] BY <1>6, ClientAlone
  <2> QED BY <1>3, <2>1
<1>7. CASE ~collector_init(c) /\ ~ReadError(c)
  <2>1. UNCHANGED col
    BY <1>7 DEF ClientStep, ReadNothing, MainTest, MainWait, collector_destroy, vars, clientVars
  <2> QED BY <1>3, <2>1
<1> QED BY <1>3, <1>4, <1>5, <1>6, <1>7

\* A client's step leaves the connection of another client alone.
LEMMA OtherQuiet ==
    ASSUME Control, NEW c \in Clients, ReadStep(c) \/ ClientStep(c),
           NEW t \in Clients, t # c, Aligned(t)
    PROVE  Quiet(t)
<1>1. UNCHANGED <<col[t], stream[t], ended[t], delivered[t]>> BY ClientAlone
<1>2. UNCHANGED <<gen, conn, sent>> BY ClientLeavesServer DEF serverVars
<1>3. WritersStay(t) BY <1>2 DEF WritersStay, Writes, Writing, Target
<1> QED BY <1>1, <1>2, <1>3 DEF Quiet, Aligned

\* A connection that is reset delivers nothing more.
LEMMA ResetKeeps ==
    ASSUME Control, NEW c \in Clients, Reset(c), Aligned(c)
    PROVE  Aligned(c)'
<1>1. UNCHANGED <<col, sent, delivered>> BY DEF Reset, clientVars
<1>2. ended'[c] = "reset" BY DEF Reset, Control, TypeInv
<1> QED BY <1>1, <1>2 DEF Aligned, DeliveredInOrder

\* A byte written by a thread to another connection.
LEMMA WriteQuiet ==
    ASSUME Control, NEW c \in Clients, WriteByte(c), NEW t \in Clients, t # Target(c), Aligned(t)
    PROVE  Quiet(t)
<1>0. TypeInv BY DEF Control
<1>1. UNCHANGED <<stream[t], sent[t]>> BY <1>0 DEF WriteByte, TypeInv
<1>2. UNCHANGED <<delivered, col, ended, conn>> BY DEF WriteByte, clientVars, serverVars
<1>3. \A o \in Clients \ {c} : gen'[o] = gen[o] BY <1>0 DEF WriteByte, TypeInv
<1>4. Target(c)' = Target(c)
  <2>1. PICK g \in GenType : g = gen[c] BY <1>0 DEF TypeInv
  <2>2. PICK p : p = gen[c].pos + 1 OBVIOUS
  <2>3. gen'[c] = [g EXCEPT !.pos = p] BY <1>0, <2>1, <2>2 DEF WriteByte, TypeInv
  <2>4. [g EXCEPT !.pos = p].fd = g.fd BY DEF GenType
  <2> QED BY <1>2, <2>1, <2>3, <2>4 DEF Target
<1>5. WritersStay(t) BY <1>2, <1>3, <1>4, WritersElsewhere DEF Writes
<1> QED BY <1>1, <1>2, <1>5 DEF Quiet, Aligned

-----------------------------------------------------------------------------
\* The numbers of a connection: images sent and delivered, bytes gathered,
\* consumed and on their way.
LEMMA Numbers ==
    ASSUME TypeInv, NEW c \in Clients
    PROVE  /\ Len(sent[c]) \in Nat /\ Len(delivered[c]) \in Nat /\ Len(stream[c]) \in Nat
           /\ Len(col[c].buf) \in Nat /\ col[c].header_ok \in BOOLEAN
           /\ Consumed(c) = Off(Len(delivered[c])) + (IF col[c].header_ok THEN H ELSE 0) + Len(col[c].buf)
           /\ Consumed(c) \in Nat
<1>1. Len(sent[c]) \in Nat /\ Len(delivered[c]) \in Nat /\ Len(stream[c]) \in Nat BY DEF TypeInv
<1>2. PICK n \in Nat : n = Len(col[c].buf) BY CollectorFields DEF TypeInv
<1>3. PICK o \in Nat : o = Off(Len(delivered[c])) BY <1>1, OffFacts
<1>4. PICK h \in Nat : h = IF col[c].header_ok THEN H ELSE 0 BY Sizes
<1>5. Consumed(c) = o + (h + n) BY <1>2, <1>3, <1>4 DEF Consumed, Gathered
<1>6. col[c].header_ok \in BOOLEAN BY CollectorFields DEF TypeInv
<1>7. Consumed(c) = o + h + n /\ Consumed(c) \in Nat BY <1>5
<1>8. Consumed(c) = Off(Len(delivered[c])) + (IF col[c].header_ok THEN H ELSE 0) + Len(col[c].buf)
  BY <1>2, <1>3, <1>4, <1>7
<1> QED BY <1>1, <1>2, <1>6, <1>7, <1>8

\* A thread's byte goes behind those on their way, in the image written last.
LEMMA WriteKeeps ==
    ASSUME Control, NEW c \in Clients, WriteByte(c), NEW t \in Clients, t = Target(c),
           Aligned(t), clean'[t]
    PROVE  Aligned(t)'
<1>0. TypeInv BY DEF Control
<1>1. PICK p \in Nat : p = gen[c].pos BY <1>0, ThreadFields
<1>2. PICK i \in Int : i = gen[c].image BY <1>0, ThreadFields
<1>3. PICK u \in Seq(Byte) : u = stream[t] BY <1>0 DEF TypeInv
<1>4. PICK s \in Seq(Int) : s = sent[t] BY <1>0 DEF TypeInv
<1>5. PICK l \in Nat : l = Len(u) OBVIOUS
<1>6. PICK n \in Nat : n = Len(s) OBVIOUS
<1>7. PICK d \in Nat : d = DATA_SIZE /\ d > 0 BY Sizes
<1>8. PICK w \in Nat : w = Consumed(t) BY <1>0, Numbers
<1>9. PICK e \in Nat : e = Len(delivered[t]) BY <1>0, Numbers
<1>10. ended[t] = "no" BY Sizes DEF WriteByte, Broken
<1>11. /\ \A k \in 1 .. n : s[k] >= 0
       /\ Assembly(t) /\ InTransit(t) /\ Written(t) /\ DeliveredInOrder(t) /\ col[t].pc # "wild"
  BY <1>4, <1>6, <1>10 DEF Aligned
<1>12. i >= 0 /\ \A o \in Clients \ {c} : ~Writes(o, t)
  <2>1. clean'[t] = (clean[t] /\ gen[c].image >= 0
                     /\ \A o \in Clients \ {c} : Writing(o) => Target(o) # t)
    BY <1>0 DEF WriteByte, TypeInv
  <2> QED BY <1>2, <2>1 DEF Writes
<1>13. gen[c].size = d /\ p < d
  BY <1>1, <1>2, <1>7, <1>12 DEF WriteByte, Control, ThreadInv
<1>14. UNCHANGED <<delivered, col, ended, conn>> BY DEF WriteByte, clientVars, serverVars
<1>15. Consumed(t)' = w BY <1>8, <1>14 DEF Consumed
<1>16. PICK v : v = stream'[t] OBVIOUS
<1>17. v \in Seq(Byte) /\ Len(v) = l + 1 /\ v[l + 1] = <<i, p + 1>> /\ \A j \in 1 .. l : v[j] = u[j]
  <2>1. v = Append(u, <<i, p + 1>>) BY <1>0, <1>1, <1>2, <1>3, <1>16 DEF WriteByte, TypeInv
  <2>2. <<i, p + 1>> \in Byte BY DEF Byte
  <2> QED BY <1>5, <2>1, <2>2, AppendProperties
<1>18. PICK z : z = sent'[t] OBVIOUS
<1>19. z = IF p > 0 THEN s ELSE Append(s, i)
  BY <1>0, <1>1, <1>2, <1>4, <1>18 DEF WriteByte, TypeInv
<1>20. PICK m \in Nat : m = Len(z) BY <1>19, AppendProperties
<1>21. /\ m > 0 /\ z[m] = i /\ n <= m /\ (\A k \in 1 .. n : z[k] = s[k])
       /\ w + l = Off(m - 1) + p /\ (n < m => p = 0 /\ m = n + 1)
  <2>1. CASE p > 0
    <3>1. Writes(c, t) BY <1>1, <1>13, <2>1 DEF WriteByte, Writes, Writing
    <3>2. n > 0 /\ i = s[n] /\ w + l = Off(n - 1) + p
      BY <1>1, <1>2, <1>3, <1>4, <1>5, <1>6, <1>8, <1>11, <3>1 DEF Written
    <3>3. m = n /\ z = s BY <1>6, <1>19, <1>20, <2>1
    <3> QED BY <3>2, <3>3
  <2>2. CASE p = 0
    <3>0. ~Writes(c, t) BY <1>1, <2>2 DEF Writes, Writing
    <3>1. \A o \in Clients : ~Writes(o, t) BY <1>12, <3>0
    <3>2. w + l = Off(n) BY <1>3, <1>4, <1>5, <1>6, <1>8, <1>11, <3>1 DEF Written
    <3>3. z = Append(s, i) BY <1>19, <2>2
    <3>4. m = n + 1 /\ z[n + 1] = i /\ \A k \in 1 .. n : z[k] = s[k]
      BY <1>6, <1>20, <3>3, AppendProperties
    <3>5. m - 1 = n BY <3>4
    <3>6. Off(m - 1) = Off(n) /\ Off(n) \in Nat BY <3>5, OffFacts
    <3> QED BY <2>2, <3>2, <3>4, <3>6
  <2> QED BY <2>1, <2>2
<1>22. \A k \in 1 .. m : z[k] >= 0
  <2>1. SUFFICES ASSUME NEW k \in 1 .. m PROVE z[k] >= 0 OBVIOUS
  <2>2. k \in 1 .. n \/ k = m BY <1>21
  <2> QED BY <1>11, <1>12, <1>21, <2>2
<1>23. DeliveredInOrder(t)'
  <2>1. e <= n /\ \A k \in 1 .. e : delivered[t][k] = s[k]
    BY <1>4, <1>6, <1>9, <1>11 DEF DeliveredInOrder
  <2>2. e <= m /\ \A k \in 1 .. e : delivered[t][k] = z[k] BY <1>21, <2>1
  <2> QED BY <1>9, <1>14, <1>18, <1>20, <2>2 DEF DeliveredInOrder
<1>24. Off(m) = Off(m - 1) + d /\ Off(m - 1) \in Nat
  <2>1. m - 1 \in Nat /\ (m - 1) + 1 = m BY <1>21
  <2> QED BY <1>7, <2>1, OffFacts
<1>25. Assembly(t)'
  <2>1. CASE e + 1 <= n
    <3>1. z[e + 1] = s[e + 1] BY <1>21, <2>1
    <3> QED BY <1>4, <1>9, <1>11, <1>14, <1>18, <3>1 DEF Assembly
  <2>2. CASE ~(e + 1 <= n)
    <3>1. e = n BY <1>4, <1>6, <1>9, <1>11, <2>2 DEF DeliveredInOrder
    <3>2. PICK g \in Nat : g = Len(col[t].buf) BY <1>0, Numbers
    <3>3. w = Off(n) + (IF col[t].header_ok THEN H ELSE 0) + g /\ Off(n) \in Nat
      BY <1>0, <1>8, <1>9, <3>1, <3>2, Numbers, OffFacts
    <3>4. w + l <= Off(n) BY <1>3, <1>4, <1>5, <1>6, <1>8, <1>11 DEF InTransit
    <3>5. ~col[t].header_ok /\ g = 0 BY <3>3, <3>4, Sizes
    <3> QED BY <1>11, <1>14, <3>2, <3>5 DEF Assembly
  <2> QED BY <2>1, <2>2
<1>26. InTransit(t)'
  <2>1. w + Len(v) <= Off(m) BY <1>13, <1>17, <1>21, <1>24
  <2>2. ASSUME NEW k \in 1 .. m, NEW f \in 1 .. d, Off(k - 1) + f - w \in 1 .. l + 1
        PROVE  v[Off(k - 1) + f - w] = <<z[k], f>>
    <3>1. PICK o \in Nat : o = Off(k - 1)
      <4>1. k - 1 \in Nat OBVIOUS
      <4> QED BY <4>1, OffFacts
    <3>2. PICK q \in Nat : q = Off(m - 1) BY <1>24
    <3>3. k < m => o + d <= q
      <4>1. k < m => k - 1 < m - 1 /\ k - 1 \in Nat /\ m - 1 \in Nat OBVIOUS
      <4> QED BY <1>7, <3>1, <3>2, <4>1, OffFacts
    <3>4. CASE o + f - w \in 1 .. l
      <4>1. o + f <= q + p BY <1>21, <3>2, <3>4
      <4>2. k \in 1 .. n BY <1>21, <3>1, <3>2, <3>3, <4>1
      <4>3. u[o + f - w] = <<s[k], f>>
        BY <1>3, <1>4, <1>5, <1>6, <1>7, <1>8, <1>11, <3>1, <3>4, <4>2 DEF InTransit
      <4> QED BY <1>17, <1>21, <3>1, <3>4, <4>2, <4>3
    <3>5. CASE o + f - w = l + 1
      <4>1. o + f = q + p + 1 BY <1>21, <3>2, <3>5
      <4>2. k = m BY <3>3, <4>1
      <4>3. f = p + 1 BY <3>1, <3>2, <4>1, <4>2
      <4> QED BY <1>17, <1>21, <3>1, <3>5, <4>2, <4>3
    <3> QED BY <2>2, <3>1, <3>4, <3>5
  <2> QED BY <1>7, <1>15, <1>16, <1>17, <1>18, <1>20, <2>1, <2>2 DEF InTransit
<1>27. /\ \A o \in Clients : Writes(o, t)' => o = c
       /\ Writes(c, t)' <=> p + 1 < d
       /\ gen'[c].image = i /\ gen'[c].pos = p + 1
  <2>1. PICK g \in GenType : g = gen[c] BY <1>0 DEF TypeInv
  <2>2. gen'[c] = [g EXCEPT !.pos = p + 1] BY <1>0, <1>1, <2>1 DEF WriteByte, TypeInv
  <2>3. PICK x : x = [g EXCEPT !.pos = p + 1] OBVIOUS
  <2>4. x.pos = p + 1 /\ x.pc = g.pc /\ x.fd = g.fd /\ x.image = g.image /\ x.size = g.size
    BY <2>3 DEF GenType
  <2>5. Writing(c)' <=> p + 1 < d
    <3>1. g.pc = "write" BY <2>1 DEF WriteByte
    <3>2. p + 1 > 0 OBVIOUS
    <3> QED BY <1>13, <2>1, <2>2, <2>3, <2>4, <3>1, <3>2 DEF Writing
  <2>6. Target(c)' = t BY <1>14, <2>1, <2>2, <2>3, <2>4 DEF Target
  <2>7. ASSUME NEW o \in Clients, o # c PROVE ~Writes(o, t)'
    <3>1. gen'[o] = gen[o] BY <1>0, <2>7 DEF WriteByte, TypeInv
    <3> QED BY <1>12, <1>14, <2>7, <3>1 DEF Writes, Writing, Target
  <2> QED BY <1>2, <2>1, <2>2, <2>3, <2>4, <2>5, <2>6, <2>7 DEF Writes
<1>28. Written(t)'
  <2>1. w + Len(v) = Off(m - 1) + (p + 1) BY <1>17, <1>21, <1>24
  <2>2. (\A o \in Clients : ~Writes(o, t)') => w + Len(v) = Off(m)
    <3>1. ~(p + 1 < d) => p + 1 = d BY <1>13
    <3> QED BY <1>24, <1>27, <2>1, <3>1
  <2>3. ASSUME NEW o \in Clients, Writes(o, t)'
        PROVE  /\ \A r \in Clients : Writes(r, t)' => r = o
               /\ m > 0 /\ gen'[o].image = z[m] /\ gen'[o].image >= 0
               /\ w + Len(v) = Off(m - 1) + gen'[o].pos
    BY <1>12, <1>21, <1>27, <2>1, <2>3
  <2> QED BY <1>15, <1>16, <1>18, <1>20, <2>2, <2>3 DEF Written
<1>29. col'[t].pc # "wild" BY <1>11, <1>14
<1>30. \A k \in 1 .. Len(sent[t])' : sent'[t][k] >= 0 BY <1>18, <1>20, <1>22
<1> QED BY <1>23, <1>25, <1>26, <1>28, <1>29, <1>30 DEF Aligned

\* What is read continues the image whose turn it is.
LEMMA ReadImage ==
    ASSUME Control, NEW c \in Clients, Readable(c), Aligned(c),
           NEW b, b = Bytes(c), NEW k, k = Received(c),
           NEW h, h = IF col[c].header_ok THEN H ELSE 0
    PROVE  /\ Len(delivered[c]) + 1 <= Len(sent[c])
           /\ h + Len(k.buf) <= DATA_SIZE
           /\ \A j \in 1 .. Len(k.buf) : k.buf[j] = <<sent[c][Len(delivered[c]) + 1], h + j>>
           /\ k.header_ok => Len(k.buf) <= R
<1>0. TypeInv BY DEF Control
<1>1. PICK u \in Seq(Byte) : u = stream[c] BY <1>0 DEF TypeInv
<1>2. PICK l \in Nat : l = Len(u) OBVIOUS
<1>3. PICK e \in Nat : e = Len(delivered[c]) BY <1>0, Numbers
<1>4. PICK n \in Nat : n = Len(sent[c]) BY <1>0, Numbers
<1>5. PICK g \in Nat : g = Len(col[c].buf) BY <1>0, Numbers
<1>6. h \in Nat /\ (col[c].header_ok => h = H) /\ (~col[c].header_ok => h = 0) BY Sizes
<1>7. PICK w \in Nat : w = Consumed(c) BY <1>0, Numbers
<1>8. PICK o \in Nat : o = Off(e) BY OffFacts
<1>9. w = o + h + g BY <1>0, <1>3, <1>5, <1>7, <1>8, Numbers
<1>10. /\ b \in Nat /\ 1 <= b /\ b <= l /\ b <= col[c].rest
       /\ k.header_ok = col[c].header_ok /\ Len(k.buf) = g + b
       /\ \A j \in 1 .. g + b : k.buf[j] = IF j <= g THEN col[c].buf[j] ELSE u[j - g]
       /\ ~k.header_ok => Len(k.buf) <= H
  BY <1>1, <1>2, <1>5, ReadFacts
<1>11. Assembly(c) /\ InTransit(c) BY DEF Readable, Aligned
<1>12. w + l <= Off(n) BY <1>1, <1>2, <1>4, <1>7, <1>11 DEF InTransit
<1>13. e + 1 <= n
  <2>1. n <= e => Off(n) <= o
    <3>1. PICK x \in Nat : x = Off(n) BY OffFacts
    <3>2. n < e => x + DATA_SIZE <= o BY <1>8, <3>1, OffFacts
    <3> QED BY <1>8, <3>1, <3>2, Sizes
  <2>2. Off(n) > o
    <3>1. PICK x \in Nat : x = Off(n) BY OffFacts
    <3> QED BY <1>6, <1>9, <1>10, <1>12, <3>1
  <2>3. Off(n) \in Nat BY OffFacts
  <2> QED BY <2>1, <2>2, <2>3
<1>14. col[c].header_ok => g + b <= R
  <2>1. col[c].header_ok => col[c].rest = R - g BY <1>5, <1>11 DEF Assembly
  <2> QED BY <1>10, <2>1, Sizes
<1>15. h + g + b <= DATA_SIZE BY <1>6, <1>10, <1>14, Sizes
<1>16. ASSUME NEW j \in 1 .. g + b PROVE k.buf[j] = <<sent[c][e + 1], h + j>>
  <2>1. CASE j <= g
    <3>1. col[c].buf[j] = <<sent[c][e + 1], h + j>>
      BY <1>3, <1>5, <1>6, <1>11, <2>1 DEF Assembly
    <3> QED BY <1>10, <2>1, <3>1
  <2>2. CASE j > g
    <3>1. PICK d \in Nat : d = DATA_SIZE BY Sizes
    <3>2. h + j \in 1 .. d BY <1>6, <1>15, <2>2, <3>1, <1>10
    <3>3. (e + 1) - 1 = e /\ e + 1 \in 1 .. n BY <1>13
    <3>4. o + (h + j) - w = j - g /\ j - g \in 1 .. l BY <1>6, <1>9, <1>10, <2>2
    <3>5. PICK f \in 1 .. d : f = h + j BY <3>2
    <3>6. Off((e + 1) - 1) + f - w = j - g BY <1>8, <3>3, <3>4, <3>5
    <3>7. u[j - g] = <<sent[c][e + 1], f>>
      BY <1>1, <1>2, <1>4, <1>7, <1>11, <3>1, <3>3, <3>4, <3>6 DEF InTransit
    <3> QED BY <1>10, <2>2, <3>5, <3>7
  <2> QED BY <2>1, <2>2
<1>17. Len(k.buf) = g + b /\ h + Len(k.buf) <= DATA_SIZE /\ (k.header_ok => Len(k.buf) <= R)
  <2>1. PICK x \in Nat : x = g + b BY <1>10
  <2>2. h + x <= DATA_SIZE BY <1>6, <1>10, <1>15, <2>1, Sizes
  <2> QED BY <1>10, <1>14, <2>1, <2>2
<1> QED BY <1>3, <1>4, <1>13, <1>16, <1>17

\* The bytes left by a read keep their places.
LEMMA Moved ==
    ASSUME Control, NEW c \in Clients, Readable(c), Consume(c), Aligned(c),
           UNCHANGED <<sent, gen, conn, ended>>, Consumed(c)' = Consumed(c) + Bytes(c)
    PROVE  InTransit(c)' /\ (ended'[c] = "no" => Written(c)')
<1>0. TypeInv BY DEF Control
<1>1. PICK u \in Seq(Byte) : u = stream[c] BY <1>0 DEF TypeInv
<1>2. PICK l \in Nat : l = Len(u) OBVIOUS
<1>3. PICK b \in Nat : b = Bytes(c) /\ b <= l BY <1>1, <1>2, BytesFacts
<1>4. PICK v : v = stream'[c] OBVIOUS
<1>5. Len(v) = l - b /\ \A i \in 1 .. l - b : v[i] = u[b + i]
  <2>1. v = SubSeq(u, b + 1, Len(u)) BY <1>0, <1>1, <1>3, <1>4, ConsumeFacts DEF TypeInv
  <2> QED BY <1>1, <1>2, <1>3, <2>1, RestFacts
<1>6. PICK w \in Nat : w = Consumed(c) BY <1>0, Numbers
<1>7. Consumed(c)' = w + b BY <1>3, <1>6
<1>8. PICK n \in Nat : n = Len(sent[c]) BY <1>0, Numbers
<1>9. PICK d \in Nat : d = DATA_SIZE BY Sizes
<1>10. InTransit(c) BY DEF Readable, Aligned
<1>11. InTransit(c)'
  <2>1. w + l <= Off(n) BY <1>1, <1>2, <1>6, <1>8, <1>10 DEF InTransit
  <2>2. w + b + Len(v) = w + l BY <1>3, <1>5
  <2>3. ASSUME NEW k \in 1 .. n, NEW f \in 1 .. d, Off(k - 1) + f - (w + b) \in 1 .. Len(v)
        PROVE  v[Off(k - 1) + f - (w + b)] = <<sent[c][k], f>>
    <3>1. PICK o \in Nat : o = Off(k - 1)
      <4>1. k - 1 \in Nat OBVIOUS
      <4> QED BY <4>1, OffFacts
    <3>2. PICK j \in 1 .. l - b : j = o + f - (w + b) BY <1>5, <2>3, <3>1
    <3>5. j \in Int /\ 1 <= j /\ j <= l - b BY <3>2
    <3>6. f \in Int BY <1>9
    <3>3. b + j = o + f - w /\ o + f - w \in 1 .. l
      <4>1. b + j = o + f - w
        <5>1. ASSUME NEW p \in Int, NEW q \in Int, NEW r \in Int, p = q - (w + r) PROVE r + p = q - w
          BY <5>1
        <5>2. o + f \in Int /\ b \in Int BY <3>6
        <5> QED BY <3>2, <3>5, <5>1, <5>2
      <4>2. b + j \in 1 .. l BY <1>2, <1>3, <3>5
      <4> QED BY <4>1, <4>2
    <3>4. u[o + f - w] = <<sent[c][k], f>>
      BY <1>1, <1>2, <1>6, <1>8, <1>9, <1>10, <3>1, <3>3 DEF InTransit
    <3> QED BY <1>5, <3>1, <3>2, <3>3, <3>4
  <2> QED BY <1>4, <1>7, <1>8, <1>9, <2>1, <2>2, <2>3 DEF InTransit
<1>12. ASSUME ended'[c] = "no" PROVE Written(c)'
  <2>1. Written(c) BY <1>12 DEF Aligned
  <2>2. \A o \in Clients : Writes(o, c)' <=> Writes(o, c) BY DEF Writes, Writing, Target
  <2>3. (w + b) + Len(v) = w + l BY <1>3, <1>5
  <2> QED BY <1>1, <1>2, <1>4, <1>6, <1>7, <2>1, <2>2, <2>3 DEF Written
<1> QED BY <1>11, <1>12

\* A header read in one piece names the image its bytes are of.
LEMMA HeaderKeeps ==
    ASSUME Control, NEW c \in Clients, ReadHeader(c), Aligned(c), clean'[c]
    PROVE  Aligned(c)'
<1>0. TypeInv /\ Readable(c) /\ ~col[c].header_ok /\ Consume(c) BY DEF Control, ReadHeader
<1>1. PICK b : b = Bytes(c) OBVIOUS
<1>2. PICK k : k = Received(c) OBVIOUS
<1>3. PICK h \in Nat : h = (IF col[c].header_ok THEN H ELSE 0) /\ h = 0 BY <1>0
<1>4. PICK e \in Nat : e = Len(delivered[c]) BY <1>0, Numbers
<1>5. PICK g \in Nat : g = Len(col[c].buf) BY <1>0, Numbers
<1>6. PICK x : x = sent[c][e + 1] OBVIOUS
<1>7. /\ b \in Nat /\ 1 <= b /\ k \in ColType /\ k.pc = "run" /\ ~k.header_ok
      /\ k.reads = col[c].reads + 1 /\ Len(k.buf) = g + b /\ Len(k.buf) <= H
  BY <1>0, <1>1, <1>2, <1>5, ReadFacts
<1>8. e + 1 <= Len(sent[c]) /\ \A j \in 1 .. Len(k.buf) : k.buf[j] = <<x, h + j>>
  BY <1>0, <1>1, <1>2, <1>3, <1>4, <1>6, ReadImage
<1>9. PICK r \in Nat : r = col[c].reads BY <1>0, CollectorFields DEF TypeInv
<1>10. UNCHANGED <<sent, delivered, gen, conn, ended>> BY DEF ReadHeader, serverVars
<1>11. PICK a : a = AfterHeader(c) OBVIOUS
<1>12. col'[c] = a BY <1>0, <1>11 DEF ReadHeader, AfterHeader, TypeInv
<1>13. Assembly(c) BY <1>0 DEF Readable, Aligned
<1>14. a.pc # "wild" /\ Gathered(a) = g + b /\ Assembly(c)'
  <2>1. CASE Len(k.buf) < H
    <3>1. a = More(k, b) BY <1>1, <1>2, <1>11, <2>1 DEF AfterHeader
    <3>2. b \in Int BY <1>7
    <3>3. a.pc = k.pc /\ a.buf = k.buf /\ a.header_ok = k.header_ok /\ a.reads = k.reads
      BY <1>7, <3>1, <3>2, MoreFields
    <3>4. Gathered(a) = g + b BY <1>7, <3>3 DEF Gathered
    <3>5. \A j \in 1 .. Len(a.buf) : a.buf[j] = <<x, 0 + j>> BY <1>3, <1>8, <3>3
    <3>6. a.reads # 0 BY <1>7, <1>9, <3>3
    <3>7. Assembly(c)' BY <1>4, <1>6, <1>7, <1>10, <1>12, <3>3, <3>5, <3>6 DEF Assembly
    <3> QED BY <1>7, <3>3, <3>4, <3>7
  <2>2. CASE ~(Len(k.buf) < H)
    <3>1. Len(k.buf) = H BY <1>7, <2>2, Sizes
    <3>2. k.reads = 1
      <4>1. clean' = [clean EXCEPT ![c] = clean[c] /\ (Len(k.buf) = H => k.reads = 1)]
        BY <1>2 DEF ReadHeader
      <4> QED BY <1>0, <3>1, <4>1 DEF TypeInv
    <3>3. g = 0
      <4>1. col[c].reads = 0 BY <1>7, <1>9, <3>2
      <4>2. col[c].buf = << >> BY <1>0, <1>13, <4>1 DEF Assembly
      <4> QED BY <1>5, <4>2, EmptySeq
    <3>4. b = H BY <1>7, <3>1, <3>3
    <3>5. k.buf[1] = <<x, 1>> /\ k.buf[H] = <<x, H>> BY <1>3, <1>8, <3>1, Sizes
    <3>6. x >= 0
      <4>1. e + 1 \in 1 .. Len(sent[c]) BY <1>8
      <4> QED BY <1>0, <1>6, <4>1 DEF Readable, Aligned
    <3>7. k.buf[1][1] >= 0 /\ k.buf[1][2] = 1 /\ k.buf[H][1] = x /\ k.buf[H][2] = H BY <3>5, <3>6
    <3>8. a = StartBody(k, b) BY <1>1, <1>2, <1>11, <2>2 DEF AfterHeader
    <3>9. b \in Int BY <1>7
    <3>10. /\ a.pc = "run" /\ a.header_ok /\ a.buf = << >> /\ a.rest = DATA_SIZE - b
           /\ a.frame_id = x
      BY <1>7, <3>1, <3>7, <3>8, <3>9, StartFields
    <3>11. Len(a.buf) = 0 BY <3>10, EmptySeq
    <3>12. Gathered(a) = g + b BY <3>3, <3>4, <3>10, <3>11, Sizes DEF Gathered
    <3>13. a.rest = R - Len(a.buf) BY <3>4, <3>10, <3>11, Sizes
    <3>14. Assembly(c)' BY <1>4, <1>6, <1>10, <1>12, <3>10, <3>11, <3>13 DEF Assembly
    <3> QED BY <3>10, <3>12, <3>14
  <2> QED BY <2>1, <2>2
<1>15. Consumed(c)' = Consumed(c) + Bytes(c)
  <2>1. Gathered(col[c]) = g BY <1>0, <1>5 DEF Gathered
  <2>2. PICK o \in Nat : o = Off(e) BY OffFacts
  <2>3. Consumed(c) = o + g /\ Consumed(c)' = o + (g + b) BY <1>4, <1>10, <1>12, <1>14, <2>1, <2>2 DEF Consumed
  <2> QED BY <1>1, <1>7, <2>3
<1>16. InTransit(c)' /\ (ended'[c] = "no" => Written(c)') BY <1>0, <1>10, <1>15, Moved
<1>17. DeliveredInOrder(c)' BY <1>10 DEF Aligned, DeliveredInOrder
<1> QED BY <1>0, <1>10, <1>12, <1>14, <1>16, <1>17 DEF Aligned, Readable

\* More of the image; never more than it has room for.
LEMMA BodyKeeps ==
    ASSUME Control, NEW c \in Clients, ReadBody(c), Aligned(c)
    PROVE  Aligned(c)'
<1>0. TypeInv /\ Readable(c) /\ col[c].header_ok /\ Consume(c) BY DEF Control, ReadBody
<1>1. PICK b : b = Bytes(c) OBVIOUS
<1>2. PICK k : k = Received(c) OBVIOUS
<1>3. PICK h \in Nat : h = (IF col[c].header_ok THEN H ELSE 0) /\ h = H BY <1>0, Sizes
<1>4. PICK e \in Nat : e = Len(delivered[c]) BY <1>0, Numbers
<1>5. PICK g \in Nat : g = Len(col[c].buf) BY <1>0, Numbers
<1>6. PICK x : x = sent[c][e + 1] OBVIOUS
<1>7. /\ b \in Nat /\ k \in ColType /\ k.pc = "run" /\ k.header_ok
      /\ k.rest = col[c].rest /\ k.frame_id = col[c].frame_id /\ Len(k.buf) = g + b
  BY <1>0, <1>1, <1>2, <1>5, ReadFacts
<1>8. Len(k.buf) <= R /\ \A j \in 1 .. Len(k.buf) : k.buf[j] = <<x, h + j>>
  BY <1>0, <1>1, <1>2, <1>3, <1>4, <1>6, <1>7, ReadImage
<1>9. Len(k.buf) # R BY <1>2 DEF ReadBody
<1>10. UNCHANGED <<sent, delivered, gen, conn, ended>> BY DEF ReadBody, serverVars, history
<1>11. PICK a : a = More(k, b) OBVIOUS
<1>12. col'[c] = a
  <2>1. Len(k.buf) < R BY <1>7, <1>8, <1>9, Sizes
  <2> QED BY <1>0, <1>1, <1>2, <1>11, <2>1 DEF ReadBody, TypeInv
<1>13. b \in Int BY <1>7
<1>14. /\ a.pc = "run" /\ a.buf = k.buf /\ a.rest = k.rest - b /\ a.header_ok
       /\ a.frame_id = k.frame_id
  BY <1>7, <1>11, <1>13, MoreFields
<1>15. Assembly(c) BY <1>0 DEF Readable, Aligned
<1>16. Assembly(c)'
  <2>1. k.frame_id = x /\ k.rest = R - g BY <1>0, <1>4, <1>5, <1>6, <1>7, <1>15 DEF Assembly
  <2>2. a.rest = R - Len(a.buf) BY <1>7, <1>14, <2>1, Sizes
  <2>3. \A j \in 1 .. Len(a.buf) : a.buf[j] = <<x, H + j>> BY <1>3, <1>8, <1>14
  <2> QED BY <1>4, <1>6, <1>10, <1>12, <1>14, <2>1, <2>2, <2>3 DEF Assembly
<1>17. Consumed(c)' = Consumed(c) + Bytes(c)
  <2>1. Gathered(col[c]) = H + g BY <1>0, <1>5 DEF Gathered
  <2>2. Gathered(a) = H + (g + b) BY <1>7, <1>14 DEF Gathered
  <2>3. PICK o \in Nat : o = Off(e) BY OffFacts
  <2>4. Consumed(c) = o + (H + g) /\ Consumed(c)' = o + (H + (g + b))
    BY <1>4, <1>10, <1>12, <2>1, <2>2, <2>3 DEF Consumed
  <2> QED BY <1>1, <1>7, <2>4, Sizes
<1>18. InTransit(c)' /\ (ended'[c] = "no" => Written(c)') BY <1>0, <1>10, <1>17, Moved
<1>19. DeliveredInOrder(c)' BY <1>10 DEF Aligned, DeliveredInOrder
<1> QED BY <1>0, <1>10, <1>12, <1>14, <1>16, <1>18, <1>19 DEF Aligned, Readable

\* A whole image is recognised by its bytes.
LEMMA FrameIs ==
    ASSUME NEW k \in ColType, NEW x \in Int, k.frame_id = x, Len(k.buf) = R,
           \A j \in 1 .. R : k.buf[j] = <<x, H + j>>
    PROVE  FrameOf(k) = x
<1>1. PICK d \in Nat : d = DATA_SIZE /\ d = H + R BY Sizes
<1>2. PICK u : u = [j \in 1 .. d |-> <<x, j>>] OBVIOUS
<1>3. u \in Seq(Byte) /\ Len(u) = d /\ \A j \in 1 .. d : u[j] = <<x, j>> BY <1>2 DEF Byte
<1>4. PICK s : s = SubSeq(u, H + 1, Len(u)) OBVIOUS
<1>5. s \in Seq(Byte) /\ Len(s) = R /\ \A j \in 1 .. R : s[j] = <<x, H + j>>
  <2>1. H \in Nat /\ H <= Len(u) BY <1>1, <1>3, Sizes
  <2>2. s \in Seq(Byte) /\ Len(s) = Len(u) - H /\ \A j \in 1 .. Len(u) - H : s[j] = u[H + j]
    BY <1>3, <1>4, <2>1, Divided
  <2>3. Len(u) - H = R BY <1>1, <1>3, Sizes
  <2>4. \A j \in 1 .. R : H + j \in 1 .. d BY <1>1, Sizes
  <2> QED BY <1>3, <2>2, <2>3, <2>4
<1>6. k.buf \in Seq(Byte) BY CollectorFields
<1>7. k.buf = s
  <2>1. Len(k.buf) = Len(s) /\ \A j \in 1 .. Len(k.buf) : k.buf[j] = s[j] BY <1>5
  <2> QED BY <1>5, <1>6, <2>1, SeqEqual
<1>8. SubSeq(Chunk(k.frame_id), H + 1, DATA_SIZE) = s BY <1>1, <1>2, <1>3, <1>4 DEF Chunk
<1> QED BY <1>7, <1>8 DEF FrameOf

\* The frame delivered is the image whose turn it is.
LEMMA FrameKeeps ==
    ASSUME Control, NEW c \in Clients, ReadFrame(c), Aligned(c)
    PROVE  Aligned(c)'
<1>0. TypeInv /\ Readable(c) /\ col[c].header_ok /\ Consume(c) BY DEF Control, ReadFrame
<1>1. PICK b : b = Bytes(c) OBVIOUS
<1>2. PICK k : k = Received(c) OBVIOUS
<1>3. PICK h \in Nat : h = (IF col[c].header_ok THEN H ELSE 0) /\ h = H BY <1>0, Sizes
<1>4. PICK e \in Nat : e = Len(delivered[c]) BY <1>0, Numbers
<1>5. PICK g \in Nat : g = Len(col[c].buf) BY <1>0, Numbers
<1>7. /\ b \in Nat /\ k \in ColType /\ k.pc = "run" /\ k.frame_id = col[c].frame_id /\ Len(k.buf) = g + b
  BY <1>0, <1>1, <1>2, <1>5, ReadFacts
<1>8. /\ e + 1 <= Len(sent[c])
      /\ \A j \in 1 .. Len(k.buf) : k.buf[j] = <<sent[c][e + 1], h + j>>
  BY <1>0, <1>1, <1>2, <1>3, <1>4, ReadImage
<1>9. Len(k.buf) = R BY <1>2 DEF ReadFrame
<1>6. PICK x \in Int : x = sent[c][e + 1]
  <2>1. e + 1 \in 1 .. Len(sent[c]) BY <1>8
  <2> QED BY <1>0, <2>1 DEF TypeInv
<1>10. UNCHANGED <<sent, gen, conn, ended>> BY DEF ReadFrame, serverVars
<1>11. FrameOf(k) = x
  <2>1. k.frame_id = x BY <1>0, <1>4, <1>6, <1>7 DEF Assembly, Readable, Aligned
  <2>2. \A j \in 1 .. R : k.buf[j] = <<x, H + j>> BY <1>3, <1>6, <1>8, <1>9
  <2> QED BY <1>7, <1>9, <2>1, <2>2, FrameIs
<1>12. PICK r \in {"empty", "object", "between"} : col' = [col EXCEPT ![c] = AfterFrame(c, r)]
  BY DEF ReadFrame, AfterFrame
<1>13. PICK a : a = AfterFrame(c, r) OBVIOUS
<1>14. col'[c] = a BY <1>0, <1>12, <1>13 DEF TypeInv
<1>15. a.pc = "run" /\ ~a.header_ok /\ a.buf = << >> BY <1>2, <1>7, <1>13, NextFields DEF AfterFrame
<1>16. PICK y : y = delivered'[c] OBVIOUS
<1>17. Len(y) = e + 1 /\ y[e + 1] = x /\ \A i \in 1 .. e : y[i] = delivered[c][i]
  <2>1. y = Append(delivered[c], x) BY <1>0, <1>2, <1>11, <1>16 DEF ReadFrame, TypeInv
  <2> QED BY <1>0, <1>4, <2>1, AppendProperties DEF TypeInv
<1>18. DeliveredInOrder(c)'
  <2>1. \A i \in 1 .. e : delivered[c][i] = sent[c][i] BY <1>4 DEF Aligned, DeliveredInOrder
  <2>2. \A i \in 1 .. e + 1 : y[i] = sent[c][i] BY <1>6, <1>17, <2>1
  <2> QED BY <1>8, <1>10, <1>16, <1>17, <2>2 DEF DeliveredInOrder
<1>19. Len(a.buf) = 0 BY <1>15, EmptySeq
<1>20. Assembly(c)' BY <1>14, <1>15, <1>19 DEF Assembly
<1>21. Consumed(c)' = Consumed(c) + Bytes(c)
  <2>1. Gathered(col[c]) = H + g BY <1>0, <1>5 DEF Gathered
  <2>2. Gathered(a) = 0 BY <1>15, <1>19 DEF Gathered
  <2>3. PICK o \in Nat : o = Off(e) BY OffFacts
  <2>4. Off(e + 1) = o + DATA_SIZE BY <2>3, OffFacts
  <2>5. Consumed(c) = o + (H + g) /\ Consumed(c)' = o + DATA_SIZE + 0
    BY <1>4, <1>14, <1>16, <1>17, <2>1, <2>2, <2>3, <2>4 DEF Consumed
  <2>6. g + b = R BY <1>7, <1>9
  <2>7. o + DATA_SIZE + 0 = o + (H + g) + b BY <1>7, <2>6, Sizes
  <2> QED BY <1>1, <2>5, <2>7
<1>22. InTransit(c)' /\ (ended'[c] = "no" => Written(c)') BY <1>0, <1>10, <1>21, Moved
<1> QED BY <1>0, <1>10, <1>14, <1>15, <1>18, <1>20, <1>22 DEF Aligned, Readable

-----------------------------------------------------------------------------
\* No byte has been sent: every connection is aligned.
LEMMA AlignedInit == Init => \A c \in Clients : Aligned(c)
<1> SUFFICES ASSUME Init, NEW c \in Clients PROVE Aligned(c) OBVIOUS
<1>1. stream[c] = << >> /\ sent[c] = << >> /\ delivered[c] = << >> /\ ended[c] = "no" BY DEF Init
<1>2. /\ col[c].pc = "none" /\ col[c].buf = << >> /\ ~col[c].header_ok BY DEF Init, Collecting
<1>3. Len(<< >>) = 0 BY EmptySeq
<1>4. \A o \in Clients : ~Writes(o, c) BY DEF Init, Writes, Writing
<1>5. Consumed(c) = 0
  <2>1. Gathered(col[c]) = 0 BY <1>2, <1>3 DEF Gathered
  <2> QED BY <1>1, <1>3, <2>1, OffFacts DEF Consumed
<1>6. DeliveredInOrder(c) BY <1>1, <1>3 DEF DeliveredInOrder
<1>7. Assembly(c) BY <1>2, <1>3 DEF Assembly
<1>8. InTransit(c)
  <2>1. Consumed(c) + Len(stream[c]) <= Off(Len(sent[c])) BY <1>1, <1>3, <1>5, OffFacts
  <2> QED BY <1>1, <1>3, <2>1 DEF InTransit
<1>9. Written(c) BY <1>1, <1>3, <1>4, <1>5, OffFacts DEF Written
<1> QED BY <1>1, <1>2, <1>3, <1>6, <1>7, <1>8, <1>9 DEF Aligned

\* Nothing that has gone wrong is forgotten.
LEMMA CleanStays ==
    ASSUME Control, Next, NEW t \in Clients, clean'[t]
    PROVE  clean[t]
<1>0. clean \in [Clients -> BOOLEAN] BY DEF Control, TypeInv
<1>1. CASE GeneratorFails BY <1>1 DEF GeneratorFails
<1>2. ASSUME NEW c \in Clients, Accept(c) PROVE clean[t]
  <2>1. PICK f \in DOMAIN conn :
           clean' = [clean EXCEPT ![c] = clean[c] /\ \A o \in Clients : gen[o].fd = f => ~Writing(o)]
    BY <1>2 DEF Accept
  <2> QED BY <1>0, <2>1
<1>3. ASSUME NEW c \in Clients, WriteByte(c) PROVE clean[t]
  <2>1. clean' = [clean EXCEPT ![Target(c)] = clean[Target(c)] /\ gen[c].image >= 0
                     /\ \A o \in Clients \ {c} : Writing(o) => Target(o) # Target(c)]
    BY <1>3 DEF WriteByte
  <2> QED BY <1>0, <2>1
<1>4. ASSUME NEW c \in Clients, generate_data_thread(c), ~WriteByte(c) PROVE clean[t]
  BY <1>4 DEF generate_data_thread, ThreadStart, LoadCurr, next_image, ImageBefore, WriteFails, CloseFd, history
<1>5. ASSUME NEW c \in Clients, ReadHeader(c) PROVE clean[t]
  <2>1. clean' = [clean EXCEPT ![c] = clean[c] /\ (Len(Received(c).buf) = H => Received(c).reads = 1)]
    BY <1>5 DEF ReadHeader
  <2> QED BY <1>0, <2>1
<1>6. ASSUME NEW c \in Clients, ReadBody(c) \/ ReadFrame(c) PROVE clean[t]
  BY <1>6 DEF ReadBody, ReadFrame, history
<1>7. ASSUME NEW c \in Clients, ClientStep(c) PROVE clean[t]
  BY <1>7 DEF ClientStep, collector_init, ReadNothing, ReadError, MainTest, MainWait, collector_destroy,
              Reset, vars, history
<1> QED BY <1>1, <1>2, <1>3, <1>4, <1>5, <1>6, <1>7 DEF Next, cvclient, collect_data_thread, ClientStep

\* Each connection stays aligned, whoever moves.
LEMMA AlignedStep ==
    ASSUME Control, Next, NEW t \in Clients, Aligned(t), clean'[t]
    PROVE  Aligned(t)'
<1>0. TypeInv BY DEF Control
<1>1. CASE GeneratorFails
  <2>1. Exit /\ UNCHANGED <<stream, sent, delivered, col>> BY <1>1 DEF GeneratorFails, clientVars
  <2> QED BY <2>1, ExitQuiet, QuietKeeps
<1>2. ASSUME NEW c \in Clients, Accept(c) PROVE Aligned(t)' BY <1>2, AcceptQuiet, QuietKeeps
<1>3. ASSUME NEW c \in Clients, ImageBefore(c), Exit PROVE Aligned(t)'
  <2>1. UNCHANGED <<stream, sent, delivered, col>> BY <1>3 DEF ImageBefore, clientVars, history
  <2> QED BY <1>3, <2>1, ExitQuiet, QuietKeeps
<1>4. ASSUME NEW c \in Clients, WriteByte(c) PROVE Aligned(t)'
  <2>1. CASE t = Target(c) BY <1>4, <2>1, WriteKeeps
  <2>2. CASE t # Target(c) BY <1>4, <2>2, WriteQuiet, QuietKeeps
  <2> QED BY <2>1, <2>2
<1>5. ASSUME NEW c \in Clients, CloseFd(c) PROVE Aligned(t)' BY <1>5, CloseQuiet, QuietKeeps
<1>6. ASSUME NEW c \in Clients,
             ThreadStart(c) \/ LoadCurr(c) \/ next_image(c) \/ (ImageBefore(c) /\ ~Exit) \/ WriteFails(c)
      PROVE  Aligned(t)'
  BY <1>6, ThreadQuiet, QuietKeeps
<1>7. ASSUME NEW c \in Clients, ReadStep(c) \/ ClientStep(c) PROVE Aligned(t)'
  <2>1. CASE t # c BY <1>7, <2>1, OtherQuiet, QuietKeeps
  <2>2. CASE t = c /\ ReadHeader(c) BY <2>2, HeaderKeeps
  <2>3. CASE t = c /\ ReadBody(c) BY <2>3, BodyKeeps
  <2>4. CASE t = c /\ ReadFrame(c) BY <2>4, FrameKeeps
  <2>5. CASE t = c /\ Reset(c) BY <2>5, ResetKeeps
  <2>6. CASE ClientStep(c) /\ ~Reset(c) BY <2>6, ClientQuiet, QuietKeeps
  <2> QED BY <1>7, <2>1, <2>2, <2>3, <2>4, <2>5, <2>6 DEF ReadStep
<1>8. PICK c \in Clients :
         GeneratorFails \/ Accept(c) \/ generate_data_thread(c) \/ ReadStep(c) \/ ClientStep(c)
  BY DEF Next, cvclient, collect_data_thread, ReadStep, ClientStep
<1> QED BY <1>1, <1>2, <1>3, <1>4, <1>5, <1>6, <1>7, <1>8 DEF generate_data_thread

\* Nothing moves, nothing changes.
LEMMA Idle ==
    ASSUME CvInv, UNCHANGED vars PROVE CvInv'
<1> USE DEF vars, serverVars, clientVars, history
<1>1. TypeInv' BY DEF CvInv, Control, TypeInv
<1>2. Connected' BY DEF CvInv, Control, Connected
<1>3. ASSUME NEW c \in Clients PROVE ThreadInv(c)' /\ CollectorInv(c)'
  BY DEF CvInv, Control, ThreadInv, CollectorInv
<1>4. ASSUME NEW c \in Clients, clean'[c] PROVE Aligned(c)'
  <2>1. Aligned(c) BY <1>4 DEF CvInv
  <2>2. WritersStay(c) BY DEF WritersStay, Writes, Writing, Target
  <2>3. Quiet(c) BY <2>1, <2>2 DEF Quiet, Aligned
  <2> QED BY <2>1, <2>3, QuietKeeps
<1> QED BY <1>1, <1>2, <1>3, <1>4 DEF CvInv, Control

\* The bytes of every connection keep their places and nothing else goes wrong
\* (cvgenerator.cpp, generate_data_thread; cvcollector.cpp, collect_data_thread).
THEOREM CvInvariance == Spec => []CvInv
<1>1. Init => CvInv BY ControlInit, AlignedInit DEF CvInv
<1>2. CvInv /\ [Next]_vars => CvInv'
  <2> SUFFICES ASSUME CvInv, [Next]_vars PROVE CvInv' OBVIOUS
  <2>1. CASE UNCHANGED vars BY <2>1, Idle
  <2>2. CASE Next
    <3>1. Control BY DEF CvInv
    <3>2. Control' BY <2>2, <3>1, ControlStep
    <3>3. ASSUME NEW c \in Clients, clean'[c] PROVE Aligned(c)'
      <4>1. clean[c] BY <2>2, <3>1, <3>3, CleanStays
      <4>2. Aligned(c) BY <4>1 DEF CvInv
      <4> QED BY <2>2, <3>1, <3>3, <4>2, AlignedStep
    <3> QED BY <3>2, <3>3 DEF CvInv
  <2> QED BY <2>1, <2>2
<1> QED BY <1>1, <1>2, PTL DEF Spec

\* A prefix, element by element.
LEMMA Prefix ==
    ASSUME NEW a \in Seq(Int), NEW b \in Seq(Int), Len(a) <= Len(b), \A i \in 1 .. Len(a) : a[i] = b[i]
    PROVE  IsPrefix(a, b)
<1>1. PICK l \in Nat : l = Len(a) OBVIOUS
<1>2. PICK s : s = SubSeq(b, 1, l) OBVIOUS
<1>3. s \in Seq(Int) /\ Len(s) = l /\ \A i \in 1 .. l : s[i] = b[i] BY <1>1, <1>2, Divided
<1>4. Len(a) = Len(s) /\ \A i \in 1 .. Len(a) : a[i] = s[i] BY <1>1, <1>3
<1>5. a = s BY <1>3, <1>4, SeqEqual
<1> QED BY <1>1, <1>2, <1>5 DEF IsPrefix

\* The frames delivered are the images sent, whole and in order, and nothing is
\* written behind the image (cvcollector.cpp, collect_data_thread).
THEOREM FramesAreAligned == Spec => []FramesAligned
<1>1. CvInv => FramesAligned
  <2> SUFFICES ASSUME CvInv, NEW c \in Clients, clean[c]
               PROVE  col[c].pc # "wild" /\ IsPrefix(delivered[c], sent[c])
    BY DEF FramesAligned
  <2>1. Aligned(c) BY DEF CvInv
  <2>2. delivered[c] \in Seq(Int) /\ sent[c] \in Seq(Int) BY DEF CvInv, Control, TypeInv
  <2>3. IsPrefix(delivered[c], sent[c]) BY <2>1, <2>2, Prefix DEF Aligned, DeliveredInOrder
  <2> QED BY <2>1, <2>3 DEF Aligned
<1> QED BY <1>1, CvInvariance, PTL
=============================================================================
