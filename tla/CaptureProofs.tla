--------------------------- MODULE CaptureProofs ---------------------------
(***************************************************************************)
(* The invariants of OldCapture, for any number of frames, blocks, rounds  *)
(* of the watchdog, losses and overtakings.                                *)
(*                                                                         *)
(*   registers  one datagram at most is on its way, the request of the     *)
(*              step at hand or its answer (Dialogue)                      *)
(*   stream     every packet on its way comes after everything gathered so *)
(*              far, in the order of the camera, unless one has overtaken  *)
(*              another (StreamOrder)                                      *)
(*   end        what the last steps of a script have achieved lasts:       *)
(*              nothing behind them starts the camera or the thread again  *)
(*              (Settled)                                                  *)
(*                                                                         *)
(* And those of Discovery, which finds the device the programs talk to, for*)
(* any number of interfaces and datagrams: the datagrams that had come in  *)
(* before the sleep ended are taken from the front of each socket, the     *)
(* answers among them in their order (Taken, Listening).                   *)
(***************************************************************************)
EXTENDS OldCapture, Discovery, SequenceTheorems, FiniteSetTheorems, TLAPS

\* At most one datagram is on its way, and only while the main thread waits for
\* the answer to the register step at hand.
Asks(s) == s.do \in {"read", "write", "renew"}

Dialogue ==
    /\ waiting \in BOOLEAN
    /\ ~waiting => req = << >> /\ acks = << >>
    /\ waiting => Asks(Script[pc])
    /\ \/ req = << >> /\ acks = << >>
       \/ /\ acks = << >> /\ Len(req) = 1 /\ req = <<req[1]>> /\ req[1].op = pc
       \/ /\ req = << >> /\ Len(acks) = 1 /\ acks = <<acks[1]>> /\ acks[1].op = pc

-----------------------------------------------------------------------------
Packet == [id : Nat \ {0}, n : Nat]
Block == (Nat \ {0}) \X Nat
File == [id : Nat, blocks : Seq(Block)]

StreamType ==
    /\ cursor \in Packet /\ wire \in Seq(Packet) /\ swaps \in Nat
    /\ frame \in [started : BOOLEAN, id : Nat, blocks : Seq(Block)]
    /\ saved \in Seq(File)
    /\ ~frame.started => frame.id = 0 /\ saved = << >> /\ frame.blocks = << >>

\* The order in which the camera sends.
Before(p, q) == p.id < q.id \/ (p.id = q.id /\ p.n < q.n)

\* The packet comes after what has been gathered of the frame.
After(p, f) ==
    \/ p.id > f.id
    \/ p.id = f.id /\ f.started /\ \A k \in 1 .. Len(f.blocks) : f.blocks[k][2] < p.n

\* The blocks of one frame, in order.
InOrder(id, b) ==
    /\ \A i \in 1 .. Len(b) : b[i][1] = id
    /\ \A i, j \in 1 .. Len(b) : i < j => b[i][2] < b[j][2]

FilesInOrder ==
    /\ \A i, j \in 1 .. Len(saved) : i < j => saved[i].id < saved[j].id
    /\ \A i \in 1 .. Len(saved) : saved[i].id < frame.id

StreamOrder ==
    /\ \A i, j \in 1 .. Len(wire) : i < j => Before(wire[i], wire[j])
    /\ \A i \in 1 .. Len(wire) : Before(wire[i], cursor) /\ After(wire[i], frame)
    /\ After(cursor, frame)
    /\ InOrder(frame.id, frame.blocks)
    /\ \A i \in 1 .. Len(saved) : InOrder(saved[i].id, saved[i].blocks)
    /\ FilesInOrder

StreamInv ==
    /\ StreamType
    /\ swaps = 0 => StreamOrder
    /\ Old => FilesInOrder

-----------------------------------------------------------------------------
\* The steps a script ends with, and which of them stop the camera, join the
\* thread and give the privilege back.
StopAndDestroy ==
    gvcp_stop \o <<Step("stop"), Step("close"), Step("sleep"), Step("join")>>
    \o gige_camera_destroy \o <<Step("free again")>>
LastSteps == IF Old THEN StopAndRelease ELSE StopAndDestroy
First == Len(Script) - Len(LastSteps)
StopAt == First + (IF Old THEN 4 ELSE 3)
JoinAt == First + 7
ReleaseAt == First + 8

\* Before the script has opened its sockets nothing has happened.
Untouched == ~streaming /\ priv = 0 /\ thread = "none"

Settled ==
    /\ pc = 1 => Untouched
    /\ pc \notin 1 .. JoinAt => thread \in {"none", "ended"}
    /\ ~bounced /\ pc \notin 1 .. StopAt => ~streaming
    /\ ~bounced /\ pc = StopAt /\ acks # << >> /\ ~acks[1].refused => ~streaming
    /\ Old /\ ~bounced /\ pc \notin 1 .. ReleaseAt => priv = 0
    /\ Old /\ ~bounced /\ pc = ReleaseAt /\ acks # << >> => priv = 0

\* The request on its way is the one of the step at hand.
RequestIsStep ==
    req # << >> =>
        LET s == Script[pc]
        IN req[1].write = (s.do # "read") /\ req[1].reg = s.reg /\ req[1].val = s.val

PcType == pc \in 0 .. Len(Script) + 1

CaptureInv == Dialogue /\ StreamInv /\ RequestIsStep /\ Settled /\ PcType

-----------------------------------------------------------------------------
(* The scripts.                                                            *)
Steps ==
    [do : {"read", "write", "renew", "open", "create", "stop", "join", "sleep", "close", "free", "free again"},
     reg : Registers, val : Nat]

\* Neither the first step of a script nor the last one of test_capture.
InnerSteps == {s \in Steps : s.do \notin {"open", "free again"}}

\* A script opens the sockets once, at its beginning.
Opening(t) == \E u \in Seq(InnerSteps) : t = <<Step("open")>> \o u

OldBegin == ConnectAndStart \o <<Step("create")>> \o Repeat(WatchdogRound, Rounds)
NewBegin ==
    gige_camera_init \o gvcp_start \o <<Step("create")>>
    \o Repeat(gvcp_watchdog \o <<Step("sleep")>>, Rounds)

\* The kinds of steps.
LEMMA StepKinds ==
    /\ \A reg \in Registers : Read(reg) \in InnerSteps
    /\ \A reg \in Registers, val \in Nat : Write(reg, val) \in InnerSteps
    /\ \A do \in {"create", "stop", "join", "sleep", "close", "free"} : Step(do) \in InnerSteps
    /\ Renew \in InnerSteps
    /\ Step("open") \in Steps /\ Step("free again") \in Steps /\ InnerSteps \subseteq Steps
    /\ Control \in Registers /\ Stream \in Registers /\ Start \in Registers
    /\ Stop \in Registers /\ Setup \in Registers
<1>1. /\ Control \in Registers /\ Stream \in Registers /\ Start \in Registers
      /\ Stop \in Registers /\ Setup \in Registers
  BY DEF Registers
<1>2. ASSUME NEW reg \in Registers PROVE Read(reg) \in InnerSteps
  BY DEF Read, InnerSteps, Steps
<1>3. ASSUME NEW reg \in Registers, NEW val \in Nat PROVE Write(reg, val) \in InnerSteps
  BY DEF Write, InnerSteps, Steps
<1>4. ASSUME NEW do \in {"create", "stop", "join", "sleep", "close", "free"}
      PROVE  Step(do) \in InnerSteps
  BY <1>1 DEF Step, InnerSteps, Steps
<1>5. Renew \in InnerSteps BY <1>1 DEF Renew, InnerSteps, Steps
<1>6. Step("open") \in Steps /\ Step("free again") \in Steps BY <1>1 DEF Step, Steps
<1> QED BY <1>1, <1>2, <1>3, <1>4, <1>5, <1>6 DEF InnerSteps

\* Pieces of one step and of a few steps.
LEMMA OneStep == ASSUME NEW S, NEW a \in S PROVE <<a>> \in Seq(S) /\ Len(<<a>>) = 1
OBVIOUS

\* Pieces of two steps.
LEMMA TwoSteps == ASSUME NEW S, NEW a \in S, NEW b \in S PROVE <<a, b>> \in Seq(S) /\ Len(<<a, b>>) = 2
OBVIOUS

\* Pieces of three steps.
LEMMA ThreeSteps ==
    ASSUME NEW S, NEW a \in S, NEW b \in S, NEW c \in S
    PROVE  <<a, b, c>> \in Seq(S) /\ Len(<<a, b, c>>) = 3
OBVIOUS

\* Pieces of four steps.
LEMMA FourSteps ==
    ASSUME NEW S, NEW a \in S, NEW b \in S, NEW c \in S, NEW d \in S
    PROVE  <<a, b, c, d>> \in Seq(S) /\ Len(<<a, b, c, d>>) = 4
OBVIOUS

\* Pieces of five steps.
LEMMA FiveSteps ==
    ASSUME NEW S, NEW a \in S, NEW b \in S, NEW c \in S, NEW d \in S, NEW e \in S
    PROVE  <<a, b, c, d, e>> \in Seq(S) /\ Len(<<a, b, c, d, e>>) = 5
OBVIOUS

\* Pieces of six steps.
LEMMA SixSteps ==
    ASSUME NEW S, NEW a \in S, NEW b \in S, NEW c \in S, NEW d \in S, NEW e \in S, NEW f \in S
    PROVE  <<a, b, c, d, e, f>> \in Seq(S) /\ Len(<<a, b, c, d, e, f>>) = 6
OBVIOUS

\* A sequence of inner steps is one of steps.
LEMMA InnerAreSteps == ASSUME NEW u \in Seq(InnerSteps) PROVE u \in Seq(Steps)
<1>1. InnerSteps \subseteq Steps BY DEF InnerSteps
<1> HIDE DEF InnerSteps, Steps
<1> QED BY <1>1

\* A piece behind the beginning of a script.
LEMMA OpeningConcat ==
    ASSUME NEW t, NEW v \in Seq(InnerSteps), Opening(t)
    PROVE  Opening(t \o v)
<1>1. PICK u \in Seq(InnerSteps) : t = <<Step("open")>> \o u BY DEF Opening
<1>2. <<Step("open")>> \in Seq(Steps) /\ u \in Seq(Steps) /\ v \in Seq(Steps)
  <2>1. Step("open") \in Steps BY StepKinds
  <2> QED BY <2>1, OneStep, InnerAreSteps
<1>3. t \o v = <<Step("open")>> \o (u \o v) BY <1>1, <1>2, ConcatAssociative
<1>4. u \o v \in Seq(InnerSteps) OBVIOUS
<1> QED BY <1>3, <1>4 DEF Opening

\* A loop of inner steps.
LEMMA InnerRepeat ==
    ASSUME NEW t \in Seq(InnerSteps), NEW n \in Nat, Len(t) = 5
    PROVE  Repeat(t, n) \in Seq(InnerSteps)
<1>1. n * Len(t) \in Nat OBVIOUS
<1>2. \A i \in 1 .. n * Len(t) : 1 + ((i - 1) % Len(t)) \in 1 .. Len(t)
  BY <1>1
<1>3. \A i \in 1 .. n * Len(t) : t[1 + ((i - 1) % Len(t))] \in InnerSteps
  <2>1. \A k \in 1 .. Len(t) : t[k] \in InnerSteps OBVIOUS
  <2> QED BY <1>2, <2>1, Zenon
<1>4. Repeat(t, n) \in [1 .. n * Len(t) -> InnerSteps] BY <1>3 DEF Repeat
<1> HIDE DEF Repeat
<1> QED BY <1>1, <1>4

\* The register steps of gvcp_start are inner ones.
LEMMA StartIsInner == gvcp_start \in Seq(InnerSteps) /\ Len(gvcp_start) = 22
<1> DEFINE setup == [i \in 1 .. 18 |-> IF i \in {1, 3, 4, 9, 11, 14, 15} THEN Write(Setup, 0)
                                                                    ELSE Read(Setup)]
           end == <<Read(Stream), Read(Stream), Write(Start, 1)>>
<1>1. <<Write(Control, 2)>> \in Seq(InnerSteps) /\ Len(<<Write(Control, 2)>>) = 1
  <2>1. Write(Control, 2) \in InnerSteps BY StepKinds
  <2> QED BY <2>1, OneStep
<1>2. setup \in Seq(InnerSteps) /\ Len(setup) = 18
  <2>1. setup \in [1 .. 18 -> InnerSteps] BY StepKinds
  <2> QED BY <2>1
<1>3. end \in Seq(InnerSteps) /\ Len(end) = 3
  <2>1. Read(Stream) \in InnerSteps /\ Write(Start, 1) \in InnerSteps BY StepKinds
  <2> QED BY <2>1, ThreeSteps
<1> HIDE DEF setup, end
<1>4. <<Write(Control, 2)>> \o setup \in Seq(InnerSteps) /\ Len(<<Write(Control, 2)>> \o setup) = 19
  <2> DEFINE w == <<Write(Control, 2)>>
  <2>1. w \in Seq(InnerSteps) /\ Len(w) = 1 BY <1>1
  <2> HIDE DEF w
  <2>2. w \o setup \in Seq(InnerSteps) /\ Len(w \o setup) = 19 
    <3>1. w \o setup \in Seq(InnerSteps) /\ Len(w \o setup) = Len(w) + Len(setup)
      BY <1>2, <2>1, ConcatProperties, Zenon
    <3> QED BY <1>2, <2>1, <3>1
  <2> QED BY <2>2 DEF w
<1>5. /\ <<Write(Control, 2)>> \o setup \o end \in Seq(InnerSteps)
      /\ Len(<<Write(Control, 2)>> \o setup \o end) = 22
  <2> DEFINE w == <<Write(Control, 2)>> \o setup
  <2>1. w \in Seq(InnerSteps) /\ Len(w) = 19 BY <1>4
  <2> HIDE DEF w
  <2>2. w \o end \in Seq(InnerSteps) /\ Len(w \o end) = 22 
    <3>1. w \o end \in Seq(InnerSteps) /\ Len(w \o end) = Len(w) + Len(end)
      BY <1>3, <2>1, ConcatProperties, Zenon
    <3> QED BY <1>3, <2>1, <3>1
  <2> QED BY <2>2 DEF w
<1> QED BY <1>5 DEF gvcp_start, setup, end

\* What connect_to_device does before it stops the acquisition.
LEMMA OldBeginOpens == Opening(OldBegin)
<1> DEFINE reads == [i \in 1 .. 4 |-> Read(Setup)]
           next == <<Write(Control, 2), Write(Stream, 1), Write(Stream, 1), Read(Stream), Write(Control, 2)>>
           last == <<Write(Stream, 1), Read(Stream), Write(Start, 1)>>
<1>1. Opening(<<Step("open")>> \o reads)
  <2>1. reads \in [1 .. 4 -> InnerSteps] BY StepKinds
  <2>2. reads \in Seq(InnerSteps) BY <2>1
  <2> QED BY <2>2 DEF Opening
<1> DEFINE I == InnerSteps
<1>a. /\ Read(Stream) \in I /\ Read(Control) \in I /\ Write(Control, 2) \in I /\ Write(Stream, 1) \in I
      /\ Write(Start, 1) \in I /\ Step("create") \in I /\ Step("sleep") \in I /\ Renew \in I
  BY StepKinds
<1>2. next \in Seq(InnerSteps) BY <1>a, FiveSteps
<1>3. last \in Seq(InnerSteps) BY <1>a, ThreeSteps
<1>4. SubSeq(gvcp_start, 2, 19) \in Seq(InnerSteps)
  <2>1. \A i \in 2 .. 19 : gvcp_start[i] \in InnerSteps
    <3>1. \A i \in 1 .. Len(gvcp_start) : gvcp_start[i] \in InnerSteps
      BY StartIsInner, LenProperties, Zenon
    <3>2. \A i \in 2 .. 19 : i \in 1 .. Len(gvcp_start) BY StartIsInner
    <3> QED BY <3>1, <3>2
  <2> QED BY <2>1, SubSeqProperties
<1>5. <<Step("create")>> \in Seq(InnerSteps) BY <1>a, OneStep
<1>6. WatchdogRound \in Seq(InnerSteps) /\ Len(WatchdogRound) = 5
  BY <1>a, FiveSteps DEF WatchdogRound
<1>7. Repeat(WatchdogRound, Rounds) \in Seq(InnerSteps) BY <1>6, InnerRepeat, CameraAssumption
<1>8. Opening(ConnectAndStart)
  <2> HIDE DEF reads, next, last
  <2>1. Opening(<<Step("open")>> \o reads \o next) BY <1>1, <1>2, OpeningConcat
  <2>2. Opening(<<Step("open")>> \o reads \o next \o SubSeq(gvcp_start, 2, 19))
    BY <1>4, <2>1, OpeningConcat
  <2>3. Opening(<<Step("open")>> \o reads \o next \o SubSeq(gvcp_start, 2, 19) \o last)
    BY <1>3, <2>2, OpeningConcat
  <2> QED BY <2>3 DEF ConnectAndStart, reads, next, last
<1>9. Opening(ConnectAndStart \o <<Step("create")>>) BY <1>5, <1>8, OpeningConcat
<1> QED BY <1>7, <1>9, OpeningConcat DEF OldBegin

\* The pieces of test_capture in front of gvcp_stop.
LEMMA NewPieces ==
    /\ gvcp_init \in Seq(InnerSteps) /\ <<Step("create")>> \in Seq(InnerSteps)
    /\ Repeat(gvcp_watchdog \o <<Step("sleep")>>, Rounds) \in Seq(InnerSteps)
<1> DEFINE round == gvcp_watchdog \o <<Step("sleep")>>
           I == InnerSteps
<1>a. /\ Read(Setup) \in I /\ Read(Stream) \in I /\ Read(Control) \in I /\ Write(Control, 2) \in I
      /\ Write(Stream, 1) \in I /\ Write(Start, 1) \in I
      /\ Step("create") \in I /\ Step("sleep") \in I /\ Renew \in I
  BY StepKinds
<1>1. gvcp_init \in Seq(InnerSteps) BY <1>a, SixSteps DEF gvcp_init
<1>4. <<Step("create")>> \in Seq(InnerSteps) /\ <<Step("sleep")>> \in Seq(InnerSteps)
      /\ Len(<<Step("sleep")>>) = 1
  BY <1>a, OneStep
<1>6. gvcp_watchdog \in Seq(InnerSteps) /\ Len(gvcp_watchdog) = 4
  BY <1>a, FourSteps DEF gvcp_watchdog
<1>7. round \in Seq(InnerSteps) /\ Len(round) = 5
  <2> DEFINE z == <<Step("sleep")>>
  <2>1. z \in Seq(InnerSteps) /\ Len(z) = 1 BY <1>4
  <2> HIDE DEF z
  <2>2. gvcp_watchdog \o z \in Seq(InnerSteps) /\ Len(gvcp_watchdog \o z) = 5
    <3>1. gvcp_watchdog \o z \in Seq(InnerSteps) /\ Len(gvcp_watchdog \o z) = Len(gvcp_watchdog) + Len(z)
      BY <1>6, <2>1, ConcatProperties, Zenon
    <3> QED BY <1>6, <2>1, <3>1
  <2> QED BY <2>2 DEF z
<1> HIDE DEF round
<1>8. Repeat(round, Rounds) \in Seq(InnerSteps) BY <1>7, InnerRepeat, CameraAssumption
<1> QED BY <1>1, <1>4, <1>8 DEF round

\* What test_capture does before it stops the acquisition.
LEMMA NewBeginOpens == Opening(gige_camera_init) /\ Opening(NewBegin)
<1> DEFINE c == <<Step("create")>>
           r == Repeat(gvcp_watchdog \o <<Step("sleep")>>, Rounds)
<1>1. c \in Seq(InnerSteps) /\ r \in Seq(InnerSteps) BY NewPieces
<1>2. NewBegin = gige_camera_init \o gvcp_start \o c \o r BY DEF NewBegin
<1> HIDE DEF c, r
<1>3. Opening(gige_camera_init) BY NewPieces DEF gige_camera_init, Opening
<1>4. Opening(gige_camera_init \o gvcp_start) BY <1>3, StartIsInner, OpeningConcat
<1>5. Opening(gige_camera_init \o gvcp_start \o c) BY <1>1, <1>4, OpeningConcat
<1>6. Opening(gige_camera_init \o gvcp_start \o c \o r) BY <1>1, <1>5, OpeningConcat
<1> QED BY <1>2, <1>3, <1>6

\* A script's beginning is made of steps, and only its first one opens.
LEMMA OpeningSteps ==
    ASSUME NEW t, Opening(t)
    PROVE  /\ t \in Seq(Steps) /\ Len(t) >= 1 /\ t[1] = Step("open")
           /\ \A k \in 2 .. Len(t) : t[k] \in InnerSteps
<1>1. PICK u \in Seq(InnerSteps) : t = <<Step("open")>> \o u BY DEF Opening
<1>2. Step("open") \in Steps /\ u \in Seq(Steps) BY StepKinds, InnerAreSteps
<1> DEFINE o == Step("open")    A == Steps    I == InnerSteps
<1>3. o \in A /\ u \in Seq(A) /\ u \in Seq(I) /\ t = <<o>> \o u BY <1>1, <1>2
<1> HIDE DEF o, A, I
<1>4. t \in Seq(A) /\ Len(t) = 1 + Len(u) /\ t[1] = o BY <1>3
<1>5. \A k \in 2 .. Len(t) : t[k] = u[k - 1] /\ k - 1 \in 1 .. Len(u) BY <1>3, <1>4
<1>6. \A k \in 1 .. Len(u) : u[k] \in I BY <1>3
<1>7. \A k \in 2 .. Len(t) : t[k] \in I BY <1>5, <1>6
<1>8. Len(t) >= 1 BY <1>3, <1>4
<1> QED BY <1>4, <1>7, <1>8 DEF o, A, I

\* The last steps of connect_to_device.
LEMMA StopAndReleaseSteps ==
    ASSUME NEW S, S = StopAndRelease
    PROVE  /\ S \in Seq(Steps) /\ Len(S) = 9
           /\ S[4] = Write(Stop, 0) /\ S[7] = Step("join")
           /\ S[8] = Write(Control, 0) /\ S[9] = Step("free")
           /\ \A k \in 5 .. 9 : S[k].reg # Start
           /\ \A k \in 8 .. 9 : S[k].do # "create"
           /\ \A k \in 1 .. 9 : S[k] \in InnerSteps
<1> DEFINE I == InnerSteps
<1>1. /\ Read(Control) \in I /\ Renew \in I /\ Read(Stop) \in I /\ Write(Stop, 0) \in I
      /\ Step("stop") \in I /\ Step("sleep") \in I /\ Step("join") \in I /\ Write(Control, 0) \in I
      /\ Step("free") \in I
  BY StepKinds
<1>2. S = <<Read(Control), Renew, Read(Stop), Write(Stop, 0),
            Step("stop"), Step("sleep"), Step("join"), Write(Control, 0), Step("free")>>
  BY DEF StopAndRelease
<1>3. /\ S \in Seq(I) /\ Len(S) = 9
      /\ S[1] = Read(Control) /\ S[2] = Renew /\ S[3] = Read(Stop) /\ S[4] = Write(Stop, 0)
      /\ S[5] = Step("stop") /\ S[6] = Step("sleep") /\ S[7] = Step("join")
      /\ S[8] = Write(Control, 0) /\ S[9] = Step("free")
  <2> DEFINE a == Read(Control)    b == Renew    c == Read(Stop)    d == Write(Stop, 0)
             e == Step("stop")    f == Step("sleep")    g == Step("join")    h == Write(Control, 0)
             i == Step("free")
  <2>1. /\ a \in I /\ b \in I /\ c \in I /\ d \in I /\ e \in I /\ f \in I /\ g \in I /\ h \in I /\ i \in I
        /\ S = <<a, b, c, d, e, f, g, h, i>>
    BY <1>1, <1>2
  <2> HIDE DEF a, b, c, d, e, f, g, h, i, I
  <2>2. /\ S \in Seq(I) /\ Len(S) = 9 /\ S[1] = a /\ S[2] = b /\ S[3] = c /\ S[4] = d /\ S[5] = e
        /\ S[6] = f /\ S[7] = g /\ S[8] = h /\ S[9] = i
    BY <2>1
  <2> QED BY <2>2 DEF a, b, c, d, e, f, g, h, i
<1>4. S \in Seq(Steps) BY <1>3, InnerAreSteps, Zenon
<1>5. \A k \in 1 .. 9 : S[k] \in InnerSteps
  <2>1. \A k \in 1 .. Len(S) : S[k] \in InnerSteps BY <1>3, LenProperties, Zenon
  <2> QED BY <1>3, <2>1
<1>6. \A k \in 5 .. 9 : k \in {5, 6, 7, 8, 9} OBVIOUS
<1>7. \A k \in 8 .. 9 : k \in {8, 9} OBVIOUS
<1>8. /\ Step("stop").reg # Start /\ Step("sleep").reg # Start /\ Step("join").reg # Start
      /\ Write(Control, 0).reg # Start /\ Step("free").reg # Start
      /\ Write(Control, 0).do # "create" /\ Step("free").do # "create"
  BY DEF Step, Write, Start, Control, Setup
<1>9. \A k \in 5 .. 9 : S[k].reg # Start BY <1>3, <1>6, <1>8, Zenon
<1>10. \A k \in 8 .. 9 : S[k].do # "create" BY <1>3, <1>7, <1>8, Zenon
<1> QED BY <1>3, <1>4, <1>5, <1>9, <1>10, Zenon

\* The last steps of test_capture.
LEMMA StopAndDestroySteps ==
    ASSUME NEW S, S = StopAndDestroy
    PROVE  /\ S \in Seq(Steps) /\ Len(S) = 10
           /\ S[3] = Write(Stop, 0) /\ S[7] = Step("join")
           /\ \A k \in 4 .. 10 : S[k].reg # Start
           /\ \A k \in 8 .. 10 : S[k].do # "create"
           /\ \A k \in 1 .. 9 : S[k] \in InnerSteps
           /\ S[10] = Step("free again")
<1> DEFINE I == InnerSteps
<1>1. /\ Write(Control, 2) \in I /\ Read(Stop) \in I /\ Write(Stop, 0) \in I
      /\ Step("stop") \in I /\ Step("close") \in I /\ Step("sleep") \in I /\ Step("join") \in I
      /\ Step("free") \in I
  BY StepKinds
<1>2. I \subseteq Steps /\ Step("free again") \in Steps BY StepKinds
<1>3. S = <<Write(Control, 2), Read(Stop), Write(Stop, 0)>>
          \o <<Step("stop"), Step("close"), Step("sleep"), Step("join")>>
          \o <<Step("close"), Step("free")>> \o <<Step("free again")>>
  BY DEF StopAndDestroy, gvcp_stop, gige_camera_destroy
<1> HIDE DEF I
<1>4. /\ S \in Seq(Steps) /\ Len(S) = 10
      /\ S[1] = Write(Control, 2) /\ S[2] = Read(Stop) /\ S[3] = Write(Stop, 0) /\ S[4] = Step("stop")
      /\ S[5] = Step("close") /\ S[6] = Step("sleep") /\ S[7] = Step("join")
      /\ S[8] = Step("close") /\ S[9] = Step("free") /\ S[10] = Step("free again")
  <2> DEFINE a == Write(Control, 2)    b == Read(Stop)    c == Write(Stop, 0)
             d == Step("stop")    e == Step("close")    f == Step("sleep")    g == Step("join")
             h == Step("free")    i == Step("free again")    A == Steps
  <2>1. /\ a \in A /\ b \in A /\ c \in A /\ d \in A /\ e \in A /\ f \in A /\ g \in A /\ h \in A /\ i \in A
        /\ S = <<a, b, c>> \o <<d, e, f, g>> \o <<e, h>> \o <<i>>
    BY <1>1, <1>2, <1>3
  <2> HIDE DEF a, b, c, d, e, f, g, h, i, A
  <2>2. /\ S \in Seq(A) /\ Len(S) = 10 /\ S[1] = a /\ S[2] = b /\ S[3] = c /\ S[4] = d /\ S[5] = e
        /\ S[6] = f /\ S[7] = g /\ S[8] = e /\ S[9] = h /\ S[10] = i
    BY <2>1
  <2> QED BY <2>2 DEF a, b, c, d, e, f, g, h, i, A
<1>5. \A k \in 1 .. 9 : k \in {1, 2, 3, 4, 5, 6, 7, 8, 9} OBVIOUS
<1>6. \A k \in 1 .. 9 : S[k] \in I BY <1>1, <1>4, <1>5, Zenon
<1>7. \A k \in 4 .. 10 : k \in {4, 5, 6, 7, 8, 9, 10} OBVIOUS
<1>8. \A k \in 8 .. 10 : k \in {8, 9, 10} OBVIOUS
<1>9. /\ Step("stop").reg # Start /\ Step("close").reg # Start /\ Step("sleep").reg # Start
      /\ Step("join").reg # Start /\ Step("free").reg # Start /\ Step("free again").reg # Start
      /\ Step("close").do # "create" /\ Step("free").do # "create" /\ Step("free again").do # "create"
  BY DEF Step, Start, Setup
<1>10. \A k \in 4 .. 10 : S[k].reg # Start BY <1>4, <1>7, <1>9, Zenon
<1>11. \A k \in 8 .. 10 : S[k].do # "create" BY <1>4, <1>8, <1>9, Zenon
<1> QED BY <1>4, <1>6, <1>10, <1>11, Zenon DEF I

Cat(t, u) == t \o u

\* Putting together is associative.
LEMMA CatAssociative ==
    ASSUME NEW S, NEW x \in Seq(S), NEW y \in Seq(S), NEW z \in Seq(S)
    PROVE  Cat(x, y) \in Seq(S) /\ Cat(Cat(x, y), z) = Cat(x, Cat(y, z))
BY ConcatAssociative DEF Cat

\* The pieces of test_capture from gvcp_stop on.
LEMMA LastPieces ==
    /\ gvcp_stop \in Seq(Steps) /\ gige_camera_destroy \in Seq(Steps)
    /\ <<Step("stop"), Step("close"), Step("sleep"), Step("join")>> \in Seq(Steps)
    /\ <<Step("free again")>> \in Seq(Steps)
<1> DEFINE A == Steps
<1>1. /\ Write(Control, 2) \in A /\ Read(Stop) \in A /\ Write(Stop, 0) \in A /\ Step("stop") \in A
      /\ Step("close") \in A /\ Step("sleep") \in A /\ Step("join") \in A /\ Step("free") \in A
      /\ Step("free again") \in A
  <2>1. Read(Stop) \in InnerSteps /\ Write(Stop, 0) \in InnerSteps /\ Write(Control, 2) \in InnerSteps
    BY StepKinds
  <2> QED BY <2>1, StepKinds
<1>2. gvcp_stop \in Seq(A) BY <1>1, ThreeSteps DEF gvcp_stop
<1>3. <<Step("stop"), Step("close"), Step("sleep"), Step("join")>> \in Seq(A) BY <1>1, FourSteps
<1>4. <<Step("free again")>> \in Seq(A) BY <1>1, OneStep
<1>5. gige_camera_destroy \in Seq(A) BY <1>1, TwoSteps DEF gige_camera_destroy
<1> QED BY <1>2, <1>3, <1>4, <1>5

\* The two scripts are a beginning and the last steps.
LEMMA ScriptParts ==
    /\ connect_to_device = OldBegin \o StopAndRelease
    /\ test_capture = NewBegin \o StopAndDestroy
<1>1. connect_to_device = OldBegin \o StopAndRelease BY DEF connect_to_device, OldBegin
<1>2. test_capture = NewBegin \o StopAndDestroy
  <2> DEFINE i == gige_camera_init
             s == gvcp_start
             c == <<Step("create")>>
             r == Repeat(gvcp_watchdog \o <<Step("sleep")>>, Rounds)
             p == gvcp_stop
             t == <<Step("stop"), Step("close"), Step("sleep"), Step("join")>>
             d == gige_camera_destroy
             u == <<Step("free again")>>
             Q == Seq(Steps)
             X == Cat(Cat(s, c), r)
             N == Cat(Cat(Cat(i, s), c), r)
             P == Cat(p, t)
  <2>1. i \in Q /\ s \in Q /\ c \in Q /\ r \in Q
    BY NewBeginOpens, OpeningSteps, NewPieces, StartIsInner, InnerAreSteps
  <2>2. p \in Q /\ t \in Q /\ d \in Q /\ u \in Q BY LastPieces
  <2>3. NewBegin = N BY DEF NewBegin, Cat
  <2>4. StopAndDestroy = Cat(Cat(P, d), u) BY DEF StopAndDestroy, Cat
  <2>5. test_capture = Cat(Cat(Cat(i, Cat(Cat(X, p), t)), d), u)
    BY DEF test_capture, gige_camera_test, Cat
  <2> HIDE DEF i, s, c, r, p, t, d, u
  <2>6. ASSUME NEW x \in Q, NEW y \in Q PROVE Cat(x, y) \in Q
    BY DEF Cat
  <2>7. ASSUME NEW x \in Q, NEW y \in Q, NEW z \in Q PROVE Cat(Cat(x, y), z) = Cat(x, Cat(y, z))
    BY CatAssociative
  <2> HIDE DEF Q
  <2>8. X \in Q /\ N \in Q /\ P \in Q BY <2>1, <2>2, <2>6
  <2>9. Cat(i, X) = N BY <2>1, <2>6, <2>7
  <2> HIDE DEF X, N, P
  <2>10. Cat(Cat(X, p), t) = Cat(X, P) BY <2>2, <2>7, <2>8 DEF P
  <2>11. Cat(i, Cat(X, P)) = Cat(N, P) BY <2>1, <2>7, <2>8, <2>9
  <2>12. Cat(Cat(N, P), d) = Cat(N, Cat(P, d)) /\ Cat(P, d) \in Q BY <2>2, <2>6, <2>7, <2>8
  <2>13. Cat(Cat(N, Cat(P, d)), u) = Cat(N, Cat(Cat(P, d), u)) BY <2>2, <2>7, <2>8, <2>12
  <2>14. test_capture = Cat(NewBegin, StopAndDestroy)
    BY <2>3, <2>4, <2>5, <2>10, <2>11, <2>12, <2>13
  <2> QED BY <2>14 DEF Cat
<1> QED BY <1>1, <1>2

\* Where the steps of two pieces are when they are put together.
LEMMA TwoPieces ==
    ASSUME NEW S, NEW t \in Seq(S), NEW u \in Seq(S), NEW m, NEW n, m = Len(t), n = Len(u),
           NEW s, s = t \o u
    PROVE  /\ s \in Seq(S) /\ Len(s) = m + n /\ m \in Nat /\ n \in Nat
           /\ \A k \in 1 .. m : s[k] = t[k]
           /\ \A k \in 1 .. n : s[m + k] = u[k]
OBVIOUS

\* The two parts of a script.
IsBegin(b, m) ==
    /\ b \in Seq(Steps) /\ m = Len(b) /\ m >= 1 /\ b[1] = Step("open")
    /\ \A k \in 2 .. m : b[k] \in InnerSteps

IsEnd(l, n) ==
    /\ l \in Seq(Steps) /\ n = Len(l) /\ n \in {9, 10}
    /\ \A k \in 1 .. 9 : l[k] \in InnerSteps
    /\ n = 10 => l[10] = Step("free again")

IsScript(s, l, m, n) ==
    /\ s \in Seq(Steps) /\ Len(s) = m + n /\ m \in Nat
    /\ s[1] = Step("open")
    /\ \A k \in 1 .. n : s[m + k] = l[k]
    /\ \A k \in 1 .. Len(s) : s[k].do = "open" => k = 1
    /\ \A k \in 1 .. Len(s) : s[k].do = "free again" => n = 10 /\ k = Len(s)

\* Where the steps of a script are.
LEMMA WholeScript ==
    ASSUME NEW b, NEW l, NEW m, NEW n, IsBegin(b, m), IsEnd(l, n), NEW s, s = b \o l
    PROVE  IsScript(s, l, m, n)
<1>1. b \in Seq(Steps) /\ l \in Seq(Steps) /\ m = Len(b) /\ n = Len(l) BY DEF IsBegin, IsEnd
<1>2. /\ s \in Seq(Steps) /\ Len(s) = m + n /\ m \in Nat /\ n \in Nat
      /\ \A k \in 1 .. m : s[k] = b[k]
      /\ \A k \in 1 .. n : s[m + k] = l[k]
  BY <1>1, TwoPieces
<1>3. m >= 1 /\ b[1] = Step("open") /\ \A k \in 2 .. m : b[k] \in InnerSteps BY DEF IsBegin
<1>4. n \in {9, 10} /\ (\A k \in 1 .. 9 : l[k] \in InnerSteps) /\ (n = 10 => l[10] = Step("free again"))
  BY DEF IsEnd
<1>5. s[1] = Step("open")
  <2>1. 1 \in 1 .. m BY <1>2, <1>3
  <2> QED BY <1>2, <1>3, <2>1, Zenon
<1>6. ASSUME NEW x \in InnerSteps PROVE x.do # "open" /\ x.do # "free again" BY DEF InnerSteps
<1>7. Step("free again").do = "free again" /\ Step("open").do = "open" BY DEF Step
<1> DEFINE L == Len(s)
<1>8. ASSUME NEW k \in 1 .. L
      PROVE  (s[k].do = "open" => k = 1) /\ (s[k].do = "free again" => n = 10 /\ k = L)
  <2>0. L = m + n /\ m \in Nat BY <1>2
  <2>a. n \in {9, 10} BY <1>4
  <2> HIDE DEF L
  <2>1. CASE k = 1 BY <1>5, <1>7, <2>1
  <2>2. CASE k \in 2 .. m
    <3>1. k \in 1 .. m BY <1>2, <2>2
    <3>2. s[k] \in InnerSteps BY <1>2, <1>3, <2>2, <3>1, Zenon
    <3> QED BY <1>6, <3>2, Zenon
  <2>3. CASE k > m /\ k <= m + 9
    <3>1. PICK j \in 1 .. 9 : k = m + j
      <4>1. k - m \in 1 .. 9 /\ k = m + (k - m) BY <2>0, <2>a, <2>3
      <4> QED BY <4>1
    <3>2. j \in 1 .. n BY <2>a
    <3>3. s[k] \in InnerSteps BY <1>2, <1>4, <3>1, <3>2, Zenon
    <3> QED BY <1>6, <3>3, Zenon
  <2>4. CASE n = 10 /\ k = m + 10
    <3>1. 10 \in 1 .. n BY <2>4
    <3>2. s[k] = Step("free again") BY <1>2, <1>4, <2>4, <3>1, Zenon
    <3> QED BY <1>7, <2>0, <2>4, <3>2
  <2>5. k = 1 \/ k \in 2 .. m \/ (k > m /\ k <= m + 9) \/ (n = 10 /\ k = m + 10)
    <3>1. k \in 1 .. m + n /\ m \in Nat /\ n \in {9, 10} BY <1>2, <1>4, <2>0
    <3> QED BY <3>1
  <2> QED BY <2>1, <2>2, <2>3, <2>4, <2>5, Zenon
<1> QED BY <1>2, <1>5, <1>8, Zenon DEF IsScript

\* What a script's steps are, as far as the end of the program depends on them.
ScriptShape ==
    /\ Script \in Seq(Steps) /\ First \in Nat /\ First >= 1
    /\ StopAt \in Nat /\ StopAt > First /\ StopAt < JoinAt
    /\ JoinAt = First + 7 /\ ReleaseAt = First + 8
    /\ Len(Script) \in Nat /\ Len(Script) > ReleaseAt
    /\ Old => Len(Script) = First + 9
    /\ Script[1] = Step("open")
    /\ \A k \in 1 .. Len(Script) : Script[k].do = "open" => k = 1
    /\ \A k \in 1 .. Len(Script) : Script[k].do = "free again" => ~Old /\ k = Len(Script)
    /\ Script[StopAt] = Write(Stop, 0) /\ Script[JoinAt] = Step("join")
    /\ \A k \in StopAt + 1 .. Len(Script) : Script[k].reg # Start
    /\ \A k \in JoinAt + 1 .. Len(Script) : Script[k].do # "create"
    /\ Old => Script[ReleaseAt] = Write(Control, 0) /\ Script[First + 9] = Step("free")

\* Both scripts have that shape, whatever the number of rounds.
LEMMA ScriptHasShape == ScriptShape
<1>1. CASE Old
  <2> DEFINE l == StopAndRelease
  <2>1. PICK m : m = Len(OldBegin) OBVIOUS
  <2>2. IsBegin(OldBegin, m)
    BY <2>1, OldBeginOpens, OpeningSteps, Zenon DEF IsBegin
  <2>3. /\ Len(l) = 9 /\ l[4] = Write(Stop, 0) /\ l[7] = Step("join")
        /\ l[8] = Write(Control, 0) /\ l[9] = Step("free")
        /\ \A k \in 5 .. 9 : l[k].reg # Start
        /\ \A k \in 8 .. 9 : l[k].do # "create"
    BY StopAndReleaseSteps, Zenon
  <2>4. IsEnd(l, 9) BY StopAndReleaseSteps DEF IsEnd
  <2>5. Script = OldBegin \o l BY <1>1, ScriptParts DEF Script
  <2>6. LastSteps = l BY <1>1 DEF LastSteps
  <2> HIDE DEF l
  <2>7. PICK s : s = Script OBVIOUS
  <2>a. s = OldBegin \o l BY <2>5, <2>7
  <2>8. /\ s \in Seq(Steps) /\ Len(s) = m + 9 /\ m \in Nat
        /\ s[1] = Step("open")
        /\ \A k \in 1 .. 9 : s[m + k] = l[k]
        /\ \A k \in 1 .. Len(s) : s[k].do = "open" => k = 1
        /\ \A k \in 1 .. Len(s) : s[k].do = "free again" => 9 = 10 /\ k = Len(s)
    <3>1. IsScript(s, l, m, 9) BY <2>2, <2>4, <2>a, WholeScript, Zenon
    <3> QED BY <3>1, Zenon DEF IsScript
  <2>9. PICK n : n = Len(s) OBVIOUS
  <2>10. n = m + 9 /\ m \in Nat /\ m >= 1 BY <2>2, <2>8, <2>9 DEF IsBegin
  <2>11. First = m
    <3>1. First = n - 9 BY <2>3, <2>6, <2>7, <2>9, Zenon DEF First
    <3> QED BY <2>10, <3>1
  <2>12. StopAt = m + 4 /\ JoinAt = m + 7 /\ ReleaseAt = m + 8
    BY <1>1, <2>11 DEF StopAt, JoinAt, ReleaseAt
  <2>13. s[m + 4] = Write(Stop, 0) /\ s[m + 7] = Step("join") /\ s[m + 8] = Write(Control, 0)
         /\ s[m + 9] = Step("free")
    <3>1. 4 \in 1 .. 9 /\ 7 \in 1 .. 9 /\ 8 \in 1 .. 9 /\ 9 \in 1 .. 9 OBVIOUS
    <3> QED BY <2>3, <2>8, <3>1, Zenon
  <2>14. ASSUME NEW k \in m + 5 .. n PROVE s[k].reg # Start
    <3>1. PICK j \in 5 .. 9 : k = m + j
      <4>1. k - m \in 5 .. 9 /\ k = m + (k - m) BY <2>10
      <4> QED BY <4>1
    <3>2. j \in 1 .. 9 OBVIOUS
    <3> QED BY <2>3, <2>8, <3>1, <3>2, Zenon
  <2>15. ASSUME NEW k \in m + 8 .. n PROVE s[k].do # "create"
    <3>1. PICK j \in 8 .. 9 : k = m + j
      <4>1. k - m \in 8 .. 9 /\ k = m + (k - m) BY <2>10
      <4> QED BY <4>1
    <3>2. j \in 1 .. 9 OBVIOUS
    <3> QED BY <2>3, <2>8, <3>1, <3>2, Zenon
  <2>16. /\ m + 4 \in Nat /\ m + 4 > m /\ m + 4 < m + 7 /\ n \in Nat /\ n > m + 8
         /\ (m + 4) + 1 = m + 5 /\ (m + 7) + 1 = m + 8 /\ 9 # 10
    BY <2>10
  <2> QED
    BY <1>1, <2>7, <2>8, <2>9, <2>10, <2>11, <2>12, <2>13, <2>14, <2>15, <2>16, Zenon DEF ScriptShape
<1>2. CASE ~Old
  <2> DEFINE l == StopAndDestroy
  <2>1. PICK m : m = Len(NewBegin) OBVIOUS
  <2>2. IsBegin(NewBegin, m)
    BY <2>1, NewBeginOpens, OpeningSteps, Zenon DEF IsBegin
  <2>3. /\ Len(l) = 10 /\ l[3] = Write(Stop, 0) /\ l[7] = Step("join")
        /\ \A k \in 4 .. 10 : l[k].reg # Start
        /\ \A k \in 8 .. 10 : l[k].do # "create"
    BY StopAndDestroySteps, Zenon
  <2>4. IsEnd(l, 10) BY StopAndDestroySteps DEF IsEnd
  <2>5. Script = NewBegin \o l BY <1>2, ScriptParts DEF Script
  <2>6. LastSteps = l BY <1>2 DEF LastSteps
  <2> HIDE DEF l
  <2>7. PICK s : s = Script OBVIOUS
  <2>a. s = NewBegin \o l BY <2>5, <2>7
  <2>8. /\ s \in Seq(Steps) /\ Len(s) = m + 10 /\ m \in Nat
        /\ s[1] = Step("open")
        /\ \A k \in 1 .. 10 : s[m + k] = l[k]
        /\ \A k \in 1 .. Len(s) : s[k].do = "open" => k = 1
        /\ \A k \in 1 .. Len(s) : s[k].do = "free again" => 10 = 10 /\ k = Len(s)
    <3>1. IsScript(s, l, m, 10) BY <2>2, <2>4, <2>a, WholeScript, Zenon
    <3> QED BY <3>1, Zenon DEF IsScript
  <2>9. PICK n : n = Len(s) OBVIOUS
  <2>10. n = m + 10 /\ m \in Nat /\ m >= 1 BY <2>2, <2>8, <2>9 DEF IsBegin
  <2>11. First = m
    <3>1. First = n - 10 BY <2>3, <2>6, <2>7, <2>9, Zenon DEF First
    <3> QED BY <2>10, <3>1
  <2>12. StopAt = m + 3 /\ JoinAt = m + 7 /\ ReleaseAt = m + 8
    BY <1>2, <2>11 DEF StopAt, JoinAt, ReleaseAt
  <2>13. s[m + 3] = Write(Stop, 0) /\ s[m + 7] = Step("join")
    <3>1. 3 \in 1 .. 10 /\ 7 \in 1 .. 10 OBVIOUS
    <3> QED BY <2>3, <2>8, <3>1, Zenon
  <2>14. ASSUME NEW k \in m + 4 .. n PROVE s[k].reg # Start
    <3>1. PICK j \in 4 .. 10 : k = m + j
      <4>1. k - m \in 4 .. 10 /\ k = m + (k - m) BY <2>10
      <4> QED BY <4>1
    <3>2. j \in 1 .. 10 OBVIOUS
    <3> QED BY <2>3, <2>8, <3>1, <3>2, Zenon
  <2>15. ASSUME NEW k \in m + 8 .. n PROVE s[k].do # "create"
    <3>1. PICK j \in 8 .. 10 : k = m + j
      <4>1. k - m \in 8 .. 10 /\ k = m + (k - m) BY <2>10
      <4> QED BY <4>1
    <3>2. j \in 1 .. 10 OBVIOUS
    <3> QED BY <2>3, <2>8, <3>1, <3>2, Zenon
  <2>16. /\ m + 3 \in Nat /\ m + 3 > m /\ m + 3 < m + 7 /\ n \in Nat /\ n > m + 8
         /\ (m + 3) + 1 = m + 4 /\ (m + 7) + 1 = m + 8
    BY <2>10
  <2> QED
    BY <1>2, <2>7, <2>8, <2>9, <2>10, <2>11, <2>12, <2>13, <2>14, <2>15, <2>16, Zenon DEF ScriptShape
<1> QED BY <1>1, <1>2

-----------------------------------------------------------------------------
(* The register dialogue.                                                  *)

\* The program that runs, and so its script, is fixed.
LEMMA FixedScript ==
    ASSUME program' = program
    PROVE  /\ Script' = Script /\ (Old' <=> Old)
           /\ StopAt' = StopAt /\ JoinAt' = JoinAt /\ ReleaseAt' = ReleaseAt
<1>1. (Old' <=> Old) BY DEF Old
<1>2. Script' = Script /\ LastSteps' = LastSteps BY DEF Script, LastSteps, Old
<1>3. First' = First BY <1>2 DEF First
<1>4. StopAt' = StopAt BY <1>3 DEF StopAt, Old
<1> QED BY <1>1, <1>2, <1>3, <1>4 DEF JoinAt, ReleaseAt

\* What a step of the main thread may be.
LEMMA MainCases ==
    ASSUME Main \/ Fails, NEW s, s = Script[pc]
    PROVE  /\ pc \in 1 .. Len(Script) /\ program' = program
           /\ \/ Asks(s) /\ (SendRequest(s) \/ ReceiveAck(s) \/ ReceiveBounce(s))
              \/ SkipRenewal(s)
              \/ OpenSockets(s) \/ CreateThread(s) \/ StopThread(s) \/ Proceed(s) \/ JoinThread(s)
              \/ (Old /\ ConnectFails(s)) \/ (~Old /\ (FreeAgain(s) \/ OpenFails(s)))
<1>1. pc \in 1 .. Len(Script) BY DEF Main, Fails, Running
<1>2. \/ Asks(s) /\ (SendRequest(s) \/ ReceiveAck(s) \/ ReceiveBounce(s))
      \/ SkipRenewal(s)
      \/ OpenSockets(s) \/ CreateThread(s) \/ StopThread(s) \/ Proceed(s) \/ JoinThread(s)
      \/ (Old /\ ConnectFails(s)) \/ (~Old /\ (FreeAgain(s) \/ OpenFails(s)))
  <2>1. CASE Main
    <3>1. CASE Old /\ OldMain(s)
      BY <3>1, Zenon DEF OldMain, RegisterAccess, read_register, write_register, Asks
    <3>2. CASE ~Old /\ MainStep(s)
      BY <3>2, Zenon DEF MainStep, read_register, write_register, Asks
    <3> QED BY <2>1, <3>1, <3>2, Zenon DEF Main
  <2>2. CASE Fails BY <2>2, Zenon DEF Fails
  <2> QED BY <2>1, <2>2
<1>3. program' = program
  BY <1>2 DEF SendRequest, ReceiveAck, ReceiveBounce, SkipRenewal, OpenSockets, CreateThread,
              StopThread, Proceed, JoinThread, ConnectFails, FreeAgain, OpenFails, Advance
<1> QED BY <1>1, <1>2, <1>3, Zenon

\* What a step of the thread that receives the stream may be.
LEMMA ThreadCases ==
    ASSUME DataThread
    PROVE  /\ UNCHANGED <<mainVars, gvcpVars, priv, streaming, cursor, swaps, live>>
           /\ thread \in {"loop", "select"} /\ thread' \in {"loop", "select", "ended"}
           /\ \/ UNCHANGED <<wire, frame, saved>>
              \/ Old /\ OldReceive
              \/ ~Old /\ GvspReceive
<1>1. CASE ThreadTest \/ SelectTimeout \/ ReceiveError
  BY <1>1 DEF ThreadTest, SelectTimeout, ReceiveError, streamVars
<1>2. CASE Old /\ OldReceive BY <1>2 DEF OldReceive, ReceivePacket
<1>3. CASE ~Old /\ GvspReceive BY <1>3 DEF GvspReceive, ReceivePacket
<1> QED BY <1>1, <1>2, <1>3, Zenon DEF DataThread, source_data_thread_udp, gvsp_thread

\* A step leaves the program that runs alone.
LEMMA ProgramStays ==
    ASSUME CaptureNext
    PROVE  program' = program
<1>1. CASE Main \/ Fails BY <1>1, MainCases
<1>2. CASE DataThread BY <1>2, ThreadCases DEF mainVars
<1>3. CASE Outside
  BY <1>3 DEF Outside, Camera, LoseDatagram, HandleRequest, HeartbeatExpires, CameraSends, mainVars
<1> QED BY <1>1, <1>2, <1>3 DEF CaptureNext

\* A step that leaves the main thread and the datagrams alone keeps the dialogue.
LEMMA DialogueUntouched ==
    ASSUME Dialogue, RequestIsStep, UNCHANGED <<mainVars, req, acks>>
    PROVE  Dialogue' /\ RequestIsStep'
<1>1. Script' = Script BY FixedScript DEF mainVars
<1>2. Dialogue' BY <1>1 DEF Dialogue, mainVars
<1>3. RequestIsStep' BY <1>1 DEF RequestIsStep, mainVars
<1> QED BY <1>2, <1>3

\* With nothing on its way and nobody waiting there is nothing to keep.
LEMMA DialogueSilent ==
    ASSUME waiting' = FALSE, req' = << >>, acks' = << >>
    PROVE  Dialogue' /\ RequestIsStep'
BY DEF Dialogue, RequestIsStep

\* Every step keeps the dialogue.
LEMMA DialogueStep ==
    ASSUME Dialogue, RequestIsStep, CaptureNext
    PROVE  Dialogue' /\ RequestIsStep'
<1>1. program' = program BY ProgramStays
<1>2. Script' = Script BY <1>1, FixedScript
<1>3. PICK s : s = Script[pc] OBVIOUS
<1>4. waiting => Asks(s) BY <1>3 DEF Dialogue
<1>5. ~waiting => req = << >> /\ acks = << >> BY DEF Dialogue
<1>6. waiting \in BOOLEAN BY DEF Dialogue
<1>7. CASE Main \/ Fails
  <2>1. CASE Asks(s) /\ SendRequest(s)
    <3>1. acks' = << >> /\ waiting' = TRUE /\ pc' = pc
      BY <1>5, <2>1 DEF SendRequest
    <3>2. req' = <<[op |-> pc, write |-> s.do # "read", reg |-> s.reg, val |-> s.val]>>
      BY <2>1 DEF SendRequest
    <3>3. Script'[pc'] = s BY <1>2, <1>3, <3>1
    <3>4. Len(req') = 1 /\ req' = <<req'[1]>> /\ req'[1].op = pc' BY <3>1, <3>2
    <3>5. Dialogue' BY <2>1, <3>1, <3>3, <3>4 DEF Dialogue
    <3>6. req'[1].write = (s.do # "read") /\ req'[1].reg = s.reg /\ req'[1].val = s.val BY <3>2
    <3>7. RequestIsStep' BY <3>3, <3>6, Zenon DEF RequestIsStep
    <3> QED BY <3>5, <3>7
  <2>2. CASE ReceiveAck(s)
    <3>1. req = << >> /\ Len(acks) = 1 /\ acks = <<acks[1]>> BY <2>2 DEF ReceiveAck, Dialogue
    <3>a. PICK a : acks = <<a>> BY <3>1
    <3>b. acks' = Tail(acks) /\ req' = req BY <2>2 DEF ReceiveAck
    <3>c. Tail(<<a>>) = << >> OBVIOUS
    <3>2. acks' = << >> /\ req' = << >> BY <3>1, <3>a, <3>b, <3>c, Zenon
    <3>3. CASE waiting' = FALSE BY <3>2, <3>3, DialogueSilent
    <3>4. CASE UNCHANGED <<pc, waiting>>
      BY <1>2, <1>6, <3>2, <3>4 DEF Dialogue, RequestIsStep
    <3> QED BY <2>2, <3>3, <3>4 DEF ReceiveAck
  <2>3. CASE ReceiveBounce(s)
    <3>1. acks = << >> BY <2>3 DEF ReceiveBounce, Dialogue
    <3>2. waiting' = FALSE /\ req' = << >> /\ acks' = << >> BY <2>3, <3>1 DEF ReceiveBounce
    <3> QED BY <3>2, DialogueSilent
  <2>4. CASE \/ SkipRenewal(s) \/ OpenSockets(s) \/ CreateThread(s) \/ StopThread(s) \/ Proceed(s)
             \/ JoinThread(s) \/ ConnectFails(s) \/ FreeAgain(s) \/ OpenFails(s)
    <3>1. ~waiting
      BY <1>4, <2>4 DEF SkipRenewal, OpenSockets, CreateThread, StopThread, Proceed, JoinThread,
                        ConnectFails, FreeAgain, OpenFails, Asks
    <3>2. UNCHANGED <<waiting, req, acks>>
      BY <2>4 DEF SkipRenewal, OpenSockets, CreateThread, StopThread, Proceed, JoinThread,
                  ConnectFails, FreeAgain, OpenFails, Advance, gvcpVars
    <3>3. waiting' = FALSE BY <1>6, <3>1, <3>2
    <3> QED BY <1>5, <3>1, <3>2, <3>3, DialogueSilent
  <2> QED BY <1>3, <1>7, <2>1, <2>2, <2>3, <2>4, MainCases, Zenon
<1>8. CASE DataThread BY <1>8, ThreadCases, DialogueUntouched DEF gvcpVars
<1>9. CASE Outside
  <2>1. CASE LoseDatagram
    <3>1. waiting BY <1>5, <1>6, <2>1 DEF LoseDatagram
    <3>2. UNCHANGED <<pc, waiting>> BY <2>1 DEF LoseDatagram, mainVars
    <3>3. req' = << >> /\ acks' = << >> BY <2>1 DEF LoseDatagram, Dialogue
    <3> QED BY <1>2, <3>1, <3>2, <3>3 DEF Dialogue, RequestIsStep
  <2>2. CASE HandleRequest
    <3>1. waiting BY <1>5, <1>6, <2>2 DEF HandleRequest
    <3>2. acks = << >> /\ req[1].op = pc BY <2>2 DEF HandleRequest, Dialogue
    <3>3. PICK a : acks' = Append(acks, a) /\ a.op = req[1].op BY <2>2 DEF HandleRequest
    <3>4. acks' = <<a>> BY <3>2, <3>3
    <3>5. req' = << >> /\ UNCHANGED <<pc, waiting>> BY <2>2 DEF HandleRequest, mainVars
    <3>6. Len(acks') = 1 /\ acks' = <<acks'[1]>> /\ acks'[1].op = pc' BY <3>2, <3>3, <3>4, <3>5
    <3>7. Dialogue' BY <1>2, <3>1, <3>5, <3>6 DEF Dialogue
    <3>8. RequestIsStep' BY <3>5 DEF RequestIsStep
    <3> QED BY <3>7, <3>8
  <2>3. CASE HeartbeatExpires(Script[pc]) \/ CameraSends
    <3>1. UNCHANGED <<mainVars, req, acks>> BY <2>3 DEF HeartbeatExpires, CameraSends, gvcpVars
    <3> QED BY <3>1, DialogueUntouched
  <2> QED BY <1>9, <2>1, <2>2, <2>3 DEF Outside, Camera
<1> QED BY <1>7, <1>8, <1>9 DEF CaptureNext

-----------------------------------------------------------------------------
(* The stream.                                                             *)

\* The camera's order is transitive, and what is behind a packet that comes
\* after the frame comes after the frame too.
LEMMA CameraOrder ==
    ASSUME NEW p \in Packet, NEW q \in Packet, Before(p, q)
    PROVE  /\ \A r \in Packet : Before(r, p) => Before(r, q)
           /\ \A f \in [started : BOOLEAN, id : Nat, blocks : Seq(Block)] : After(p, f) => After(q, f)
<1>1. p.id \in Nat /\ q.id \in Nat /\ p.n \in Nat /\ q.n \in Nat BY DEF Packet
<1>2. ASSUME NEW r \in Packet, Before(r, p) PROVE Before(r, q)
  <2>1. r.id \in Nat /\ r.n \in Nat BY DEF Packet
  <2> QED BY <1>1, <1>2, <2>1 DEF Before
<1>3. ASSUME NEW f \in [started : BOOLEAN, id : Nat, blocks : Seq(Block)], After(p, f)
      PROVE  After(q, f)
  <2>1. f.id \in Nat /\ f.blocks \in Seq(Block) OBVIOUS
  <2>2. \A k \in 1 .. Len(f.blocks) : f.blocks[k][2] \in Nat
    <3>1. \A k \in 1 .. Len(f.blocks) : f.blocks[k] \in Block BY <2>1
    <3> QED BY <3>1 DEF Block
  <2>3. CASE p.id > f.id BY <1>1, <2>1, <2>3 DEF Before, After
  <2>4. CASE p.id = f.id /\ f.started /\ \A k \in 1 .. Len(f.blocks) : f.blocks[k][2] < p.n
    <3>1. CASE q.id > p.id BY <1>1, <2>1, <2>4, <3>1 DEF After
    <3>2. CASE q.id = p.id /\ p.n < q.n
      <4>1. \A k \in 1 .. Len(f.blocks) : f.blocks[k][2] < q.n BY <1>1, <2>2, <2>4, <3>2
      <4> QED BY <2>4, <3>2, <4>1 DEF After
    <3> QED BY <1>1, <3>1, <3>2 DEF Before
  <2> QED BY <1>3, <2>3, <2>4 DEF After
<1> QED BY <1>2, <1>3

\* A step that leaves the stream alone.
LEMMA StreamUntouched ==
    ASSUME StreamInv, UNCHANGED <<program, cursor, wire, swaps, frame, saved>>
    PROVE  StreamInv'
BY DEF StreamInv, StreamType, StreamOrder, FilesInOrder, Old

\* The camera goes on to a later packet; what it has sent, or nothing, joins
\* the wire.
LEMMA CameraStep ==
    ASSUME StreamInv, UNCHANGED <<program, frame, saved>>,
           cursor' \in Packet,
           \/ cursor' = cursor /\ UNCHANGED <<wire, swaps>>
           \/ /\ Before(cursor, cursor')
              /\ \/ UNCHANGED <<wire, swaps>>
                 \/ wire' = Append(wire, cursor) /\ swaps' = swaps
                 \/ wire' \in Seq(Packet) /\ swaps' = swaps + 1
    PROVE  StreamInv'
<1> USE DEF StreamInv
<1>1. cursor \in Packet /\ wire \in Seq(Packet) /\ swaps \in Nat BY DEF StreamType
<1>2. frame \in [started : BOOLEAN, id : Nat, blocks : Seq(Block)] BY DEF StreamType
<1>3. (Old => FilesInOrder)' BY DEF FilesInOrder, Old
<1>4. StreamType'
  <2>1. wire' \in Seq(Packet) /\ swaps' \in Nat BY <1>1
  <2> QED BY <2>1 DEF StreamType
<1>5. ASSUME swaps' = 0 PROVE StreamOrder'
  <2>1. swaps = 0 /\ ~(swaps' = swaps + 1) BY <1>1, <1>5
  <2>2. StreamOrder BY <2>1
  <2>3. CASE cursor' = cursor /\ UNCHANGED wire
    BY <2>2, <2>3 DEF StreamOrder, FilesInOrder
  <2>4. CASE Before(cursor, cursor') /\ (wire' = wire \/ wire' = Append(wire, cursor))
    <3>1. After(cursor', frame) BY <1>1, <1>2, <2>2, <2>4, CameraOrder DEF StreamOrder
    <3>2. \A i \in 1 .. Len(wire) : wire[i] \in Packet BY <1>1
    <3>3. \A i \in 1 .. Len(wire) : Before(wire[i], cursor')
      BY <1>1, <2>2, <2>4, <3>2, CameraOrder DEF StreamOrder
    <3>4. CASE wire' = wire
      BY <2>2, <3>1, <3>3, <3>4 DEF StreamOrder, FilesInOrder
    <3>5. CASE wire' = Append(wire, cursor)
      <4>1. Len(wire') = Len(wire) + 1 /\ wire'[Len(wire) + 1] = cursor /\ Len(wire) \in Nat
            /\ \A i \in 1 .. Len(wire) : wire'[i] = wire[i]
        BY <1>1, <3>5
      <4>2. \A i \in 1 .. Len(wire') : i \in 1 .. Len(wire) \/ i = Len(wire) + 1 BY <4>1
      <4>3. ASSUME NEW i \in 1 .. Len(wire') PROVE Before(wire'[i], cursor') /\ After(wire'[i], frame)
        BY <2>2, <2>4, <3>3, <4>1, <4>2 DEF StreamOrder
      <4>4. ASSUME NEW i \in 1 .. Len(wire'), NEW j \in 1 .. Len(wire'), i < j
            PROVE  Before(wire'[i], wire'[j])
        <5>1. i \in 1 .. Len(wire) BY <4>1, <4>4
        <5>2. CASE j \in 1 .. Len(wire) BY <2>2, <4>1, <4>4, <5>1, <5>2 DEF StreamOrder
        <5>3. CASE j = Len(wire) + 1 BY <2>2, <4>1, <5>1, <5>3 DEF StreamOrder
        <5> QED BY <4>2, <5>2, <5>3
      <4> QED BY <2>2, <3>1, <4>3, <4>4 DEF StreamOrder, FilesInOrder
    <3> QED BY <2>4, <3>4, <3>5
  <2> QED BY <2>1, <2>3, <2>4
<1> QED BY <1>3, <1>4, <1>5

\* A packet that begins a frame, or is added to the one at hand.
Begins(p) ==
    /\ p.id # frame.id /\ (Old => p.id > frame.id)
    /\ saved' = IF frame.started THEN Append(saved, [id |-> frame.id, blocks |-> frame.blocks])
                                 ELSE saved
    /\ frame' = [started |-> TRUE, id |-> p.id, blocks |-> Gather(<< >>, p)]

Continues(p) ==
    /\ ~(p.id > frame.id)
    /\ saved' = saved
    /\ frame' = IF frame.started THEN [frame EXCEPT !.blocks = Gather(frame.blocks, p)] ELSE frame

\* The two receivers differ in the test for a new frame.  A packet of a lower id
\* begins a frame in gvsp_thread only.
LEMMA ReceiveCases ==
    ASSUME StreamType, (Old /\ OldReceive) \/ (~Old /\ GvspReceive), NEW p, p = Head(wire)
    PROVE  /\ wire # << >> /\ wire' = Tail(wire) /\ (Begins(p) \/ Continues(p))
<1>1. p.id \in Nat /\ frame.id \in Nat
  <2>1. wire # << >> /\ wire \in Seq(Packet) BY DEF OldReceive, GvspReceive, StreamType
  <2>2. p \in Packet BY <2>1
  <2> QED BY <2>2 DEF Packet, StreamType
<1>2. CASE Old /\ OldReceive
  <2>1. CASE p.id > frame.id
    <3>1. HandOver(frame) /\ frame' = [started |-> TRUE, id |-> p.id, blocks |-> Gather(<< >>, p)]
      BY <1>2, <2>1 DEF OldReceive, ReceivePacket
    <3> QED BY <1>1, <1>2, <2>1, <3>1 DEF Begins, HandOver, OldReceive, ReceivePacket
  <2>2. CASE ~(p.id > frame.id)
    BY <1>2, <2>2 DEF OldReceive, ReceivePacket, Continues
  <2> QED BY <2>1, <2>2
<1>3. CASE ~Old /\ GvspReceive
  <2>1. CASE p.id # frame.id
    <3>1. HandOver(frame) /\ frame' = [started |-> TRUE, id |-> p.id, blocks |-> Gather(<< >>, p)]
      BY <1>3, <2>1 DEF GvspReceive, ReceivePacket
    <3> QED BY <1>3, <2>1, <3>1 DEF Begins, HandOver, GvspReceive, ReceivePacket
  <2>2. CASE p.id = frame.id
    BY <1>1, <1>3, <2>2 DEF GvspReceive, ReceivePacket, Continues
  <2> QED BY <2>1, <2>2
<1> QED BY <1>2, <1>3

\* A packet that is added keeps the blocks of a frame in order, and whatever
\* comes behind the packet comes behind them.
LEMMA GatherInOrder ==
    ASSUME NEW b \in Seq(Block), NEW p \in Packet, InOrder(p.id, b),
           \A k \in 1 .. Len(b) : b[k][2] < p.n
    PROVE  /\ InOrder(p.id, Gather(b, p))
           /\ \A k \in 1 .. Len(Gather(b, p)) : Gather(b, p)[k][2] <= p.n
<1>1. p.id \in Nat /\ p.n \in Nat BY DEF Packet
<1>2. \A k \in 1 .. Len(b) : b[k][2] \in Nat
  <2>1. \A k \in 1 .. Len(b) : b[k] \in Block OBVIOUS
  <2> QED BY <2>1 DEF Block
<1>3. CASE Gather(b, p) = b
  BY <1>1, <1>2, <1>3
<1>4. CASE Gather(b, p) = Append(b, <<p.id, p.n>>)
  <2> DEFINE g == Gather(b, p)
             e == <<p.id, p.n>>
  <2>0. e[1] = p.id /\ e[2] = p.n OBVIOUS
  <2> HIDE DEF e
  <2>1. /\ Len(g) = Len(b) + 1 /\ g[Len(b) + 1] = e /\ Len(b) \in Nat
        /\ \A k \in 1 .. Len(b) : g[k] = b[k]
    BY <1>4 DEF e
  <2> HIDE DEF g
  <2>2. \A k \in 1 .. Len(g) : k \in 1 .. Len(b) \/ k = Len(b) + 1 BY <2>1
  <2>3. \A k \in 1 .. Len(g) : g[k][1] = p.id BY <2>0, <2>1, <2>2 DEF InOrder
  <2>4. ASSUME NEW i \in 1 .. Len(g), NEW j \in 1 .. Len(g), i < j PROVE g[i][2] < g[j][2]
    <3>1. i \in 1 .. Len(b) BY <2>1, <2>4
    <3>2. CASE j \in 1 .. Len(b) BY <2>1, <2>4, <3>1, <3>2 DEF InOrder
    <3>3. CASE j = Len(b) + 1 BY <2>0, <2>1, <3>1, <3>3
    <3> QED BY <2>2, <3>2, <3>3
  <2>5. ASSUME NEW k \in 1 .. Len(g) PROVE g[k][2] <= p.n
    <3>1. CASE k \in 1 .. Len(b) BY <1>1, <1>2, <2>1, <3>1
    <3>2. CASE k = Len(b) + 1 BY <1>1, <2>0, <2>1, <3>2
    <3> QED BY <2>2, <3>1, <3>2
  <2> QED BY <2>3, <2>4, <2>5 DEF InOrder, g
<1> QED BY <1>3, <1>4 DEF Gather

\* Gathering keeps the type of the blocks.
LEMMA GatherType ==
    ASSUME NEW b \in Seq(Block), NEW p \in Packet
    PROVE  Gather(b, p) \in Seq(Block)
<1>1. <<p.id, p.n>> \in Block BY DEF Packet, Block
<1> QED BY <1>1 DEF Gather

\* The type of what is gathered and handed over.
LEMMA ReceiveType ==
    ASSUME StreamType, wire # << >>, wire' = Tail(wire), UNCHANGED <<cursor, swaps>>,
           NEW p, p = Head(wire), Begins(p) \/ Continues(p)
    PROVE  StreamType' /\ p \in Packet
<1>1. /\ cursor \in Packet /\ wire \in Seq(Packet) /\ swaps \in Nat
      /\ frame \in [started : BOOLEAN, id : Nat, blocks : Seq(Block)]
      /\ saved \in Seq(File)
      /\ ~frame.started => frame.id = 0 /\ saved = << >> /\ frame.blocks = << >>
  BY DEF StreamType
<1>2. p \in Packet /\ wire' \in Seq(Packet) BY <1>1
<1>3. p.id \in Nat BY <1>2 DEF Packet
<1>4. frame.id \in Nat /\ frame.blocks \in Seq(Block) /\ frame.started \in BOOLEAN BY <1>1
<1>5. CASE Begins(p)
  <2>1. Gather(<< >>, p) \in Seq(Block)
    <3>1. << >> \in Seq(Block) OBVIOUS
    <3> QED BY <1>2, <3>1, GatherType
  <2>2. /\ frame' \in [started : BOOLEAN, id : Nat, blocks : Seq(Block)]
        /\ frame'.started = TRUE
    BY <1>3, <1>5, <2>1 DEF Begins
  <2>3. saved' \in Seq(File)
    <3>1. PICK e : e = [id |-> frame.id, blocks |-> frame.blocks] OBVIOUS
    <3>2. e \in File BY <1>4, <3>1 DEF File
    <3>3. saved' = saved \/ saved' = Append(saved, e) BY <1>5, <3>1 DEF Begins
    <3>4. saved \in Seq(File) BY <1>1
    <3>5. Append(saved, e) \in Seq(File) BY <3>2, <3>4
    <3> QED BY <3>3, <3>4, <3>5
  <2> QED BY <1>1, <1>2, <2>2, <2>3 DEF StreamType
<1>6. CASE Continues(p)
  <2>1. Gather(frame.blocks, p) \in Seq(Block) BY <1>2, <1>4, GatherType
  <2>2. /\ frame' \in [started : BOOLEAN, id : Nat, blocks : Seq(Block)]
        /\ frame'.started = frame.started /\ frame'.id = frame.id
        /\ ~frame.started => frame'.blocks = frame.blocks
    BY <1>1, <1>6, <2>1 DEF Continues
  <2>3. saved' = saved BY <1>6 DEF Continues
  <2> QED BY <1>1, <1>2, <2>2, <2>3 DEF StreamType
<1> QED BY <1>2, <1>5, <1>6

\* A frame that begins has a greater id than the one before: then the frames
\* handed over are in order.
LEMMA FilesStep ==
    ASSUME StreamType, FilesInOrder, NEW p \in Packet,
           (Begins(p) /\ p.id > frame.id) \/ Continues(p)
    PROVE  FilesInOrder'
<1>1. /\ frame \in [started : BOOLEAN, id : Nat, blocks : Seq(Block)]
      /\ saved \in Seq(File)
  BY DEF StreamType
<1>2. frame.id \in Nat /\ p.id \in Nat /\ Len(saved) \in Nat BY <1>1 DEF Packet
<1>3. \A k \in 1 .. Len(saved) : saved[k].id \in Nat
  <2>1. \A k \in 1 .. Len(saved) : saved[k] \in File BY <1>1
  <2> QED BY <2>1 DEF File
<1>4. CASE Begins(p) /\ p.id > frame.id
  <2>1. frame'.id = p.id BY <1>4 DEF Begins
  <2>2. CASE ~frame.started
    <3>1. saved' = saved BY <1>4, <2>2 DEF Begins
    <3> QED BY <1>2, <1>3, <1>4, <2>1, <3>1 DEF FilesInOrder
  <2>3. CASE frame.started
    <3>1. saved' = Append(saved, [id |-> frame.id, blocks |-> frame.blocks]) BY <1>4, <2>3 DEF Begins
    <3>2. PICK e : e = [id |-> frame.id, blocks |-> frame.blocks] OBVIOUS
    <3>3. e.id = frame.id BY <3>2
    <3>4. /\ Len(saved') = Len(saved) + 1 /\ saved'[Len(saved) + 1] = e
          /\ \A k \in 1 .. Len(saved) : saved'[k] = saved[k]
      BY <1>1, <3>1, <3>2
    <3>5. \A k \in 1 .. Len(saved') : k \in 1 .. Len(saved) \/ k = Len(saved) + 1 BY <1>2, <3>4
    <3>6. ASSUME NEW i \in 1 .. Len(saved') PROVE saved'[i].id < frame'.id
      <4>1. CASE i \in 1 .. Len(saved)
        <5>1. saved'[i] = saved[i] /\ saved[i].id < frame.id /\ saved[i].id \in Nat
          BY <1>3, <3>4, <4>1 DEF FilesInOrder
        <5> QED BY <1>2, <1>4, <2>1, <5>1
      <4>2. CASE i = Len(saved) + 1 BY <1>2, <1>4, <2>1, <3>3, <3>4, <4>2
      <4> QED BY <3>5, <4>1, <4>2
    <3>7. ASSUME NEW i \in 1 .. Len(saved'), NEW j \in 1 .. Len(saved'), i < j
          PROVE  saved'[i].id < saved'[j].id
      <4>1. i \in 1 .. Len(saved) BY <1>2, <3>4, <3>7
      <4>2. CASE j \in 1 .. Len(saved)
        <5>1. saved'[i] = saved[i] /\ saved'[j] = saved[j] BY <3>4, <4>1, <4>2
        <5> QED BY <3>7, <4>1, <4>2, <5>1 DEF FilesInOrder
      <4>3. CASE j = Len(saved) + 1
        <5>1. saved'[i] = saved[i] /\ saved'[j] = e BY <3>4, <4>1, <4>3
        <5> QED BY <3>3, <4>1, <5>1 DEF FilesInOrder
      <4> QED BY <3>5, <4>2, <4>3
    <3> QED BY <3>6, <3>7 DEF FilesInOrder
  <2> QED BY <2>2, <2>3
<1>5. CASE Continues(p)
  <2>1. saved' = saved /\ frame'.id = frame.id BY <1>1, <1>5 DEF Continues
  <2> QED BY <2>1 DEF FilesInOrder
<1> QED BY <1>4, <1>5

\* Receiving a packet keeps the stream in order.
LEMMA ReceiveStep ==
    ASSUME StreamInv, (Old /\ OldReceive) \/ (~Old /\ GvspReceive),
           UNCHANGED <<program, cursor, swaps>>
    PROVE  StreamInv'
<1> USE DEF StreamInv
<1>1. PICK p : p = Head(wire) OBVIOUS
<1>2. wire # << >> /\ wire' = Tail(wire) /\ (Begins(p) \/ Continues(p)) BY <1>1, ReceiveCases
<1>3. StreamType' /\ p \in Packet BY <1>1, <1>2, ReceiveType
<1>4. p.id \in Nat /\ p.n \in Nat /\ p.id > 0 BY <1>3 DEF Packet
<1>5. /\ cursor \in Packet /\ wire \in Seq(Packet) /\ swaps \in Nat
      /\ frame \in [started : BOOLEAN, id : Nat, blocks : Seq(Block)]
      /\ saved \in Seq(File)
  BY DEF StreamType
<1>6. frame.id \in Nat /\ frame.blocks \in Seq(Block) BY <1>5
<1>7. ASSUME Old' PROVE FilesInOrder'
  <2>1. Old BY <1>7 DEF Old
  <2>2. (Begins(p) /\ p.id > frame.id) \/ Continues(p) BY <1>2, <2>1 DEF Begins
  <2> QED BY <1>3, <2>1, <2>2, FilesStep
<1>8. ASSUME swaps' = 0 PROVE StreamOrder'
  <2>1. StreamOrder BY <1>8
  <2>2. p = wire[1] /\ Len(wire) >= 1 /\ Len(wire') = Len(wire) - 1 /\ Len(wire) \in Nat
        /\ \A k \in 1 .. Len(wire') : wire'[k] = wire[k + 1] /\ k + 1 \in 1 .. Len(wire)
    BY <1>1, <1>2, <1>5
  <2>3. After(p, frame) /\ Before(p, cursor) BY <2>1, <2>2 DEF StreamOrder
  <2>4. \A k \in 1 .. Len(wire') : Before(p, wire'[k]) /\ wire'[k] \in Packet
    <3>1. \A k \in 1 .. Len(wire') : 1 < k + 1 BY <2>2
    <3>2. \A k \in 1 .. Len(wire') : Before(p, wire'[k]) BY <2>1, <2>2, <3>1 DEF StreamOrder
    <3>3. \A k \in 1 .. Len(wire) : wire[k] \in Packet BY <1>5
    <3> QED BY <2>2, <3>2, <3>3
  <2>5. \A k \in 1 .. Len(wire') : Before(wire'[k], cursor) BY <2>1, <2>2 DEF StreamOrder
  <2>6. \A i, j \in 1 .. Len(wire') : i < j => Before(wire'[i], wire'[j])
    <3>1. \A i, j \in 1 .. Len(wire') : i < j => i + 1 < j + 1 BY <2>2
    <3> QED BY <2>1, <2>2, <3>1 DEF StreamOrder
  <2>7. (Begins(p) /\ p.id > frame.id) \/ (Continues(p) /\ p.id = frame.id /\ frame.started)
    BY <1>2, <1>4, <1>6, <2>3 DEF Begins, Continues, After
  <2>8. FilesInOrder' BY <1>3, <2>1, <2>7, FilesStep DEF StreamOrder
  <2>9. \A k \in 1 .. Len(saved') : InOrder(saved'[k].id, saved'[k].blocks)
    <3>1. CASE saved' = saved BY <2>1, <3>1 DEF StreamOrder
    <3>2. CASE saved' = Append(saved, [id |-> frame.id, blocks |-> frame.blocks])
      <4>1. PICK e : e = [id |-> frame.id, blocks |-> frame.blocks] OBVIOUS
      <4>2. e.id = frame.id /\ e.blocks = frame.blocks BY <4>1
      <4>3. /\ Len(saved') = Len(saved) + 1 /\ saved'[Len(saved) + 1] = e /\ Len(saved) \in Nat
            /\ \A k \in 1 .. Len(saved) : saved'[k] = saved[k]
        BY <1>5, <3>2, <4>1
      <4>4. \A k \in 1 .. Len(saved') : k \in 1 .. Len(saved) \/ k = Len(saved) + 1 BY <4>3
      <4> QED BY <2>1, <4>2, <4>3, <4>4 DEF StreamOrder
    <3> QED BY <1>2, <3>1, <3>2 DEF Begins, Continues
  <2>10. /\ InOrder(frame'.id, frame'.blocks)
         /\ frame'.id = p.id /\ frame'.started /\ \A k \in 1 .. Len(frame'.blocks) : frame'.blocks[k][2] <= p.n
    <3>1. CASE Begins(p) /\ p.id > frame.id
      <4>1. << >> \in Seq(Block) /\ InOrder(p.id, << >>) /\ Len(<< >>) = 0 BY DEF InOrder
      <4>2. \A k \in 1 .. Len(<< >>) : << >>[k][2] < p.n BY <4>1
      <4>3. /\ InOrder(p.id, Gather(<< >>, p))
            /\ \A k \in 1 .. Len(Gather(<< >>, p)) : Gather(<< >>, p)[k][2] <= p.n
        BY <1>3, <4>1, <4>2, GatherInOrder
      <4>4. frame'.id = p.id /\ frame'.blocks = Gather(<< >>, p) /\ frame'.started BY <3>1 DEF Begins
      <4> QED BY <4>3, <4>4
    <3>2. CASE Continues(p) /\ p.id = frame.id /\ frame.started
      <4>1. \A k \in 1 .. Len(frame.blocks) : frame.blocks[k][2] < p.n
        BY <1>4, <1>6, <2>3, <3>2 DEF After
      <4>2. InOrder(p.id, frame.blocks) BY <2>1, <3>2 DEF StreamOrder
      <4>3. PICK b : b = frame.blocks OBVIOUS
      <4>4. /\ InOrder(p.id, Gather(b, p))
            /\ \A k \in 1 .. Len(Gather(b, p)) : Gather(b, p)[k][2] <= p.n
        BY <1>3, <1>6, <4>1, <4>2, <4>3, GatherInOrder
      <4>5. frame'.id = p.id /\ frame'.blocks = Gather(b, p) /\ frame'.started
        BY <1>5, <3>2, <4>3 DEF Continues
      <4> QED BY <4>4, <4>5
    <3> QED BY <2>7, <3>1, <3>2
  <2>11. ASSUME NEW q \in Packet, Before(p, q) PROVE After(q, frame')
    <3>1. q.id \in Nat /\ q.n \in Nat BY DEF Packet
    <3>2. \A k \in 1 .. Len(frame'.blocks) : frame'.blocks[k][2] \in Nat
      <4>1. frame'.blocks \in Seq(Block) BY <1>3 DEF StreamType
      <4>2. \A k \in 1 .. Len(frame'.blocks) : frame'.blocks[k] \in Block BY <4>1
      <4> QED BY <4>2 DEF Block
    <3>3. CASE p.id < q.id BY <1>4, <2>10, <3>1, <3>3 DEF After
    <3>4. CASE p.id = q.id /\ p.n < q.n
      <4>1. \A k \in 1 .. Len(frame'.blocks) : frame'.blocks[k][2] < q.n
        BY <1>4, <2>10, <3>1, <3>2, <3>4
      <4> QED BY <2>10, <3>4, <4>1 DEF After
    <3> QED BY <2>11, <3>3, <3>4 DEF Before
  <2>12. After(cursor, frame') /\ \A k \in 1 .. Len(wire') : After(wire'[k], frame')
    BY <1>5, <2>3, <2>4, <2>11
  <2> QED BY <2>5, <2>6, <2>8, <2>9, <2>10, <2>12 DEF StreamOrder
<1> QED BY <1>3, <1>7, <1>8

\* Every step keeps the stream in order.
LEMMA StreamStep ==
    ASSUME StreamInv, CaptureNext
    PROVE  StreamInv'
<1>1. program' = program BY ProgramStays
<1>2. /\ cursor \in Packet /\ wire \in Seq(Packet) /\ swaps \in Nat
  BY DEF StreamInv, StreamType
<1>3. cursor.id \in Nat \ {0} /\ cursor.n \in Nat BY <1>2 DEF Packet
<1>4. CASE Main \/ Fails
  <2>1. PICK s : s = Script[pc] OBVIOUS
  <2>2. UNCHANGED <<cursor, wire, swaps, frame, saved>>
    BY <1>4, <2>1, MainCases
    DEF SendRequest, ReceiveAck, ReceiveBounce, SkipRenewal, OpenSockets, CreateThread,
        StopThread, Proceed, JoinThread, ConnectFails, FreeAgain, OpenFails, streamVars, threadVars
  <2> QED BY <1>1, <2>2, StreamUntouched
<1>5. CASE DataThread
  <2>1. UNCHANGED <<cursor, swaps>> BY <1>5, ThreadCases
  <2>2. CASE UNCHANGED <<wire, frame, saved>> BY <1>1, <2>1, <2>2, StreamUntouched
  <2>3. CASE (Old /\ OldReceive) \/ (~Old /\ GvspReceive) BY <1>1, <2>1, <2>3, ReceiveStep
  <2> QED BY <1>5, <2>2, <2>3, ThreadCases, Zenon
<1>6. CASE LoseDatagram \/ HandleRequest
  <2>1. UNCHANGED <<cursor, wire, swaps, frame, saved>>
    BY <1>6 DEF LoseDatagram, HandleRequest, streamVars, threadVars
  <2> QED BY <1>1, <2>1, StreamUntouched
<1>7. CASE HeartbeatExpires(Script[pc])
  <2>1. UNCHANGED <<wire, swaps, frame, saved>> BY <1>7 DEF HeartbeatExpires, threadVars
  <2>2. cursor' = cursor \/ cursor' = [id |-> cursor.id + 1, n |-> 0] BY <1>7 DEF HeartbeatExpires
  <2>3. CASE cursor' = cursor BY <1>1, <1>2, <2>1, <2>3, CameraStep
  <2>4. CASE cursor' = [id |-> cursor.id + 1, n |-> 0]
    <3>1. cursor' \in Packet /\ cursor'.id = cursor.id + 1 BY <1>3, <2>4 DEF Packet
    <3>2. Before(cursor, cursor') BY <1>3, <3>1 DEF Before
    <3> QED BY <1>1, <2>1, <3>1, <3>2, CameraStep
  <2> QED BY <2>2, <2>3, <2>4
<1>8. CASE CameraSends
  <2>1. cursor' = NextPacket /\ UNCHANGED <<frame, saved>> BY <1>8 DEF CameraSends, threadVars
  <2>2. cursor' \in Packet /\ Before(cursor, cursor')
    <3>1. CASE cursor' = [cursor EXCEPT !.n = cursor.n + 1]
      <4>1. cursor' \in Packet /\ cursor'.id = cursor.id /\ cursor'.n = cursor.n + 1
        BY <1>2, <1>3, <3>1 DEF Packet
      <4> QED BY <1>3, <4>1 DEF Before
    <3>2. CASE cursor' = [id |-> cursor.id + 1, n |-> 0]
      <4>1. cursor' \in Packet /\ cursor'.id = cursor.id + 1 BY <1>3, <3>2 DEF Packet
      <4> QED BY <1>3, <4>1 DEF Before
    <3> QED BY <2>1, <3>1, <3>2 DEF NextPacket
  <2>3. CASE UNCHANGED <<wire, swaps>> BY <1>1, <2>1, <2>2, <2>3, CameraStep
  <2>4. CASE wire' = Append(wire, cursor) /\ swaps' = swaps BY <1>1, <2>1, <2>2, <2>4, CameraStep
  <2>5. CASE /\ Len(wire) \in 1 .. QueueCap - 1
             /\ wire' = SubSeq(wire, 1, Len(wire) - 1) \o <<cursor, wire[Len(wire)]>>
             /\ swaps' = swaps + 1
    <3>1. wire' \in Seq(Packet)
      <4>1. Len(wire) \in Nat /\ Len(wire) >= 1 BY <1>2, <2>5, CameraAssumption
      <4>2. \A k \in 1 .. Len(wire) : wire[k] \in Packet BY <1>2
      <4>3. wire[Len(wire)] \in Packet BY <4>1, <4>2
      <4>4. SubSeq(wire, 1, Len(wire) - 1) \in Seq(Packet) BY <1>2, <4>1, <4>2, SubSeqProperties
      <4>5. <<cursor, wire[Len(wire)]>> \in Seq(Packet) BY <1>2, <4>3, TwoSteps
      <4> QED BY <2>5, <4>4, <4>5, ConcatProperties
    <3> QED BY <1>1, <2>1, <2>2, <2>5, <3>1, CameraStep
  <2> QED BY <1>8, <2>3, <2>4, <2>5 DEF CameraSends
<1> QED BY <1>4, <1>5, <1>6, <1>7, <1>8 DEF CaptureNext, Outside, Camera

-----------------------------------------------------------------------------
(* The end of the program.                                                 *)

\* A step that leaves everything alone that the end depends on, or takes only a
\* datagram away.
LEMMA SettledUntouched ==
    ASSUME Settled, PcType, program' = program, UNCHANGED <<pc, bounced, streaming, priv, thread>>,
           acks' = acks \/ acks' = << >>
    PROVE  Settled' /\ PcType'
<1>1. /\ Script' = Script /\ (Old' <=> Old)
      /\ StopAt' = StopAt /\ JoinAt' = JoinAt /\ ReleaseAt' = ReleaseAt
  BY FixedScript
<1>2. PcType' BY <1>1 DEF PcType
<1>3. Settled' BY <1>1 DEF Settled, Untouched
<1> QED BY <1>2, <1>3

\* The numbers the argument is about.
Landmarks(st, jo, re, l) ==
    /\ st = StopAt /\ jo = JoinAt /\ re = ReleaseAt /\ l = Len(Script)
    /\ st \in Nat /\ jo \in Nat /\ re \in Nat /\ l \in Nat
    /\ st > 1 /\ st < jo /\ re = jo + 1 /\ l > re /\ (Old => l = re + 1)

\* Every script has them.
LEMMA ScriptLandmarks == \E st, jo, re, l : Landmarks(st, jo, re, l)
<1>1. PICK f : f = First OBVIOUS
<1>2. PICK st, jo, re, l : st = StopAt /\ jo = JoinAt /\ re = ReleaseAt /\ l = Len(Script) OBVIOUS
<1>3. /\ f \in Nat /\ f >= 1 /\ st \in Nat /\ st > f /\ st < jo /\ jo = f + 7 /\ re = f + 8
      /\ l \in Nat /\ l > re /\ (Old => l = f + 9)
  BY <1>1, <1>2, ScriptHasShape DEF ScriptShape
<1>4. /\ jo \in Nat /\ re \in Nat /\ st > 1 /\ re = jo + 1 /\ f + 9 = re + 1
  BY <1>3
<1>5. Landmarks(st, jo, re, l) BY <1>2, <1>3, <1>4 DEF Landmarks
<1> QED BY <1>5

\* The main thread goes on to the next step.
LEMMA SettledAdvance ==
    ASSUME Settled, PcType, NEW st, NEW jo, NEW re, NEW l, Landmarks(st, jo, re, l),
           program' = program, pc \in 1 .. l, pc' = pc + 1, acks' = << >>,
           UNCHANGED <<streaming, priv>>,
           pc >= jo => thread' \in {"none", "ended"},
           ~bounced' => ~bounced,
           ~bounced' /\ pc = st => ~streaming,
           ~bounced' /\ Old /\ pc = re => priv = 0
    PROVE  Settled' /\ PcType'
<1>1. /\ Script' = Script /\ (Old' <=> Old)
      /\ StopAt' = st /\ JoinAt' = jo /\ ReleaseAt' = re /\ Len(Script) = l
  BY FixedScript DEF Landmarks
<1>2. /\ st \in Nat /\ jo \in Nat /\ re \in Nat /\ l \in Nat
      /\ st > 1 /\ st < jo /\ re = jo + 1 /\ l > re
  BY DEF Landmarks
<1>3. PcType' BY <1>1, <1>2 DEF PcType
<1>4. pc' # 1 BY <1>2
<1>5. ASSUME pc' \notin 1 .. jo PROVE thread' \in {"none", "ended"}
  <2>1. pc >= jo BY <1>2, <1>5
  <2> QED BY <2>1
<1>6. ASSUME ~bounced', pc' \notin 1 .. st PROVE ~streaming'
  <2>1. pc = st \/ pc \notin 1 .. st BY <1>2, <1>6
  <2>2. CASE pc = st BY <1>6, <2>2
  <2>3. CASE pc \notin 1 .. st BY <1>6, <2>3 DEF Settled, Landmarks
  <2> QED BY <2>1, <2>2, <2>3
<1>7. ASSUME Old, ~bounced', pc' \notin 1 .. re PROVE priv' = 0
  <2>1. pc = re \/ pc \notin 1 .. re BY <1>2, <1>7
  <2>2. CASE pc = re BY <1>7, <2>2
  <2>3. CASE pc \notin 1 .. re BY <1>7, <2>3 DEF Settled, Landmarks
  <2> QED BY <2>1, <2>2, <2>3
<1>8. Settled' BY <1>1, <1>4, <1>5, <1>6, <1>7, Zenon DEF Settled
<1> QED BY <1>3, <1>8

\* The main thread keeps what the last steps have achieved.
LEMMA SettledMain ==
    ASSUME Dialogue, Settled, PcType, Main \/ Fails
    PROVE  Settled' /\ PcType'
<1>1. PICK st, jo, re, l : Landmarks(st, jo, re, l) BY ScriptLandmarks
<1>2. PICK s : s = Script[pc] OBVIOUS
<1>3. pc \in 1 .. l /\ program' = program BY <1>1, <1>2, MainCases DEF Landmarks
<1>4. /\ st \in Nat /\ jo \in Nat /\ re \in Nat /\ l \in Nat
      /\ st > 1 /\ st < jo /\ re = jo + 1 /\ l > re
  BY <1>1 DEF Landmarks
<1>5. /\ pc = 1 => s.do = "open"
      /\ pc = st => s.do = "write"
      /\ pc = jo => s.do = "join"
      /\ pc > jo => s.do # "create"
      /\ Old /\ pc = re => s.do = "write"
      /\ s.do = "open" => pc = 1
      /\ s.do = "free again" => pc = l
  <2>1. /\ pc = 1 => s = Step("open")
        /\ pc = st => s = Write(Stop, 0)
        /\ pc = jo => s = Step("join")
        /\ Old /\ pc = re => s = Write(Control, 0)
        /\ s.do = "open" => pc = 1
        /\ s.do = "free again" => pc = l
    BY <1>1, <1>2, <1>3, ScriptHasShape, Zenon DEF Landmarks, ScriptShape
  <2>2. ASSUME pc > jo PROVE s.do # "create"
    <3>1. pc \in jo + 1 .. l BY <1>3, <1>4, <2>2
    <3> QED BY <1>1, <1>2, <3>1, ScriptHasShape, Zenon DEF Landmarks, ScriptShape
  <2>3. Step("open").do = "open" /\ Step("join").do = "join" /\ Write(Stop, 0).do = "write"
        /\ Write(Control, 0).do = "write"
    BY DEF Step, Write
  <2> QED BY <2>1, <2>2, <2>3, Zenon
<1>6. pc >= jo /\ pc # jo => thread \in {"none", "ended"}
  <2>1. pc >= jo /\ pc # jo => pc \notin 1 .. jo BY <1>3, <1>4
  <2> QED BY <1>1, <2>1 DEF Settled, Landmarks
<1>7. ~waiting => acks = << >> BY DEF Dialogue
<1>8. waiting => Asks(s) BY <1>2 DEF Dialogue
<1>9. CASE Asks(s) /\ SendRequest(s)
  <2>1. UNCHANGED <<pc, bounced, streaming, priv, thread, acks>>
    BY <1>9 DEF SendRequest, threadVars
  <2> QED BY <1>3, <2>1, SettledUntouched
<1>10. CASE Asks(s) /\ ReceiveAck(s)
  <2>1. UNCHANGED <<bounced, streaming, priv, thread>> BY <1>10 DEF ReceiveAck, threadVars
  <2>2. acks # << >> /\ Head(acks) = acks[1] /\ acks' = << >>
    <3>1. Len(acks) = 1 /\ acks = <<acks[1]>> /\ acks # << >> BY <1>10 DEF ReceiveAck, Dialogue
    <3>2. PICK a : acks = <<a>> BY <3>1
    <3>3. acks' = Tail(acks) BY <1>10 DEF ReceiveAck
    <3>4. Tail(<<a>>) = << >> /\ Head(<<a>>) = a /\ <<a>>[1] = a OBVIOUS
    <3> QED BY <3>1, <3>2, <3>3, <3>4, Zenon
  <2>3. CASE Head(acks).refused /\ UNCHANGED pc
    BY <1>3, <2>1, <2>2, <2>3, SettledUntouched
  <2>4. CASE ~Head(acks).refused /\ pc' = pc + 1
    <3>1. pc # jo BY <1>5, <1>10 DEF Asks
    <3>2. pc = st /\ ~bounced => ~streaming BY <1>1, <2>2, <2>4 DEF Settled, Landmarks
    <3>3. Old /\ pc = re /\ ~bounced => priv = 0 BY <1>1, <2>2 DEF Settled, Landmarks
    <3> QED BY <1>1, <1>3, <1>6, <2>1, <2>2, <2>4, <3>1, <3>2, <3>3, SettledAdvance
  <2> QED BY <1>10, <2>3, <2>4 DEF ReceiveAck
<1>11. CASE Asks(s) /\ ReceiveBounce(s)
  <2>1. /\ UNCHANGED <<streaming, priv, thread>> /\ bounced' = TRUE /\ pc' = pc + 1
        /\ acks' = acks /\ req # << >>
    BY <1>11 DEF ReceiveBounce, threadVars
  <2>2. acks' = << >> BY <2>1 DEF Dialogue
  <2>3. pc # jo BY <1>5, <1>11 DEF Asks
  <2> QED BY <1>1, <1>3, <1>6, <2>1, <2>2, <2>3, SettledAdvance
<1>12. CASE pc' = pc + 1 /\ ( \/ SkipRenewal(s) \/ OpenSockets(s) \/ StopThread(s) \/ Proceed(s)
                            \/ JoinThread(s) \/ FreeAgain(s) \/ CreateThread(s))
  <2>1. /\ UNCHANGED <<bounced, streaming, priv, acks>> /\ ~waiting /\ s.do # "write"
        /\ s.do = "create" \/ thread' = thread
        /\ s.do = "join" => thread = "ended" /\ thread' = thread
    BY <1>8, <1>12
    DEF SkipRenewal, OpenSockets, StopThread, Proceed, JoinThread, FreeAgain, CreateThread,
        gvcpVars, threadVars, Asks
  <2>2. acks' = << >> BY <1>7, <2>1
  <2>3. pc >= jo => thread' \in {"none", "ended"}
    <3>1. CASE pc = jo BY <1>5, <2>1, <3>1
    <3>2. CASE pc > jo BY <1>4, <1>5, <1>6, <2>1, <3>2
    <3>3. pc >= jo => pc = jo \/ pc > jo BY <1>3, <1>4
    <3> QED BY <3>1, <3>2, <3>3
  <2> QED BY <1>1, <1>3, <1>5, <1>12, <2>1, <2>2, <2>3, SettledAdvance
<1>13. CASE (Old /\ ConnectFails(s)) \/ (~Old /\ OpenFails(s)) \/ (~Old /\ FreeAgain(s) /\ pc' = Crashed)
  <2>1. UNCHANGED <<bounced, streaming, priv, thread, acks>> /\ ~waiting
    BY <1>8, <1>13 DEF ConnectFails, OpenFails, FreeAgain, gvcpVars, threadVars, Asks
  <2>2. acks' = << >> BY <1>7, <2>1
  <2>3. pc' = 0 \/ pc' = l + 1
    BY <1>1, <1>13 DEF ConnectFails, OpenFails, FreeAgain, Crashed, Landmarks, Script
  <2>4. pc' # 1 /\ pc' \in 0 .. l + 1 BY <1>4, <2>3
  <2>5. /\ Script' = Script /\ (Old' <=> Old)
        /\ StopAt' = st /\ JoinAt' = jo /\ ReleaseAt' = re /\ Len(Script) = l
    BY <1>1, <1>3, FixedScript DEF Landmarks
  <2>6. PcType' BY <2>4, <2>5 DEF PcType
  <2>7. thread \in {"none", "ended"} /\ (~bounced => ~streaming) /\ (Old => priv = 0)
    <3>1. CASE pc = 1 BY <3>1 DEF Settled, Untouched
    <3>2. CASE ~Old /\ pc = l
      <4>1. pc \notin 1 .. jo /\ pc \notin 1 .. st BY <1>4, <3>2
      <4> QED BY <1>1, <3>2, <4>1 DEF Settled, Landmarks
    <3> QED BY <1>5, <1>13, <3>1, <3>2 DEF ConnectFails, OpenFails, FreeAgain
  <2>8. Settled' BY <2>1, <2>2, <2>4, <2>5, <2>7 DEF Settled
  <2> QED BY <2>6, <2>8
<1>14. \/ Asks(s) /\ (SendRequest(s) \/ ReceiveAck(s) \/ ReceiveBounce(s))
       \/ SkipRenewal(s)
       \/ OpenSockets(s) \/ CreateThread(s) \/ StopThread(s) \/ Proceed(s) \/ JoinThread(s)
       \/ (Old /\ ConnectFails(s)) \/ (~Old /\ (FreeAgain(s) \/ OpenFails(s)))
  BY <1>2, MainCases, Zenon
<1>15. SkipRenewal(s) \/ OpenSockets(s) \/ CreateThread(s) \/ StopThread(s) \/ Proceed(s) \/ JoinThread(s)
       => pc' = pc + 1
  BY DEF SkipRenewal, OpenSockets, StopThread, Proceed, JoinThread, CreateThread, Advance
<1>16. FreeAgain(s) => pc' = pc + 1 \/ pc' = Crashed BY DEF FreeAgain
<1> QED BY <1>9, <1>10, <1>11, <1>12, <1>13, <1>14, <1>15, <1>16, Zenon

\* The camera keeps it as well: behind the last steps no request starts the
\* stream or takes the privilege.
LEMMA SettledHandle ==
    ASSUME Dialogue, RequestIsStep, Settled, PcType, Running, HandleRequest
    PROVE  Settled' /\ PcType'
<1>1. PICK st, jo, re, l : Landmarks(st, jo, re, l) BY ScriptLandmarks
<1>2. PICK s : s = Script[pc] OBVIOUS
<1>3. PICK r : r = req[1] OBVIOUS
<1>4. /\ st \in Nat /\ jo \in Nat /\ re \in Nat /\ l \in Nat
      /\ st > 1 /\ st < jo /\ re = jo + 1 /\ l > re /\ (Old => l = re + 1)
  BY <1>1 DEF Landmarks
<1>5. pc \in 1 .. l BY <1>1 DEF Landmarks, Running
<1>6. req # << >> /\ acks = << >> /\ Asks(s) BY <1>2 DEF HandleRequest, Dialogue
<1>7. r.write = (s.do # "read") /\ r.reg = s.reg /\ r.val = s.val BY <1>2, <1>3, <1>6 DEF RequestIsStep
<1>8. UNCHANGED <<program, pc, bounced, thread>> BY DEF HandleRequest, mainVars, threadVars
<1>9. /\ streaming' => streaming \/ r.reg = Start
      /\ priv' = priv \/ r.reg = Control
  BY <1>3 DEF HandleRequest
<1>10. /\ acks'[1].refused = (r.write /\ r.reg # Control /\ priv # 2)
  <2>1. PICK a : acks' = Append(acks, a) /\ a.refused = (r.write /\ r.reg # Control /\ priv # 2)
    BY <1>3 DEF HandleRequest
  <2>2. acks' = <<a>> BY <1>6, <2>1
  <2>3. acks'[1] = a BY <2>2
  <2> QED BY <2>1, <2>3
<1>11. /\ Script' = Script /\ (Old' <=> Old)
       /\ StopAt' = st /\ JoinAt' = jo /\ ReleaseAt' = re /\ Len(Script) = l
  BY <1>1, <1>8, FixedScript DEF Landmarks
<1>12. PcType' BY <1>8, <1>11 DEF PcType
<1>13. /\ pc # 1
       /\ pc = st => s = Write(Stop, 0)
       /\ pc \in st + 1 .. l => s.reg # Start
       /\ Old => (pc = re => s = Write(Control, 0)) /\ pc # re + 1
  <2>1. /\ pc = 1 => s = Step("open")
        /\ pc = st => s = Write(Stop, 0)
        /\ pc \in st + 1 .. l => s.reg # Start
        /\ Old => (pc = re => s = Write(Control, 0))
    BY <1>1, <1>2, ScriptHasShape, Zenon DEF Landmarks, ScriptShape
  <2>2. Old => (pc = re + 1 => s = Step("free"))
    <3>1. PICK f : f = First OBVIOUS
    <3>2. f \in Nat /\ re = f + 8 /\ (Old => Script[f + 9] = Step("free"))
      BY <1>1, <3>1, ScriptHasShape, Zenon DEF Landmarks, ScriptShape
    <3>3. re + 1 = f + 9 BY <3>2
    <3> QED BY <1>2, <3>2, <3>3, Zenon
  <2>3. ~Asks(Step("open")) /\ ~Asks(Step("free")) BY DEF Asks, Step
  <2> QED BY <1>6, <2>1, <2>2, <2>3, Zenon
<1>14. ASSUME ~bounced, pc \notin 1 .. st PROVE ~streaming'
  <2>1. pc \in st + 1 .. l BY <1>4, <1>5, <1>14
  <2>2. ~streaming BY <1>1, <1>14 DEF Settled, Landmarks
  <2> QED BY <1>7, <1>9, <1>13, <2>1, <2>2
<1>15. ASSUME pc = st, ~acks'[1].refused PROVE ~streaming'
  <2>1. s.do = "write" /\ s.reg = Stop /\ Stop # Control /\ Stop # Start
    BY <1>13, <1>15 DEF Write, Stop, Control, Start
  <2>2. r.write /\ r.reg = Stop BY <1>7, <2>1
  <2>3. priv = 2 BY <1>10, <1>15, <2>1, <2>2
  <2> QED BY <1>3, <2>1, <2>2, <2>3 DEF HandleRequest
<1>16. Old => pc \in 1 .. re BY <1>4, <1>5, <1>13
<1>17. ASSUME Old, pc = re PROVE priv' = 0
  <2>1. s.do = "write" /\ s.reg = Control /\ s.val = 0 BY <1>13, <1>17 DEF Write, Control
  <2>2. r.write /\ r.reg = Control /\ r.val = 0 BY <1>7, <2>1
  <2> QED BY <1>3, <2>2 DEF HandleRequest
<1>18. pc \notin 1 .. jo => thread' \in {"none", "ended"} BY <1>1, <1>8 DEF Settled, Landmarks
<1>19. Settled'
  BY <1>8, <1>11, <1>13, <1>14, <1>15, <1>16, <1>17, <1>18, Zenon DEF Settled
<1> QED BY <1>12, <1>19

\* Every step keeps what the last steps have achieved.
LEMMA SettledStep ==
    ASSUME Dialogue, RequestIsStep, Settled, PcType, CaptureNext
    PROVE  Settled' /\ PcType'
<1>1. program' = program BY ProgramStays
<1>2. /\ Script' = Script /\ (Old' <=> Old)
      /\ StopAt' = StopAt /\ JoinAt' = JoinAt /\ ReleaseAt' = ReleaseAt
  BY <1>1, FixedScript
<1>3. CASE Main \/ Fails BY <1>3, SettledMain
<1>4. CASE DataThread
  <2>1. UNCHANGED <<pc, bounced, acks, streaming, priv>> /\ thread \in {"loop", "select"}
    BY <1>4, ThreadCases DEF mainVars, gvcpVars
  <2>2. pc \in 1 .. JoinAt /\ pc # 1 BY <2>1 DEF Settled, Untouched
  <2>3. PcType' BY <1>2, <2>1 DEF PcType
  <2>4. Settled' BY <1>2, <2>1, <2>2 DEF Settled
  <2> QED BY <2>3, <2>4
<1>5. CASE Running /\ LoseDatagram
  <2>1. UNCHANGED <<pc, bounced, streaming, priv, thread>> BY <1>5 DEF LoseDatagram, mainVars, threadVars
  <2>2. acks' = acks \/ acks' = << >>
    <3>1. CASE acks' = acks BY <3>1
    <3>2. CASE acks # << >> /\ acks' = Tail(acks)
      <4>1. PICK a : acks = <<a>> BY <3>2 DEF Dialogue
      <4>2. Tail(<<a>>) = << >> OBVIOUS
      <4> QED BY <3>2, <4>1, <4>2
    <3> QED BY <1>5, <3>1, <3>2 DEF LoseDatagram
  <2> QED BY <1>1, <2>1, <2>2, SettledUntouched
<1>6. CASE Running /\ HandleRequest BY <1>6, SettledHandle
<1>7. CASE HeartbeatExpires(Script[pc])
  <2>1. UNCHANGED <<pc, bounced, acks, thread>> /\ priv' = 0 /\ streaming' = FALSE
    BY <1>7 DEF HeartbeatExpires, mainVars, gvcpVars, threadVars
  <2>2. PcType' BY <1>2, <2>1 DEF PcType
  <2>3. Settled' BY <1>2, <2>1 DEF Settled, Untouched
  <2> QED BY <2>2, <2>3
<1>8. CASE CameraSends
  <2>1. UNCHANGED <<pc, bounced, acks, streaming, priv, thread>>
    BY <1>8 DEF CameraSends, mainVars, gvcpVars, threadVars
  <2> QED BY <1>1, <2>1, SettledUntouched
<1> QED BY <1>3, <1>4, <1>5, <1>6, <1>7, <1>8 DEF CaptureNext, Outside, Camera

-----------------------------------------------------------------------------
\* The register dialogue, the order of the stream and what the last steps have
\* achieved hold in every state of both programs.
THEOREM CaptureInvariance == CaptureSpec => []CaptureInv
<1>1. CaptureInit => CaptureInv
  <2> SUFFICES ASSUME CaptureInit PROVE CaptureInv OBVIOUS
  <2> USE DEF CaptureInit, Init
  <2>1. Dialogue /\ RequestIsStep BY DEF Dialogue, RequestIsStep
  <2>2. StreamInv
    <3>1. cursor \in Packet /\ wire \in Seq(Packet) /\ swaps \in Nat BY DEF Packet
    <3>2. << >> \in Seq(Block) /\ Len(<< >>) = 0 /\ saved \in Seq(File) OBVIOUS
    <3>3. frame \in [started : BOOLEAN, id : Nat, blocks : Seq(Block)] BY <3>2
    <3>4. StreamType BY <3>1, <3>2, <3>3 DEF StreamType
    <3>5. FilesInOrder BY <3>2 DEF FilesInOrder
    <3>6. After(cursor, frame) BY DEF After
    <3>7. StreamOrder BY <3>2, <3>5, <3>6 DEF StreamOrder, InOrder
    <3> QED BY <3>4, <3>5, <3>7 DEF StreamInv
  <2>3. PICK st, jo, re, l : Landmarks(st, jo, re, l) BY ScriptLandmarks
  <2>4. PcType BY <2>3 DEF PcType, Landmarks
  <2>5. Settled
    <3>1. 1 \in 1 .. jo /\ 1 \in 1 .. st /\ 1 \in 1 .. re BY <2>3 DEF Landmarks
    <3> QED BY <2>3, <3>1 DEF Settled, Untouched, Landmarks
  <2> QED BY <2>1, <2>2, <2>4, <2>5 DEF CaptureInv
<1>2. CaptureInv /\ [CaptureNext]_vars => CaptureInv'
  <2> SUFFICES ASSUME CaptureInv, [CaptureNext]_vars PROVE CaptureInv' OBVIOUS
  <2>1. CASE CaptureNext
    BY <2>1, DialogueStep, StreamStep, SettledStep DEF CaptureInv
  <2>2. CASE UNCHANGED vars
    <3>1. UNCHANGED <<mainVars, program, pc, req, acks, bounced, streaming, priv, thread, cursor, wire, swaps, frame, saved>>
      BY <2>2 DEF vars, mainVars, gvcpVars, streamVars, threadVars
    <3> QED BY <3>1, DialogueUntouched, StreamUntouched, SettledUntouched DEF CaptureInv
  <2> QED BY <2>1, <2>2
<1> QED BY <1>1, <1>2, PTL DEF CaptureSpec

\* AckMatchesRequest: what the main thread takes for the answer to a register
\* request is the answer to that request, although nothing in it is compared.
THEOREM AcksMatch == CaptureSpec => []AckMatchesRequest
<1>1. CaptureInv => AckMatchesRequest
  <2> SUFFICES ASSUME CaptureInv, waiting, acks # << >> PROVE Head(acks).op = pc
    BY DEF AckMatchesRequest
  <2>1. acks = <<acks[1]>> /\ acks[1].op = pc BY DEF CaptureInv, Dialogue
  <2>2. PICK a : acks = <<a>> BY <2>1
  <2>3. Head(<<a>>) = a /\ <<a>>[1] = a OBVIOUS
  <2> QED BY <2>1, <2>2, <2>3
<1> QED BY <1>1, CaptureInvariance, PTL

\* SavedForward: oldcapture writes no file twice and never goes back to an
\* earlier frame, whatever overtakes whatever.
THEOREM FilesForward == CaptureSpec => []SavedForward
<1>1. CaptureInv => SavedForward
  <2> SUFFICES ASSUME CaptureInv, Old PROVE Increasing(SavedIds) BY DEF SavedForward
  <2>1. saved \in Seq(File) /\ FilesInOrder BY DEF CaptureInv, StreamInv, StreamType
  <2>2. Len(SavedIds) = Len(saved) /\ \A k \in 1 .. Len(saved) : SavedIds[k] = saved[k].id
    BY <2>1 DEF SavedIds
  <2> QED BY <2>1, <2>2 DEF Increasing, FilesInOrder
<1> QED BY <1>1, CaptureInvariance, PTL

\* FramesFaithful: as long as no packet has overtaken another, every frame holds
\* blocks of its own, in order, and frames are handed over in order, in both
\* programs and whatever is lost.
THEOREM FramesAreFaithful == CaptureSpec => []FramesFaithful
<1>1. CaptureInv => FramesFaithful
  <2> SUFFICES ASSUME CaptureInv, swaps = 0
               PROVE  /\ OwnBlocksInOrder(frame)
                      /\ \A i \in 1 .. Len(saved) : OwnBlocksInOrder(saved[i])
                      /\ Increasing(Append(SavedIds, frame.id))
    BY DEF FramesFaithful
  <2>1. StreamType /\ StreamOrder BY DEF CaptureInv, StreamInv
  <2>2. saved \in Seq(File) /\ frame.blocks \in Seq(Block) /\ frame.id \in Nat
    BY <2>1 DEF StreamType
  <2>3. ASSUME NEW f, f.blocks \in Seq(Block), InOrder(f.id, f.blocks) PROVE OwnBlocksInOrder(f)
    <3>1. PICK b : b = f.blocks OBVIOUS
    <3>2. PICK o : o = [i \in 1 .. Len(b) |-> b[i][2]] OBVIOUS
    <3>3. Len(o) = Len(b) /\ \A i \in 1 .. Len(b) : o[i] = b[i][2] BY <2>3, <3>1, <3>2
    <3>4. Increasing(o) BY <2>3, <3>1, <3>3 DEF Increasing, InOrder
    <3>5. \A i \in 1 .. Len(b) : b[i][1] = f.id BY <2>3, <3>1 DEF InOrder
    <3> QED BY <3>1, <3>2, <3>4, <3>5, Zenon DEF OwnBlocksInOrder
  <2>4. OwnBlocksInOrder(frame) BY <2>1, <2>2, <2>3 DEF StreamOrder
  <2>5. ASSUME NEW i \in 1 .. Len(saved) PROVE OwnBlocksInOrder(saved[i])
    <3>1. saved[i] \in File BY <2>2
    <3>2. saved[i].blocks \in Seq(Block) BY <3>1 DEF File
    <3> QED BY <2>1, <2>3, <3>2 DEF StreamOrder
  <2>6. Increasing(Append(SavedIds, frame.id))
    <3>1. \A k \in 1 .. Len(saved) : saved[k] \in File BY <2>2
    <3>2. \A k \in 1 .. Len(saved) : saved[k].id \in Nat BY <3>1 DEF File
    <3>3. SavedIds \in [1 .. Len(saved) -> Nat] BY <3>2 DEF SavedIds
    <3>4. /\ SavedIds \in Seq(Nat) /\ Len(SavedIds) = Len(saved) /\ Len(saved) \in Nat
          /\ \A k \in 1 .. Len(saved) : SavedIds[k] = saved[k].id
      BY <2>2, <3>3 DEF SavedIds
    <3>5. PICK t : t = Append(SavedIds, frame.id) OBVIOUS
    <3>6. /\ Len(t) = Len(saved) + 1 /\ t[Len(saved) + 1] = frame.id
          /\ \A k \in 1 .. Len(saved) : t[k] = saved[k].id
      BY <2>2, <3>4, <3>5
    <3>7. ASSUME NEW i \in 1 .. Len(t), NEW j \in 1 .. Len(t), i < j PROVE t[i] < t[j]
      <4>1. i \in 1 .. Len(saved) /\ (j \in 1 .. Len(saved) \/ j = Len(saved) + 1) BY <3>4, <3>6, <3>7
      <4> QED BY <2>1, <3>6, <3>7, <4>1 DEF StreamOrder, FilesInOrder
    <3> QED BY <3>5, <3>7 DEF Increasing
  <2> QED BY <2>4, <2>5, <2>6
<1> QED BY <1>1, CaptureInvariance, PTL

\* StoppedWhenDone: when either program is over, the camera does not stream, the
\* thread has ended and oldcapture has given the privilege back, unless a request
\* was reported undelivered.
THEOREM CaptureStops == CaptureSpec => []StoppedWhenDone
<1>1. CaptureInv => StoppedWhenDone
  <2> SUFFICES ASSUME CaptureInv, Ended(Script), ~bounced
               PROVE  ~streaming /\ thread \in {"none", "ended"} /\ (Old => priv = 0)
    BY DEF StoppedWhenDone
  <2>1. PICK st, jo, re, l : Landmarks(st, jo, re, l) BY ScriptLandmarks
  <2>2. pc = 0 \/ pc = l + 1 BY <2>1 DEF Ended, Crashed, Landmarks
  <2>3. /\ st \in Nat /\ jo \in Nat /\ re \in Nat /\ l \in Nat
        /\ st < jo /\ re = jo + 1 /\ l > re
    BY <2>1 DEF Landmarks
  <2>4. pc \notin 1 .. st /\ pc \notin 1 .. jo /\ pc \notin 1 .. re BY <2>2, <2>3
  <2> QED BY <2>1, <2>4 DEF CaptureInv, Settled, Landmarks
<1> QED BY <1>1, CaptureInvariance, PTL

-----------------------------------------------------------------------------
\* Discovery.  A device, as device_create makes it.
Device == [ip : {d.from : d \in Datagrams}, iface : Interfaces, named : BOOLEAN]

DiscoveryType ==
    /\ caller \in Programs /\ usable \in SUBSET Interfaces
    /\ phase \in {"getifaddrs", "open", "read", "close", "use", "ended", "crashed"}
    /\ cur \in Nat \ {0}
    /\ fd \in [Interfaces -> {"none", "open", "failed", "leaked", "closed"}]
    /\ inbox \in [Interfaces -> Seq(Datagrams)] /\ early \in [Interfaces -> Seq(Datagrams)]
    /\ devs \in Seq(Device)

\* Nothing waits where no socket is open, and nothing was there before the sleep.
Sockets ==
    /\ phase \in {"getifaddrs", "open"} => devs = << >> /\ \A i \in Interfaces : early[i] = << >>
    /\ phase = "getifaddrs" => cur = 1
    /\ phase \in {"getifaddrs", "open"} => \A i \in Interfaces : i >= cur => fd[i] = "none"
    /\ phase \in {"getifaddrs", "open", "read"} =>
          \A i \in Interfaces : fd[i] # "open" => inbox[i] = << >>
    /\ phase = "read" => \A i \in Interfaces : fd[i] # "open" => early[i] = << >>

\* The first p of the early datagrams of interface i have been taken, and the
\* others are the next to be read.  Until then only their answers are listed.
Taken(i, p) ==
    /\ p \in 0 .. Len(early[i])
    /\ Len(early[i]) - p <= Len(inbox[i])
    /\ \A k \in 1 .. Len(early[i]) - p : inbox[i][k] = early[i][p + k]
    /\ p < Len(early[i]) /\ caller # "udpcapture" =>
          Cardinality(ListedUpTo(i, Len(devs))) = Cardinality(AnswersUpTo(i, p))
    /\ \A a \in 1 .. p : Accepts(i, early[i][a]) => PutToUse(i, a)

AllPutToUse(i) == \A a \in AnswersUpTo(i, Len(early[i])) : PutToUse(i, a)

Listening ==
    /\ phase = "read" =>
          \A i \in Interfaces : IF i < cur THEN i \in broken \/ AllPutToUse(i)
                                           ELSE \E p \in 0 .. Len(early[i]) : Taken(i, p)
    /\ phase \in {"close", "use", "ended"} => \A i \in Interfaces \ broken : AllPutToUse(i)

DiscoveryInv == DiscoveryType /\ Sockets /\ Listening

\* The list of devices grows at its end, and what was handed over stays.
Grows ==
    /\ caller' = caller /\ early' = early
    /\ Len(devs) <= Len(devs)' /\ \A m \in 1 .. Len(devs) : devs'[m] = devs[m]
    /\ result # << >> => result' # << >>

\* Devices found later do not change the rank of the earlier ones.
LEMMA RanksStay ==
    ASSUME Grows, devs \in Seq(Device), NEW i, NEW l \in Nat, l <= Len(devs)
    PROVE  ListedUpTo(i, l)' = ListedUpTo(i, l)
<1>1. \A m \in 1 .. l : devs'[m] = devs[m] BY DEF Grows
<1> QED BY <1>1 DEF ListedUpTo

\* The answers depend on the caller and on the early datagrams only.
LEMMA SameAnswers ==
    ASSUME UNCHANGED <<caller, early>>, NEW i, NEW a
    PROVE  AnswersUpTo(i, a)' = AnswersUpTo(i, a) /\ \A d : Accepts(i, d)' <=> Accepts(i, d)
BY DEF AnswersUpTo, Accepts, Library

\* What has been put to use stays so.
LEMMA PutStays ==
    ASSUME DiscoveryType, DiscoveryType', Grows, NEW i, NEW a, PutToUse(i, a)
    PROVE  PutToUse(i, a)'
<1>1. AnswersUpTo(i, a)' = AnswersUpTo(i, a) /\ caller' = caller /\ early' = early
  BY SameAnswers DEF Grows
<1>2. ASSUME Listed(i, a) PROVE Listed(i, a)'
  <2>0. devs \in Seq(Device) /\ devs' \in Seq(Device) BY DEF DiscoveryType
  <2>1. PICK l \in ListedUpTo(i, Len(devs)) :
           /\ devs[l].ip = early[i][a].from
           /\ Cardinality(ListedUpTo(i, l)) = Cardinality(AnswersUpTo(i, a))
    BY <1>2 DEF Listed
  <2>2. l \in 1 .. Len(devs) /\ devs[l].iface = i BY <2>1 DEF ListedUpTo
  <2>3. devs'[l] = devs[l] /\ l \in 1 .. Len(devs') BY <2>0, <2>2 DEF Grows
  <2>4. l \in ListedUpTo(i, Len(devs))' BY <2>2, <2>3 DEF ListedUpTo
  <2>5. ListedUpTo(i, l)' = ListedUpTo(i, l) BY <2>0, <2>2, RanksStay
  <2> QED BY <1>1, <2>1, <2>3, <2>4, <2>5 DEF Listed
<1> QED BY <1>1, <1>2 DEF PutToUse, Grows

\* The same for all the early answers of an interface.
LEMMA AllPutStays ==
    ASSUME DiscoveryType, DiscoveryType', Grows, NEW i, AllPutToUse(i)
    PROVE  AllPutToUse(i)'
<1>1. early' = early /\ \A a : AnswersUpTo(i, a)' = AnswersUpTo(i, a) BY SameAnswers DEF Grows
<1>2. \A a : PutToUse(i, a) => PutToUse(i, a)' BY PutStays
<1> QED BY <1>1, <1>2 DEF AllPutToUse

\* The device, if any, which a step adds to the list, is on the interface cur.
OnCur ==
    \/ devs' = devs
    \/ \E x \in Device : x.iface = cur /\ devs' = Append(devs, x)

\* Such a step leaves the other interfaces' devices alone.
LEMMA OnCurGrows ==
    ASSUME DiscoveryType, OnCur, UNCHANGED <<caller, early>>, result # << >> => result' # << >>
    PROVE  Grows /\ \A i : i # cur => ListedUpTo(i, Len(devs))' = ListedUpTo(i, Len(devs))
<1>0. devs \in Seq(Device) BY DEF DiscoveryType
<1>1. CASE devs' = devs
  <2>1. Len(devs) \in Nat BY <1>0
  <2> QED BY <1>1, <2>1 DEF Grows, ListedUpTo
<1>2. ASSUME NEW x \in Device, x.iface = cur, devs' = Append(devs, x)
      PROVE  Grows /\ \A i : i # cur => ListedUpTo(i, Len(devs))' = ListedUpTo(i, Len(devs))
  <2>1. PICK l \in Nat : l = Len(devs) BY <1>0
  <2>2. Len(devs') = l + 1 /\ devs'[l + 1] = x /\ \A m \in 1 .. l : devs'[m] = devs[m]
    BY <1>0, <1>2, <2>1, AppendProperties
  <2>3. Grows BY <2>1, <2>2 DEF Grows
  <2>4. ASSUME NEW i, i # cur PROVE ListedUpTo(i, Len(devs))' = ListedUpTo(i, Len(devs))
    <3>1. ListedUpTo(i, Len(devs))' = {m \in 1 .. l + 1 : devs'[m].iface = i} BY <2>2 DEF ListedUpTo
    <3>2. ListedUpTo(i, Len(devs)) = {m \in 1 .. l : devs[m].iface = i} BY <2>1 DEF ListedUpTo
    <3>3. devs'[l + 1].iface # i BY <1>2, <2>2, <2>4
    <3>4. \A m \in 1 .. l + 1 : m \in 1 .. l \/ m = l + 1 OBVIOUS
    <3>5. \A m \in 1 .. l : m \in 1 .. l + 1 OBVIOUS
    <3> QED BY <2>2, <3>1, <3>2, <3>3, <3>4, <3>5
  <2> QED BY <2>3, <2>4
<1> QED BY <1>1, <1>2 DEF OnCur

\* What is read from one interface does not concern another.
LEMMA OthersStay ==
    ASSUME DiscoveryType, DiscoveryType', OnCur, UNCHANGED <<caller, early>>,
           result # << >> => result' # << >>, NEW i \in Interfaces, i # cur, inbox'[i] = inbox[i],
           NEW p, Taken(i, p)
    PROVE  Taken(i, p)'
<1>1. Grows /\ ListedUpTo(i, Len(devs))' = ListedUpTo(i, Len(devs)) BY OnCurGrows
<1>2. /\ \A a : AnswersUpTo(i, a)' = AnswersUpTo(i, a)
      /\ \A d : Accepts(i, d)' <=> Accepts(i, d)
  BY SameAnswers
<1>3. \A a : PutToUse(i, a) => PutToUse(i, a)' BY <1>1, PutStays
<1> QED BY <1>1, <1>2, <1>3 DEF Taken

\* A datagram more, or one less, to count.
LEMMA OneMoreAnswer ==
    ASSUME DiscoveryType, NEW i \in Interfaces, NEW p \in Nat
    PROVE  /\ Accepts(i, early[i][p + 1]) =>
                Cardinality(AnswersUpTo(i, p + 1)) = Cardinality(AnswersUpTo(i, p)) + 1
           /\ ~Accepts(i, early[i][p + 1]) => AnswersUpTo(i, p + 1) = AnswersUpTo(i, p)
           /\ Cardinality(AnswersUpTo(i, p)) \in Nat
<1>1. \A b \in 1 .. p + 1 : b \in 1 .. p \/ b = p + 1 OBVIOUS
<1>2. \A b \in 1 .. p : b \in 1 .. p + 1 OBVIOUS
<1>3. IsFiniteSet(AnswersUpTo(i, p))
  <2>1. IsFiniteSet(1 .. p) BY FS_Interval
  <2> QED BY <2>1, FS_Subset DEF AnswersUpTo
<1>4. Cardinality(AnswersUpTo(i, p)) \in Nat BY <1>3, FS_CardinalityType
<1>5. ASSUME Accepts(i, early[i][p + 1])
      PROVE  Cardinality(AnswersUpTo(i, p + 1)) = Cardinality(AnswersUpTo(i, p)) + 1
  <2>1. p + 1 \in 1 .. p + 1 /\ p + 1 \notin 1 .. p OBVIOUS
  <2>2. AnswersUpTo(i, p + 1) = AnswersUpTo(i, p) \cup {p + 1}
    BY <1>1, <1>2, <1>5, <2>1 DEF AnswersUpTo
  <2>3. p + 1 \notin AnswersUpTo(i, p) BY <2>1 DEF AnswersUpTo
  <2> QED BY <1>3, <2>2, <2>3, FS_AddElement
<1>6. ASSUME ~Accepts(i, early[i][p + 1]) PROVE AnswersUpTo(i, p + 1) = AnswersUpTo(i, p)
  BY <1>1, <1>2, <1>6 DEF AnswersUpTo
<1> QED BY <1>4, <1>5, <1>6

\* A device more to count.
LEMMA OneMoreDevice ==
    ASSUME DiscoveryType, NEW x \in Device, devs' = Append(devs, x)
    PROVE  /\ Len(devs') = Len(devs) + 1 /\ devs'[Len(devs) + 1] = x
           /\ Cardinality(ListedUpTo(x.iface, Len(devs))') = Cardinality(ListedUpTo(x.iface, Len(devs))) + 1
<1>0. devs \in Seq(Device) BY DEF DiscoveryType
<1>1. PICK l \in Nat : l = Len(devs) BY <1>0
<1>2. Len(devs') = l + 1 /\ devs'[l + 1] = x /\ \A m \in 1 .. l : devs'[m] = devs[m]
  BY <1>0, <1>1, AppendProperties
<1>3. ListedUpTo(x.iface, Len(devs))' = {m \in 1 .. l + 1 : devs'[m].iface = x.iface}
  BY <1>2 DEF ListedUpTo
<1>4. ListedUpTo(x.iface, Len(devs)) = {m \in 1 .. l : devs[m].iface = x.iface} BY <1>1 DEF ListedUpTo
<1>5. \A m \in 1 .. l + 1 : m \in 1 .. l \/ m = l + 1 OBVIOUS
<1>6. (\A m \in 1 .. l : m \in 1 .. l + 1) /\ l + 1 \in 1 .. l + 1 /\ l + 1 \notin 1 .. l OBVIOUS
<1>7. ListedUpTo(x.iface, Len(devs))' = ListedUpTo(x.iface, Len(devs)) \cup {l + 1}
  BY <1>2, <1>3, <1>4, <1>5, <1>6
<1>8. IsFiniteSet(ListedUpTo(x.iface, Len(devs)))
  <2>1. IsFiniteSet(1 .. l) BY FS_Interval
  <2> QED BY <1>4, <2>1, FS_Subset
<1>9. l + 1 \notin ListedUpTo(x.iface, Len(devs)) BY <1>4, <1>6
<1> QED BY <1>1, <1>2, <1>7, <1>8, <1>9, FS_AddElement

\* The lengths of the inbox, of the early answers and of the list.
LEMMA Lengths ==
    ASSUME DiscoveryType, NEW i \in Interfaces
    PROVE  Len(early[i]) \in Nat /\ Len(inbox[i]) \in Nat /\ Len(devs) \in Nat
<1>1. early[i] \in Seq(Datagrams) /\ inbox[i] \in Seq(Datagrams) /\ devs \in Seq(Device)
  BY DEF DiscoveryType
<1> QED BY <1>1, LenProperties

\* The next datagram of an interface is taken: ignored, passed over, or listed.
LEMMA TakesNext ==
    ASSUME DiscoveryType, DiscoveryType', OnCur, UNCHANGED <<caller, early>>,
           result # << >> => result' # << >>, NEW i \in Interfaces, i = cur, inbox[i] # << >>,
           inbox'[i] = Tail(inbox[i]), NEW p, Taken(i, p), p < Len(early[i]),
           NEW d, d = Head(inbox[i]),
           \/ ~Accepts(i, d) /\ devs' = devs
           \/ /\ Accepts(i, d) /\ caller = "udpcapture" /\ d.from # Wanted /\ devs' = devs
           \/ Accepts(i, d) /\ caller # "udpcapture" /\ devs' = Append(devs, device_create(d))
    PROVE  d = early[i][p + 1] /\ Taken(i, p + 1)'
<1>1. PICK u \in Seq(Datagrams) : u = inbox[i] BY DEF DiscoveryType
<1>2. PICK e \in Seq(Datagrams) : e = early[i] BY DEF DiscoveryType
<1>3. PICK n \in Nat : n = Len(e) OBVIOUS
<1>4. PICK l \in Nat : l = Len(u) OBVIOUS
<1>5. p \in 0 .. n /\ p < n /\ n - p <= l /\ \A k \in 1 .. n - p : u[k] = e[p + k]
  BY <1>1, <1>2, <1>3, <1>4 DEF Taken
<1>6. p \in Nat /\ p + 1 \in 1 .. n /\ p + 1 \in 0 .. n BY <1>3, <1>5
<1>7. PICK v : v = Tail(u) OBVIOUS
<1>8. v \in Seq(Datagrams) /\ Len(v) = l - 1 /\ \A k \in 1 .. l - 1 : v[k] = u[k + 1]
  BY <1>1, <1>4, <1>7, HeadTailProperties
<1>9. d = u[1] BY <1>1
<1>10. d = e[p + 1]
  <2>1. 1 \in 1 .. n - p BY <1>3, <1>5
  <2> QED BY <1>5, <1>9, <2>1
<1>11. n - (p + 1) <= Len(v) BY <1>3, <1>4, <1>5, <1>8
<1>12. ASSUME NEW k \in 1 .. n - (p + 1) PROVE v[k] = e[(p + 1) + k]
  <2>1. k + 1 \in 1 .. n - p /\ k \in 1 .. l - 1 BY <1>3, <1>4, <1>5
  <2>2. p + (k + 1) = (p + 1) + k BY <1>6
  <2> QED BY <1>5, <1>8, <2>1, <2>2
<1>13. Grows BY OnCurGrows
<1>14. /\ \A a : AnswersUpTo(i, a)' = AnswersUpTo(i, a)
       /\ \A x : Accepts(i, x)' <=> Accepts(i, x)
  BY SameAnswers
<1>15. \A a \in 1 .. p : Accepts(i, e[a]) => PutToUse(i, a)' BY <1>2, <1>13, PutStays DEF Taken
<1>16. ASSUME caller # "udpcapture", Accepts(i, d)
       PROVE  /\ Listed(i, p + 1)'
              /\ Cardinality(ListedUpTo(i, Len(devs))') = Cardinality(AnswersUpTo(i, p + 1))
  <2>1. PICK x : x = device_create(d) OBVIOUS
  <2>2. d \in Datagrams BY <1>2, <1>3, <1>6, <1>10
  <2>3. x \in Device /\ x.iface = i /\ x.ip = d.from
    BY <2>1, <2>2 DEF device_create, gvcp_discovery_ack, Device
  <2>4. devs' = Append(devs, x) BY <1>16, <2>1
  <2>5. /\ Len(devs') = Len(devs) + 1 /\ devs'[Len(devs) + 1] = x
        /\ Cardinality(ListedUpTo(i, Len(devs))') = Cardinality(ListedUpTo(i, Len(devs))) + 1
    BY <2>3, <2>4, OneMoreDevice
  <2>6. Cardinality(AnswersUpTo(i, p + 1)) = Cardinality(AnswersUpTo(i, p)) + 1
    BY <1>2, <1>6, <1>10, <1>16, OneMoreAnswer
  <2>7. Cardinality(ListedUpTo(i, Len(devs))) = Cardinality(AnswersUpTo(i, p))
    BY <1>2, <1>3, <1>5, <1>16 DEF Taken
  <2>8. PICK m \in Nat : m = Len(devs) BY Lengths
  <2>9. m + 1 \in ListedUpTo(i, Len(devs))' BY <2>3, <2>5, <2>8 DEF ListedUpTo
  <2>10. Cardinality(ListedUpTo(i, Len(devs))') = Cardinality(AnswersUpTo(i, p + 1))
    BY <2>5, <2>6, <2>7
  <2>11. ListedUpTo(i, Len(devs))' = ListedUpTo(i, m + 1)' BY <2>5, <2>8
  <2> QED BY <1>2, <1>10, <1>14, <2>3, <2>5, <2>8, <2>9, <2>10, <2>11 DEF Listed
<1>17. Accepts(i, d) => PutToUse(i, p + 1)'
  <2>1. CASE caller = "udpcapture" BY <1>2, <1>10, <2>1 DEF PutToUse
  <2>2. CASE caller # "udpcapture" BY <1>16, <2>2 DEF PutToUse
  <2> QED BY <2>1, <2>2
<1>18. caller # "udpcapture" =>
          Cardinality(ListedUpTo(i, Len(devs))') = Cardinality(AnswersUpTo(i, p + 1))
  <2>1. ASSUME ~Accepts(i, d), caller # "udpcapture"
        PROVE  Cardinality(ListedUpTo(i, Len(devs))') = Cardinality(AnswersUpTo(i, p + 1))
    <3>1. AnswersUpTo(i, p + 1) = AnswersUpTo(i, p) BY <1>2, <1>6, <1>10, <2>1, OneMoreAnswer
    <3>2. ListedUpTo(i, Len(devs))' = ListedUpTo(i, Len(devs)) BY <2>1 DEF ListedUpTo
    <3>3. Cardinality(ListedUpTo(i, Len(devs))) = Cardinality(AnswersUpTo(i, p))
      BY <1>2, <1>3, <1>5, <2>1 DEF Taken
    <3> QED BY <3>1, <3>2, <3>3
  <2> QED BY <1>16, <2>1
<1>19. ASSUME NEW a \in 1 .. p + 1, Accepts(i, e[a]) PROVE PutToUse(i, a)'
  <2>1. a \in 1 .. p \/ a = p + 1 BY <1>6
  <2> QED BY <1>10, <1>15, <1>17, <1>19, <2>1
<1>20. early'[i] = e /\ inbox'[i] = v BY <1>1, <1>2, <1>7
<1> QED BY <1>3, <1>6, <1>10, <1>2, <1>11, <1>12, <1>14, <1>18, <1>19, <1>20 DEF Taken

\* When all that was early has been taken it has been put to use.
LEMMA TakenAll ==
    ASSUME DiscoveryType, NEW i \in Interfaces, NEW p, Taken(i, p), p >= Len(early[i])
    PROVE  AllPutToUse(i)
<1>1. PICK n \in Nat : n = Len(early[i]) BY Lengths
<1>2. p \in 0 .. n /\ p = n BY <1>1 DEF Taken
<1> QED BY <1>1, <1>2 DEF Taken, AllPutToUse, AnswersUpTo

\* Whatever else is read, what has been taken is taken.
LEMMA TakenAllStays ==
    ASSUME DiscoveryType, DiscoveryType', OnCur, UNCHANGED <<caller, early>>,
           result # << >> => result' # << >>, NEW i \in Interfaces, NEW p, Taken(i, p), p >= Len(early[i])
    PROVE  Taken(i, p)'
<1>1. PICK n \in Nat : n = Len(early[i]) BY Lengths
<1>2. p \in 0 .. n /\ p = n BY <1>1 DEF Taken
<1>3. PICK e : e = early[i] /\ early'[i] = e /\ Len(e) = n BY <1>1
<1>4. Grows BY OnCurGrows
<1>5. \A a \in 1 .. p : Accepts(i, e[a])' => PutToUse(i, a)'
  BY <1>3, <1>4, PutStays, SameAnswers DEF Taken
<1>6. n - p <= Len(inbox'[i])
  <2>0. inbox'[i] \in Seq(Datagrams) BY DEF DiscoveryType
  <2>1. Len(inbox'[i]) \in Nat BY <2>0
  <2> QED BY <1>2, <2>1
<1>7. 1 .. n - p = {} BY <1>2
<1> QED BY <1>2, <1>3, <1>5, <1>6, <1>7 DEF Taken

-----------------------------------------------------------------------------
\* The steps that only move on: nothing is read and nothing is listed.
LEMMA PutUnmoved ==
    ASSUME DiscoveryType, DiscoveryType', UNCHANGED <<caller, early, devs>>,
           result # << >> => result' # << >>, NEW i
    PROVE  AllPutToUse(i) => AllPutToUse(i)'
<1>1. OnCur BY DEF OnCur
<1>2. Grows BY <1>1, OnCurGrows
<1> QED BY <1>2, AllPutStays

\* The same for what has been taken.
LEMMA TakenUnmoved ==
    ASSUME DiscoveryType, DiscoveryType', UNCHANGED <<caller, early, devs, result, inbox>>, NEW i, NEW p,
           Taken(i, p)
    PROVE  Taken(i, p)'
<1>1. OnCur BY DEF OnCur
<1>2. Grows BY <1>1, OnCurGrows
<1>3. \A a : PutToUse(i, a) => PutToUse(i, a)' BY <1>2, PutStays
<1>4. /\ \A a : AnswersUpTo(i, a)' = AnswersUpTo(i, a)
      /\ \A d : Accepts(i, d)' <=> Accepts(i, d)
  BY SameAnswers
<1>5. \A l : ListedUpTo(i, l)' = ListedUpTo(i, l) BY DEF ListedUpTo
<1> QED BY <1>3, <1>4, <1>5 DEF Taken

\* Interfaces are numbers.
LEMMA Numbered == Interfaces \subseteq Nat \ {0} /\ NIf \in Nat \ {0}
BY DiscoveryAssumption DEF Interfaces

\* The next interface has a number.
LEMMA CurNumbered ==
    ASSUME DiscoveryType
    PROVE  cur \in Nat /\ cur >= 1 /\ cur + 1 \in Nat \ {0}
<1>1. PICK c \in Nat \ {0} : c = cur BY DEF DiscoveryType
<1> QED BY <1>1

\* The invariant holds when the program starts.
LEMMA DiscoveryInitInv == DiscoveryInit => DiscoveryInv
<1> SUFFICES ASSUME DiscoveryInit PROVE DiscoveryInv OBVIOUS
<1>1. DiscoveryType BY DEF DiscoveryInit, DiscoveryType
<1>2. Sockets BY DEF DiscoveryInit, Sockets
<1>3. Listening BY DEF DiscoveryInit, Listening
<1> QED BY <1>1, <1>2, <1>3 DEF DiscoveryInv

\* Before the sleep nothing is to be put to use.
LEMMA NothingEarly ==
    ASSUME NEW i, early[i] = << >>
    PROVE  AllPutToUse(i)
<1>1. Len(early[i]) = 0 BY EmptySeq
<1>2. 1 .. 0 = {} OBVIOUS
<1>3. AnswersUpTo(i, Len(early[i])) = {} BY <1>1, <1>2 DEF AnswersUpTo
<1> QED BY <1>3 DEF AllPutToUse

\* The sockets are opened one after the other; nothing is listed yet.
LEMMA OpenKeeps ==
    ASSUME DiscoveryInv, prepare_interfaces_list
    PROVE  DiscoveryInv'
<1>0. DiscoveryType /\ Sockets /\ Listening BY DEF DiscoveryInv
<1>1. CASE Getifaddrs
  <2>1. DiscoveryType' BY <1>0, <1>1 DEF Getifaddrs, DiscoveryType
  <2>2. Sockets' BY <1>0, <1>1 DEF Getifaddrs, Sockets
  <2>3. ASSUME NEW i \in Interfaces PROVE AllPutToUse(i)'
    <3>1. early[i] = << >> BY <1>0, <1>1 DEF Sockets, Getifaddrs
    <3>2. AllPutToUse(i) BY <3>1, NothingEarly
    <3> QED BY <1>0, <1>1, <2>1, <3>2, PutUnmoved DEF Getifaddrs
  <2>4. Listening' BY <1>0, <1>1, <2>3 DEF Getifaddrs, Listening
  <2> QED BY <2>1, <2>2, <2>4 DEF DiscoveryInv
<1>2. CASE interface_add
  <2>1. PICK o \in {"open", "failed", "leaked"} : fd' = [fd EXCEPT ![cur] = o]
    BY <1>2 DEF interface_add, send_broadcast_discovery, connect_to_interface_for_discovery
  <2>2. PICK c \in Nat : c = cur /\ c >= 1 /\ c + 1 \in Nat \ {0} BY <1>0, CurNumbered
  <2>3. DiscoveryType' BY <1>0, <1>2, <2>1, <2>2 DEF interface_add, DiscoveryType
  <2>4. Sockets'
    <3>1. phase = "open" /\ phase' = "open" /\ UNCHANGED <<inbox, devs, early>> BY <1>2 DEF interface_add
    <3>2. cur' = c + 1 BY <1>2, <2>2 DEF interface_add
    <3>3. ASSUME NEW i \in Interfaces, i >= c + 1 PROVE fd'[i] = "none"
      <4>1. i # c /\ i >= c BY <2>2, <3>3, Numbered DEF Interfaces
      <4> QED BY <1>0, <2>1, <2>2, <3>1, <4>1 DEF Sockets, DiscoveryType
    <3>4. ASSUME NEW i \in Interfaces, fd'[i] # "open" PROVE inbox[i] = << >>
      <4>1. CASE i = c
        <5>1. i >= cur BY <2>2, <4>1, Numbered DEF Interfaces
        <5>2. fd[i] = "none" BY <1>0, <3>1, <5>1 DEF Sockets
        <5> QED BY <1>0, <3>1, <5>2 DEF Sockets
      <4>2. CASE i # c
        <5>1. fd'[i] = fd[i] BY <1>0, <2>1, <2>2, <4>2 DEF DiscoveryType
        <5> QED BY <1>0, <3>1, <3>4, <5>1 DEF Sockets
      <4> QED BY <4>1, <4>2
    <3> QED BY <1>0, <3>1, <3>2, <3>3, <3>4 DEF Sockets
  <2>5. Listening' BY <1>0, <1>2 DEF interface_add, Listening
  <2> QED BY <2>3, <2>4, <2>5 DEF DiscoveryInv
<1>3. CASE SkipInterface
  <2>2. PICK c \in Nat : c = cur /\ c >= 1 /\ c + 1 \in Nat \ {0} BY <1>0, CurNumbered
  <2>1. cur' \in Nat \ {0} /\ UNCHANGED <<caller, usable, phase, fd, inbox, early, devs>>
    BY <1>3, <2>2 DEF SkipInterface
  <2>3. DiscoveryType' BY <1>0, <2>1 DEF DiscoveryType
  <2>4. Sockets'
    <3>1. /\ phase = "open" /\ phase' = "open" /\ UNCHANGED <<inbox, devs, early, fd>> /\ cur' = c + 1
      BY <1>3, <2>2 DEF SkipInterface
    <3>2. \A i \in Interfaces : i >= c + 1 => i >= c BY <2>2, Numbered
    <3> QED BY <1>0, <2>2, <3>1, <3>2 DEF Sockets
  <2>5. Listening' BY <1>0, <1>3 DEF SkipInterface, Listening
  <2> QED BY <2>3, <2>4, <2>5 DEF DiscoveryInv
<1> QED BY <1>1, <1>2, <1>3 DEF prepare_interfaces_list

\* When the sleep ends what waits becomes the early datagrams, none taken.
LEMMA SleepKeeps ==
    ASSUME DiscoveryInv, Sleep
    PROVE  DiscoveryInv'
<1>0. DiscoveryType /\ Sockets /\ Listening BY DEF DiscoveryInv
<1>1. DiscoveryType'
  <2>1. phase' = "read" /\ cur' \in Nat \ {0} /\ UNCHANGED <<caller, usable, fd, inbox, devs>> BY DEF Sleep
  <2>2. early' \in [Interfaces -> Seq(Datagrams)] BY <1>0 DEF Sleep, DiscoveryType
  <2> QED BY <1>0, <2>1, <2>2 DEF DiscoveryType
<1>2. Sockets' BY <1>0 DEF Sleep, Sockets
<1>3. ASSUME NEW i \in Interfaces PROVE Taken(i, 0)' /\ 0 \in 0 .. Len(early[i])'
  <2>1. early'[i] = inbox[i] /\ inbox'[i] = inbox[i] /\ devs' = << >> BY <1>0 DEF Sleep, Sockets
  <2>2. PICK n \in Nat : n = Len(inbox[i]) BY <1>0, Lengths
  <2>3. Len(<< >>) = 0 BY EmptySeq
  <2>4. 1 .. 0 = {} OBVIOUS
  <2>5. ListedUpTo(i, Len(devs))' = {} BY <2>1, <2>3, <2>4 DEF ListedUpTo
  <2>6. AnswersUpTo(i, 0)' = {} BY <2>4 DEF AnswersUpTo
  <2>7. \A k \in 1 .. n - 0 : inbox[i][k] = inbox[i][0 + k] OBVIOUS
  <2>8. 0 \in 0 .. n /\ n - 0 <= n OBVIOUS
  <2> QED BY <2>1, <2>2, <2>4, <2>5, <2>6, <2>7, <2>8 DEF Taken
<1>4. \A i \in Interfaces : ~(i < 1) BY Numbered
<1>5. Listening' BY <1>0, <1>3, <1>4 DEF Sleep, Listening
<1> QED BY <1>1, <1>2, <1>5 DEF DiscoveryInv

\* The next interface: this one has nothing left to put to use, or its read failed.
LEMMA OnToNext ==
    ASSUME DiscoveryInv, DiscoveryType', NEW c, c = cur,
           phase = "read", phase' \in {"read", "crashed"}, cur' = cur + 1,
           OnCur, UNCHANGED <<caller, early, fd>>, result # << >> => result' # << >>,
           \A i \in Interfaces : i # cur => inbox'[i] = inbox[i],
           broken \subseteq broken',
           c \in Interfaces => c \in broken' \/ AllPutToUse(c)'
    PROVE  Listening'
<1>0. DiscoveryType /\ Listening BY DEF DiscoveryInv
<1>1. c \in Nat /\ cur' = c + 1 BY <1>0, CurNumbered
<1>2. Grows BY <1>0, OnCurGrows
<1>3. SUFFICES ASSUME NEW i \in Interfaces, phase' = "read"
               PROVE  IF i < cur' THEN i \in broken' \/ AllPutToUse(i)'
                                  ELSE \E p \in 0 .. Len(early'[i]) : Taken(i, p)'
  BY DEF Listening
<1>4. i \in Nat BY Numbered
<1>5. CASE i < c
  <2>1. i \in broken \/ AllPutToUse(i) BY <1>0, <1>1, <1>5 DEF Listening
  <2>2. i < cur' BY <1>1, <1>4, <1>5
  <2>3. AllPutToUse(i) => AllPutToUse(i)' BY <1>0, <1>2, AllPutStays
  <2> QED BY <2>1, <2>2, <2>3
<1>6. CASE i = c
  <2>1. i < cur' BY <1>1, <1>4, <1>6
  <2> QED BY <1>1, <1>6, <2>1
<1>7. CASE i > c
  <2>1. ~(i < cur) /\ ~(i < cur') /\ i # cur BY <1>1, <1>4, <1>7
  <2>2. PICK p \in 0 .. Len(early[i]) : Taken(i, p) BY <1>0, <2>1 DEF Listening
  <2>3. Taken(i, p)' BY <1>0, <2>1, <2>2, OthersStay
  <2> QED BY <2>1, <2>2, <2>3
<1> QED BY <1>1, <1>4, <1>5, <1>6, <1>7

\* The same interface again.
LEMMA SameAgain ==
    ASSUME DiscoveryInv, DiscoveryType', NEW c, c = cur,
           phase = "read", phase' = "read", cur' = cur,
           OnCur, UNCHANGED <<caller, early, fd, broken>>, result # << >> => result' # << >>,
           \A i \in Interfaces : i # cur => inbox'[i] = inbox[i],
           c \in Interfaces => \E p \in 0 .. Len(early[c]) : Taken(c, p)'
    PROVE  Listening'
<1>0. DiscoveryType /\ Listening BY DEF DiscoveryInv
<1>1. c \in Nat BY <1>0, CurNumbered
<1>2. Grows BY <1>0, OnCurGrows
<1>3. SUFFICES ASSUME NEW i \in Interfaces
               PROVE  IF i < cur THEN i \in broken \/ AllPutToUse(i)'
                                 ELSE \E p \in 0 .. Len(early[i]) : Taken(i, p)'
  BY DEF Listening
<1>4. i \in Nat BY Numbered
<1>5. CASE i < cur
  <2>1. i \in broken \/ AllPutToUse(i) BY <1>0, <1>5 DEF Listening
  <2>2. AllPutToUse(i) => AllPutToUse(i)' BY <1>0, <1>2, AllPutStays
  <2> QED BY <1>5, <2>1, <2>2
<1>6. CASE i = cur
  <2>1. ~(i < cur) BY <1>1, <1>4, <1>6
  <2> QED BY <1>6, <2>1
<1>7. CASE ~(i < cur) /\ i # cur
  <2>2. PICK p \in 0 .. Len(early[i]) : Taken(i, p) BY <1>0, <1>7 DEF Listening
  <2>3. Taken(i, p)' BY <1>0, <1>7, <2>2, OthersStay
  <2> QED BY <1>7, <2>2, <2>3
<1> QED BY <1>5, <1>6, <1>7

\* One datagram less in the inbox of cur, and nothing else read.
LEMMA ReadTypes ==
    ASSUME DiscoveryType, cur \in Interfaces, inbox[cur] # << >>,
           inbox' = [inbox EXCEPT ![cur] = Tail(@)],
           UNCHANGED <<caller, usable, early, fd>>, phase' \in {"read", "close"}, cur' \in {cur, cur + 1}, OnCur
    PROVE  DiscoveryType'
<1>1. inbox[cur] \in Seq(Datagrams) BY DEF DiscoveryType
<1>2. Tail(inbox[cur]) \in Seq(Datagrams) BY <1>1, HeadTailProperties
<1>3. inbox' \in [Interfaces -> Seq(Datagrams)] BY <1>2 DEF DiscoveryType
<1>4. cur' \in Nat \ {0} BY CurNumbered DEF DiscoveryType
<1>5. devs' \in Seq(Device)
  <2>1. devs \in Seq(Device) BY DEF DiscoveryType
  <2>2. \A x \in Device : Append(devs, x) \in Seq(Device) BY <2>1, AppendProperties
  <2> QED BY <2>1, <2>2 DEF OnCur
<1>6. phase' \in {"getifaddrs", "open", "read", "close", "use", "ended", "crashed"} OBVIOUS
<1> QED BY <1>3, <1>4, <1>5, <1>6 DEF DiscoveryType

\* Reading leaves what is open open; an emptier inbox is as good.
LEMMA ReadSockets ==
    ASSUME Sockets, phase = "read", UNCHANGED <<fd, early>>,
           phase' \in {"read", "close", "crashed"},
           \A i \in Interfaces : fd[i] # "open" => inbox'[i] = inbox[i]
    PROVE  Sockets'
BY DEF Sockets

\* Nothing waits, there is no socket, or its read fails: on to the next.
LEMMA ListenKeepsOnce ==
    ASSUME DiscoveryInv, ListenNothing \/ ListenNoSocket \/ ListenFails
    PROVE  DiscoveryInv'
<1>0. DiscoveryType /\ Sockets /\ Listening BY DEF DiscoveryInv
<1>1. /\ phase = "read" /\ phase' \in {"read", "crashed"} /\ cur' = cur + 1 /\ cur \in Interfaces
      /\ UNCHANGED <<caller, usable, early, fd, inbox, devs, result>> /\ broken \subseteq broken'
  BY DEF ListenNothing, ListenNoSocket, ListenFails, NextInterface
<1>2. cur' \in Nat \ {0} BY <1>0, <1>1, CurNumbered
<1>3. DiscoveryType' BY <1>0, <1>1, <1>2 DEF DiscoveryType
<1>4. Sockets' BY <1>0, <1>1, ReadSockets
<1>5. OnCur BY <1>1 DEF OnCur
<1>6. cur \in broken' \/ AllPutToUse(cur)
  <2>1. CASE fd[cur] # "open"
    <3>1. early[cur] = << >> BY <1>0, <1>1, <2>1 DEF Sockets
    <3> QED BY <3>1, NothingEarly
  <2>2. CASE ListenNothing /\ fd[cur] = "open"
    <3>1. inbox[cur] = << >> BY <2>2 DEF ListenNothing
    <3>2. PICK c \in Nat : c = cur BY <1>0, CurNumbered
    <3>3. ~(cur < cur) BY <3>2
    <3>4. PICK p \in 0 .. Len(early[cur]) : Taken(cur, p) BY <1>0, <1>1, <3>3 DEF Listening
    <3>5. PICK n \in Nat : n = Len(early[cur]) BY <1>0, <1>1, Lengths
    <3>6. n - p <= 0
      <4>1. Len(inbox[cur]) = 0 BY <3>1, EmptySeq
      <4> QED BY <3>4, <3>5, <4>1 DEF Taken
    <3>7. p >= n BY <3>4, <3>5, <3>6
    <3> QED BY <1>0, <1>1, <3>4, <3>5, <3>7, TakenAll
  <2>3. CASE ListenFails BY <2>3 DEF ListenFails
  <2>4. CASE ListenNoSocket /\ fd[cur] = "open" BY <2>4 DEF ListenNoSocket
  <2> QED BY <2>1, <2>2, <2>3, <2>4
<1>7. PICK c : c = cur OBVIOUS
<1>8. AllPutToUse(c) => AllPutToUse(c)' BY <1>0, <1>1, <1>3, PutUnmoved
<1>9. c \in broken' \/ AllPutToUse(c) BY <1>6, <1>7
<1>10. Listening' BY <1>1, <1>3, <1>5, <1>7, <1>8, <1>9, OnToNext
<1> QED BY <1>3, <1>4, <1>10 DEF DiscoveryInv

\* What taking a datagram changes: the inbox of cur, and the list at its end.
LEMMA AnswerIsRead ==
    ASSUME DiscoveryInv, listen_discovery_answer, NEW d, d = Head(inbox[cur])
    PROVE  /\ phase = "read" /\ cur \in Interfaces /\ fd[cur] = "open" /\ inbox[cur] # << >>
           /\ inbox' = [inbox EXCEPT ![cur] = Tail(@)]
           /\ UNCHANGED <<caller, usable, early, fd, broken>>
           /\ OnCur /\ (result # << >> => result' # << >>)
           /\ \/ /\ ~Accepts(cur, d) /\ devs' = devs /\ phase' = phase /\ cur' = cur
              \/ /\ Accepts(cur, d) /\ caller = "udpcapture" /\ devs' = devs /\ cur' = cur
                 /\ IF d.from = Wanted THEN result' # << >> /\ phase' = "close" ELSE phase' = phase
              \/ /\ Accepts(cur, d) /\ caller \in {"library", "oldcapture"} /\ phase' = phase /\ cur' = cur
                 /\ devs' = Append(devs, device_create(d))
              \/ /\ Accepts(cur, d) /\ caller = "finddevices" /\ phase' = phase /\ cur' = cur + 1
                 /\ devs' = Append(devs, device_create(d))
<1>0. DiscoveryType BY DEF DiscoveryInv
<1>1. /\ phase = "read" /\ cur \in Interfaces /\ fd[cur] = "open" /\ inbox[cur] # << >>
      /\ inbox' = [inbox EXCEPT ![cur] = Tail(@)]
      /\ UNCHANGED <<caller, usable, early, fd, broken>>
  BY DEF listen_discovery_answer
<1>2. device_create(d) \in Device /\ device_create(d).iface = cur
  <2>1. inbox[cur] \in Seq(Datagrams) BY <1>0, <1>1 DEF DiscoveryType
  <2>2. d \in Datagrams BY <1>1, <2>1, HeadTailProperties
  <2> QED BY <1>1, <2>2 DEF device_create, gvcp_discovery_ack, Device
<1>3. ASSUME devs' = Append(devs, device_create(d)) PROVE OnCur BY <1>2, <1>3 DEF OnCur
<1>4. CASE ListenIgnores(d) BY <1>1, <1>4 DEF ListenIgnores, OnCur
<1>5. CASE Accepts(cur, d) /\ device_find(d)
  <2>1. Len(<<device_create(d)>>) = 1 /\ Len(<< >>) = 0 OBVIOUS
  <2>2. <<device_create(d)>> # << >> BY <2>1
  <2> QED BY <1>1, <1>5, <2>2 DEF device_find, OnCur
<1>6. CASE Accepts(cur, d) /\ prepare_devices_list(d) BY <1>1, <1>3, <1>6 DEF prepare_devices_list
<1>7. CASE Accepts(cur, d) /\ EveryDevice(d) BY <1>1, <1>3, <1>7 DEF EveryDevice, device_add
<1>8. CASE Accepts(cur, d) /\ OneDevice(d) BY <1>1, <1>3, <1>8 DEF OneDevice, device_add, NextInterface
<1> QED BY <1>4, <1>5, <1>6, <1>7, <1>8 DEF listen_discovery_answer

\* The first answer of an interface is all that finddevices takes of it.
LEMMA FirstIsEnough ==
    ASSUME DiscoveryType, DiscoveryType', caller = "finddevices", UNCHANGED <<caller, early>>,
           NEW i \in Interfaces, NEW p, Taken(i, p)', p \in Nat \ {0}, Accepts(i, early[i][p])
    PROVE  AllPutToUse(i)'
<1>1. PICK n \in Nat : n = Len(early[i]) BY Lengths
<1>2. AnswersUpTo(i, n)' = AnswersUpTo(i, n) /\ \A a : AnswersUpTo(i, a)' = AnswersUpTo(i, a)
      /\ \A x : Accepts(i, x)' <=> Accepts(i, x)
  BY SameAnswers
<1>3. SUFFICES ASSUME NEW a \in 1 .. n, Accepts(i, early[i][a]) PROVE PutToUse(i, a)'
  BY <1>1, <1>2 DEF AllPutToUse, AnswersUpTo
<1>4. CASE a <= p
  <2>1. a \in 1 .. p BY <1>1, <1>4
  <2> QED BY <1>2, <1>3, <2>1 DEF Taken
<1>5. CASE a > p
  <2>1. p \in 1 .. a /\ p # a BY <1>5
  <2>2. p \in AnswersUpTo(i, a) BY <2>1 DEF AnswersUpTo
  <2>3. AnswersUpTo(i, a)' # {a} BY <1>2, <2>1, <2>2
  <2> QED BY <2>3 DEF PutToUse
<1> QED BY <1>4, <1>5

\* device_find stops at the first answer of the address it wants; with a device
\* in hand it has done what was asked of it.
LEMMA FoundIsEnough ==
    ASSUME caller' = "udpcapture", result' # << >>, NEW i
    PROVE  AllPutToUse(i)'
BY DEF AllPutToUse, PutToUse

\* A datagram is taken from the interface cur.
LEMMA AnswerKeeps ==
    ASSUME DiscoveryInv, listen_discovery_answer
    PROVE  DiscoveryInv'
<1>0. DiscoveryType /\ Sockets /\ Listening BY DEF DiscoveryInv
<1>1. PICK c : c = cur OBVIOUS
<1>2. PICK d : d = Head(inbox[c]) OBVIOUS
<1>3. /\ phase = "read" /\ c \in Interfaces /\ fd[c] = "open" /\ inbox[c] # << >>
      /\ inbox' = [inbox EXCEPT ![c] = Tail(@)]
      /\ UNCHANGED <<caller, usable, early, fd, broken>>
      /\ OnCur /\ (result # << >> => result' # << >>)
      /\ phase' \in {"read", "close"} /\ cur' \in {cur, cur + 1}
  BY <1>1, <1>2, AnswerIsRead
<1>4. DiscoveryType' BY <1>0, <1>1, <1>3, ReadTypes
<1>5. \A i \in Interfaces : i # c => inbox'[i] = inbox[i] BY <1>0, <1>3 DEF DiscoveryType
<1>6. Sockets' BY <1>0, <1>3, <1>5, ReadSockets
<1>7. inbox'[c] = Tail(inbox[c]) BY <1>0, <1>3 DEF DiscoveryType
<1>8. c \in Nat /\ ~(c < cur) BY <1>0, <1>1, CurNumbered
<1>9. PICK p \in 0 .. Len(early[c]) : Taken(c, p) BY <1>0, <1>3, <1>8 DEF Listening
<1>10. PICK n \in Nat : n = Len(early[c]) BY <1>0, <1>3, Lengths
<1>11. p \in Nat /\ p <= n BY <1>9, <1>10
<1>12. CASE phase' = "close"
  <2>1. caller' = "udpcapture" /\ result' # << >> BY <1>1, <1>2, <1>3, <1>12, AnswerIsRead
  <2>2. \A i : AllPutToUse(i)' BY <2>1, FoundIsEnough
  <2>3. Listening' BY <1>12, <2>2 DEF Listening
  <2> QED BY <1>4, <1>6, <2>3 DEF DiscoveryInv
<1>13. CASE phase' = "read" /\ cur' = cur
  <2>1. \E q \in 0 .. n : Taken(c, q)'
    <3>1. CASE p >= n
      <4>1. Taken(c, p)' BY <1>0, <1>3, <1>4, <1>9, <1>10, <3>1, TakenAllStays
      <4> QED BY <1>9, <1>10, <4>1
    <3>2. CASE p < n
      <4>1. \/ ~Accepts(c, d) /\ devs' = devs
            \/ /\ Accepts(c, d) /\ caller = "udpcapture" /\ d.from # Wanted /\ devs' = devs
            \/ Accepts(c, d) /\ caller # "udpcapture" /\ devs' = Append(devs, device_create(d))
        BY <1>1, <1>2, <1>3, <1>13, AnswerIsRead
      <4>2. Taken(c, p + 1)'
        BY <1>0, <1>1, <1>2, <1>3, <1>4, <1>7, <1>9, <1>10, <3>2, <4>1, TakesNext
      <4>3. p + 1 \in 0 .. n BY <1>11, <3>2
      <4> QED BY <4>2, <4>3
    <3> QED BY <1>11, <3>1, <3>2
  <2>2. Listening' BY <1>1, <1>3, <1>4, <1>5, <1>10, <1>13, <2>1, SameAgain
  <2> QED BY <1>4, <1>6, <2>2 DEF DiscoveryInv
<1>14. CASE phase' = "read" /\ cur' = cur + 1 /\ cur' # cur
  <2>1. Accepts(c, d) /\ caller = "finddevices" /\ devs' = Append(devs, device_create(d))
    BY <1>1, <1>2, <1>3, <1>14, AnswerIsRead
  <2>2. AllPutToUse(c)'
    <3>1. CASE p >= n
      <4>1. AllPutToUse(c) BY <1>0, <1>3, <1>9, <1>10, <3>1, TakenAll
      <4>2. Grows BY <1>0, <1>3, OnCurGrows
      <4> QED BY <1>0, <1>4, <4>1, <4>2, AllPutStays
    <3>2. CASE p < n
      <4>1. d = early[c][p + 1] /\ Taken(c, p + 1)'
        BY <1>0, <1>1, <1>2, <1>3, <1>4, <1>7, <1>9, <1>10, <2>1, <3>2, TakesNext
      <4>2. p + 1 \in Nat \ {0} BY <1>11
      <4> QED BY <1>0, <1>3, <1>4, <2>1, <4>1, <4>2, FirstIsEnough
    <3> QED BY <1>11, <3>1, <3>2
  <2>3. Listening' BY <1>1, <1>3, <1>4, <1>5, <1>14, <2>2, OnToNext
  <2> QED BY <1>4, <1>6, <2>3 DEF DiscoveryInv
<1> QED BY <1>3, <1>12, <1>13, <1>14

-----------------------------------------------------------------------------
\* All interfaces have been read.
LEMMA ListReadKeeps ==
    ASSUME DiscoveryInv, ListRead
    PROVE  DiscoveryInv'
<1>0. DiscoveryType /\ Sockets /\ Listening BY DEF DiscoveryInv
<1>1. phase = "read" /\ cur > NIf /\ phase' = "close"
      /\ UNCHANGED <<caller, usable, cur, fd, inbox, devs, result, early, broken>>
  BY DEF ListRead
<1>2. DiscoveryType' BY <1>0, <1>1 DEF DiscoveryType
<1>3. Sockets' BY <1>0, <1>1 DEF Sockets
<1>4. ASSUME NEW i \in Interfaces, i \notin broken PROVE AllPutToUse(i)'
  <2>1. PICK c \in Nat : c = cur BY <1>0, CurNumbered
  <2>2. i < c BY <1>1, <2>1, Numbered DEF Interfaces
  <2>3. AllPutToUse(i) BY <1>0, <1>1, <1>4, <2>1, <2>2 DEF Listening
  <2> QED BY <1>0, <1>1, <1>2, <2>3, PutUnmoved
<1>5. Listening' BY <1>1, <1>4 DEF Listening
<1> QED BY <1>2, <1>3, <1>5 DEF DiscoveryInv

\* The steps after the reading: the lists stay, and what is handed over grows.
LEMMA AfterKeeps ==
    ASSUME DiscoveryInv, DiscoveryType', phase \in {"close", "use"}, phase' \in {"use", "ended", "crashed"},
           UNCHANGED <<caller, early, devs, broken>>, result # << >> => result' # << >>
    PROVE  DiscoveryInv'
<1>0. DiscoveryType /\ Sockets /\ Listening BY DEF DiscoveryInv
<1>1. Sockets' BY DEF Sockets
<1>2. \A i \in Interfaces \ broken : AllPutToUse(i)' BY <1>0, PutUnmoved DEF Listening
<1>3. Listening' BY <1>2 DEF Listening
<1> QED BY <1>1, <1>3 DEF DiscoveryInv

\* The sockets are closed, and the lists stay.
LEMMA DestroyKeeps ==
    ASSUME DiscoveryInv, ifaces_destroy
    PROVE  DiscoveryInv'
<1>0. DiscoveryType BY DEF DiscoveryInv
<1>1. phase' \in {"use", "ended"} /\ phase = "close" /\ UNCHANGED <<caller, usable, cur, devs, result, early, broken>>
  BY DEF ifaces_destroy
<1>2. fd' \in [Interfaces -> {"none", "open", "failed", "leaked", "closed"}]
  BY <1>0 DEF ifaces_destroy, DiscoveryType
<1>3. inbox' \in [Interfaces -> Seq(Datagrams)]
  <2>1. << >> \in Seq(Datagrams) OBVIOUS
  <2> QED BY <2>1 DEF ifaces_destroy
<1>4. DiscoveryType' BY <1>0, <1>1, <1>2, <1>3 DEF DiscoveryType
<1> QED BY <1>1, <1>4, AfterKeeps

\* What is handed over: a device after the others, or the first.
LEMMA UseKeeps ==
    ASSUME DiscoveryInv, devices_discovery \/ FirstDevice
    PROVE  DiscoveryInv'
<1>0. DiscoveryType BY DEF DiscoveryInv
<1>1. /\ phase' \in {"use", "ended", "crashed"} /\ phase = "use"
      /\ caller \in {"library", "oldcapture"}
      /\ UNCHANGED <<caller, usable, cur, devs, fd, inbox, early, broken>>
  BY DEF devices_discovery, FirstDevice
<1>2. DiscoveryType' BY <1>0, <1>1 DEF DiscoveryType
<1>3. Sockets' BY <1>1 DEF Sockets
<1>4. ASSUME NEW i, AllPutToUse(i) PROVE AllPutToUse(i)'
  <2>1. \A a : AnswersUpTo(i, a)' = AnswersUpTo(i, a) BY <1>1, SameAnswers
  <2>2. \A l : ListedUpTo(i, l)' = ListedUpTo(i, l) BY <1>1 DEF ListedUpTo
  <2>3. \A a : Listed(i, a)' <=> Listed(i, a) BY <1>1, <2>1, <2>2 DEF Listed
  <2> QED BY <1>1, <1>4, <2>1, <2>3 DEF AllPutToUse, PutToUse
<1>5. Listening' BY <1>1, <1>4 DEF Listening, DiscoveryInv
<1> QED BY <1>2, <1>3, <1>5 DEF DiscoveryInv

\* A datagram arrives at an open socket, behind those that wait there.
LEMMA ArriveKeeps ==
    ASSUME DiscoveryInv, Arrive
    PROVE  DiscoveryInv'
<1>0. DiscoveryType /\ Sockets /\ Listening BY DEF DiscoveryInv
<1>1. UNCHANGED <<caller, usable, phase, cur, fd, devs, result, early, broken>> BY DEF Arrive
<1>2. PICK j \in Interfaces, d \in Datagrams : fd[j] = "open" /\ inbox' = [inbox EXCEPT ![j] = Append(@, d)]
  BY DEF Arrive
<1>3. inbox[j] \in Seq(Datagrams) BY <1>0 DEF DiscoveryType
<1>4. /\ Append(inbox[j], d) \in Seq(Datagrams) /\ Len(Append(inbox[j], d)) = Len(inbox[j]) + 1
      /\ \A k \in 1 .. Len(inbox[j]) : Append(inbox[j], d)[k] = inbox[j][k]
  BY <1>3, AppendProperties
<1>5. DiscoveryType'
  <2>1. inbox' \in [Interfaces -> Seq(Datagrams)] BY <1>0, <1>2, <1>4 DEF DiscoveryType
  <2> QED BY <1>0, <1>1, <2>1 DEF DiscoveryType
<1>6. \A i \in Interfaces : i # j => inbox'[i] = inbox[i] BY <1>0, <1>2 DEF DiscoveryType
<1>7. inbox'[j] = Append(inbox[j], d) BY <1>0, <1>2 DEF DiscoveryType
<1>8. Sockets' BY <1>0, <1>1, <1>2, <1>6 DEF Sockets
<1>9. \A i : AllPutToUse(i) => AllPutToUse(i)' BY <1>0, <1>1, <1>5, PutUnmoved
<1>10. ASSUME NEW i \in Interfaces, NEW p, Taken(i, p) PROVE Taken(i, p)'
  <2>1. Grows BY <1>0, <1>1, OnCurGrows DEF OnCur
  <2>2. \A a : PutToUse(i, a) => PutToUse(i, a)' BY <1>0, <1>5, <2>1, PutStays
  <2>3. /\ \A a : AnswersUpTo(i, a)' = AnswersUpTo(i, a)
        /\ \A x : Accepts(i, x)' <=> Accepts(i, x)
    BY <1>1, SameAnswers
  <2>4. \A l : ListedUpTo(i, l)' = ListedUpTo(i, l) BY <1>1 DEF ListedUpTo
  <2>5. PICK n \in Nat : n = Len(early[i]) BY <1>0, Lengths
  <2>6. PICK m \in Nat : m = Len(inbox[i]) BY <1>0, Lengths
  <2>7. p \in 0 .. n /\ n - p <= m /\ \A k \in 1 .. n - p : inbox[i][k] = early[i][p + k]
    BY <1>10, <2>5, <2>6 DEF Taken
  <2>8. Len(inbox'[i]) \in Nat /\ Len(inbox'[i]) >= m /\ \A k \in 1 .. m : inbox'[i][k] = inbox[i][k]
    <3>1. CASE i = j BY <1>4, <1>7, <2>6, <3>1
    <3>2. CASE i # j BY <1>6, <2>6, <3>2
    <3> QED BY <3>1, <3>2
  <2>9. n - p <= Len(inbox'[i]) BY <2>5, <2>6, <2>7, <2>8
  <2>10. ASSUME NEW k \in 1 .. n - p PROVE inbox'[i][k] = early[i][p + k]
    <3>1. k \in 1 .. m BY <2>5, <2>6, <2>7
    <3> QED BY <2>7, <2>8, <3>1
  <2> QED BY <1>1, <1>10, <2>2, <2>3, <2>4, <2>5, <2>7, <2>9, <2>10 DEF Taken
<1>11. Listening' BY <1>0, <1>1, <1>9, <1>10 DEF Listening
<1> QED BY <1>5, <1>8, <1>11 DEF DiscoveryInv

\* The inductive invariant of Discovery.
THEOREM DiscoveryInvariance == DiscoverySpec => []DiscoveryInv
<1>1. DiscoveryInit => DiscoveryInv BY DiscoveryInitInv
<1>2. DiscoveryInv /\ [DiscoveryNext]_discoveryVars => DiscoveryInv'
  <2> SUFFICES ASSUME DiscoveryInv, [DiscoveryNext]_discoveryVars PROVE DiscoveryInv' OBVIOUS
  <2>1. CASE Arrive BY <2>1, ArriveKeeps
  <2>2. CASE prepare_interfaces_list BY <2>2, OpenKeeps
  <2>3. CASE Sleep BY <2>3, SleepKeeps
  <2>4. CASE Listen BY <2>4, ListenKeepsOnce, AnswerKeeps, ListReadKeeps DEF Listen
  <2>5. CASE ifaces_destroy BY <2>5, DestroyKeeps
  <2>6. CASE devices_discovery \/ FirstDevice BY <2>6, UseKeeps
  <2>7. CASE UNCHANGED discoveryVars
    <3>1. DiscoveryType' BY <2>7 DEF discoveryVars, DiscoveryInv, DiscoveryType
    <3>2. Sockets' BY <2>7 DEF discoveryVars, DiscoveryInv, Sockets
    <3>3. Listening'
      <4>1. \A i : AllPutToUse(i) => AllPutToUse(i)'
        BY <2>7, <3>1, PutUnmoved DEF discoveryVars, DiscoveryInv
      <4>2. \A i, p : Taken(i, p) => Taken(i, p)'
        BY <2>7, <3>1, TakenUnmoved DEF discoveryVars, DiscoveryInv
      <4> QED BY <2>7, <4>1, <4>2 DEF discoveryVars, DiscoveryInv, Listening
    <3> QED BY <3>1, <3>2, <3>3 DEF DiscoveryInv
  <2> QED BY <2>1, <2>2, <2>3, <2>4, <2>5, <2>6, <2>7
      DEF DiscoveryNext, Run, library, capture_main, finddevices_main
<1> QED BY <1>1, <1>2, PTL DEF DiscoverySpec

\* Every answer that had come in before the end of the sleep, on an interface no
\* read of which failed, is put to use by the time the sockets are closed,
\* whatever waits in front of it or arrives meanwhile (device.c,
\* listen_discovery_answer): for any number of interfaces and datagrams.
THEOREM AnswersAreFound == DiscoverySpec => []EarlyAnswersFound
<1>1. ASSUME DiscoveryInv PROVE EarlyAnswersFound
  <2>1. SUFFICES ASSUME phase \in {"use", "ended"}, NEW i \in usable \ broken,
                        NEW a \in AnswersUpTo(i, Len(early[i]))
                 PROVE  PutToUse(i, a)
    BY DEF EarlyAnswersFound
  <2>2. i \in Interfaces BY <1>1, <2>1 DEF DiscoveryInv, DiscoveryType
  <2> QED BY <1>1, <2>1, <2>2 DEF DiscoveryInv, Listening, AllPutToUse
<1> QED BY <1>1, DiscoveryInvariance, PTL
=============================================================================
