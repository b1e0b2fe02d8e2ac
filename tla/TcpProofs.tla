----------------------------- MODULE TcpProofs -----------------------------
(***************************************************************************)
(* The tcp server, for any clients, buffer size and lines.                 *)
(*   StreamIntact        the stream of a client, buffer and socket taken   *)
(*                       together, can be cut into its unhandled lines     *)
(*                       (IsCut); a read moves no cut, a line handled      *)
(*                       takes the first piece away, a line sent adds one  *)
(*   NeverBlocksInRead   a connection is in the list once, so that the     *)
(*                       loop reads from it once per select, and what      *)
(*                       select has reported stays readable until then     *)
(***************************************************************************)
EXTENDS TcpServer, SequenceTheorems, WellFoundedInduction, TLAPS

Bytes == Nat \X Nat
LineType == [len : Nat \ {0}, stop : BOOLEAN]

\* The stream s holds the lines h + 1, h + 2, ... of ls; cut[i] is where the
\* i-th of them ends.
CutBy(cut, s, ls, h, m) ==
    /\ cut \in [0 .. m -> Nat]
    /\ cut[0] = 0 /\ cut[m] = Len(s)
    /\ \A i \in 1 .. m : cut[i] = cut[i - 1] + ls[h + i].len
    /\ \A i \in 0 .. m : \A j \in 0 .. m : i <= j => cut[i] <= cut[j]
    /\ \A i \in 1 .. m : \A d \in 1 .. ls[h + i].len : s[cut[i - 1] + d] = <<h + i, d>>

IsCut(s, ls, h) ==
    \E m \in Nat : Len(ls) = h + m /\ \E cut : CutBy(cut, s, ls, h, m)

StreamCut == \A c \in Clients : IsCut(request[c] \o up[c], lines[c], handled[c])

-----------------------------------------------------------------------------
\* Every nonempty set of numbers has a least element.
LEMMA LeastNumber ==
    ASSUME NEW S \in SUBSET Nat, S # {}
    PROVE  \E x \in S : \A y \in S : x <= y
<1>1. IsWellFoundedOn(OpToRel(<, Nat), Nat)
  BY NatLessThanWellFounded
<1>2. PICK x \in S : \A y \in S : ~(<<y, x>> \in OpToRel(<, Nat))
  BY <1>1, WFMin
<1>3. \A y \in S : x <= y
  <2> TAKE y \in S
  <2>1. y \in Nat /\ x \in Nat OBVIOUS
  <2>2. y < x => <<y, x>> \in OpToRel(<, Nat) BY <2>1 DEF OpToRel
  <2>3. ~(y < x) BY <1>2, <2>2
  <2> QED BY <2>1, <2>3
<1> QED BY <1>3

\* What is in front of a cut, and a piece behind it, are what is in front of
\* the next cut.
LEMMA OnePieceMore ==
    ASSUME NEW S, NEW s \in Seq(S), NEW p \in Seq(S), NEW a \in Nat, a + Len(p) <= Len(s),
           \A d \in 1 .. Len(p) : s[a + d] = p[d]
    PROVE  SubSeq(s, 1, a) \o p = SubSeq(s, 1, a + Len(p))
<1>1. PICK l : l = Len(p) OBVIOUS
<1>2. PICK n : n = Len(s) OBVIOUS
<1>3. l \in Nat /\ n \in Nat /\ a + l <= n BY <1>1, <1>2
<1>4. \A i \in 1 .. n : s[i] \in S BY <1>2
<1>5. PICK x : x = SubSeq(s, 1, a) OBVIOUS
<1>6. x \in Seq(S) /\ Len(x) = a /\ \A i \in 1 .. a : x[i] = s[i]
  <2>1. \A i \in 1 .. a : s[i] \in S BY <1>3, <1>4
  <2>2. /\ SubSeq(s, 1, a) \in Seq(S)
        /\ Len(SubSeq(s, 1, a)) = IF 1 <= a THEN a - 1 + 1 ELSE 0
        /\ \A i \in 1 .. a - 1 + 1 : SubSeq(s, 1, a)[i] = s[1 + i - 1]
    BY <2>1, SubSeqProperties
  <2> QED BY <1>5, <2>2
<1>7. PICK y : y = SubSeq(s, 1, a + l) OBVIOUS
<1>8. y \in Seq(S) /\ Len(y) = a + l /\ \A i \in 1 .. a + l : y[i] = s[i]
  <2>0. PICK b : b = a + l OBVIOUS
  <2>1. b \in Nat /\ \A i \in 1 .. b : s[i] \in S BY <2>0, <1>3, <1>4
  <2>2. /\ SubSeq(s, 1, b) \in Seq(S)
        /\ Len(SubSeq(s, 1, b)) = IF 1 <= b THEN b - 1 + 1 ELSE 0
        /\ \A i \in 1 .. b - 1 + 1 : SubSeq(s, 1, b)[i] = s[1 + i - 1]
    BY <2>1, SubSeqProperties
  <2> QED BY <1>7, <2>0, <2>1, <2>2
<1>9. PICK z : z = x \o p OBVIOUS
<1>10. /\ z \in Seq(S) /\ Len(z) = a + l
       /\ \A i \in 1 .. a + l : z[i] = IF i <= a THEN x[i] ELSE p[i - a]
  BY <1>1, <1>6, <1>9, ConcatProperties
<1>11. ASSUME NEW i \in 1 .. a + l PROVE z[i] = y[i]
  <2>1. CASE i <= a
    <3>1. i \in 1 .. a BY <1>3, <2>1
    <3> QED BY <1>6, <1>8, <1>10, <2>1, <3>1
  <2>2. CASE ~(i <= a)
    <3>1. i - a \in 1 .. l /\ a + (i - a) = i BY <1>3, <2>2
    <3>2. s[a + (i - a)] = p[i - a] BY <1>1, <3>1
    <3> QED BY <1>8, <1>10, <2>2, <3>1, <3>2
  <2> QED BY <2>1, <2>2
<1>12. z = y BY <1>8, <1>10, <1>11, SeqEqual
<1> QED BY <1>1, <1>5, <1>7, <1>9, <1>12

\* FlattenSeq is recursive: it unfolds at the last piece.
LEMMA FlattenUnfolds ==
    ASSUME NEW q, NEW m \in Nat \ {0}, Len(q) = m,
           \E f : f = [i \in 1 .. m |-> IF i = 1 THEN q[i] ELSE f[i - 1] \o q[i]]
    PROVE  \E g : /\ g = [i \in 1 .. m |-> IF i = 1 THEN q[i] ELSE g[i - 1] \o q[i]]
                  /\ SX!FlattenSeq(q) = g[m]
<1>1. PICK g : g = CHOOSE f : f = [i \in 1 .. m |-> IF i = 1 THEN q[i] ELSE f[i - 1] \o q[i]]
  OBVIOUS
<1>2. g = [i \in 1 .. m |-> IF i = 1 THEN q[i] ELSE g[i - 1] \o q[i]] BY <1>1, Zenon
<1>3. g = CHOOSE f : f = [i \in 1 .. Len(q) |-> IF i = 1 THEN q[i] ELSE f[i - 1] \o q[i]] BY <1>1
<1>4. Len(q) # 0 OBVIOUS
<1>5. SX!FlattenSeq(q) = g[Len(q)] BY <1>3, <1>4, Zenon DEF SX!FlattenSeq
<1> QED BY <1>2, <1>5

\* The sequence s over S can be cut into the m pieces of q.
Pieces(S, s, q, m, cut) ==
    /\ s \in Seq(S) /\ m \in Nat
    /\ Len(q) = m /\ (m = 0 => q = << >>)
    /\ \A i \in 1 .. m : q[i] \in Seq(S)
    /\ cut \in [0 .. m -> Nat] /\ cut[0] = 0 /\ cut[m] = Len(s)
    /\ \A i \in 1 .. m : cut[i] = cut[i - 1] + Len(q[i]) /\ cut[i] <= Len(s)
    /\ \A i \in 1 .. m : \A d \in 1 .. Len(q[i]) : s[cut[i - 1] + d] = q[i][d]

\* Such a sequence is FlattenSeq(q): FlattenSeq and the prefixes that end at the
\* cuts agree at the first piece, and cannot begin to differ at a later one.
LEMMA FlattenIsWhole ==
    ASSUME NEW S, NEW s, NEW q, NEW m, NEW cut, Pieces(S, s, q, m, cut)
    PROVE  SX!FlattenSeq(q) = s
<1> USE DEF Pieces
<1>1. CASE m = 0
  <2>1. s = << >> BY <1>1
  <2>2. Len(q) = 0 BY <1>1
  <2>3. SX!FlattenSeq(q) = q BY <2>2, Zenon DEF SX!FlattenSeq
  <2> QED BY <1>1, <2>1, <2>3
<1>2. CASE m # 0
  <2> DEFINE F == [i \in 1 .. m |-> SubSeq(s, 1, cut[i])]
  <2>1. ASSUME NEW i \in 1 .. m PROVE SubSeq(s, 1, cut[i - 1]) \o q[i] = SubSeq(s, 1, cut[i])
    <3>1. PICK a : a = cut[i - 1] OBVIOUS
    <3>2. PICK p : p = q[i] OBVIOUS
    <3>3. a \in Nat /\ p \in Seq(S)
      <4>1. i - 1 \in 0 .. m OBVIOUS
      <4> QED BY <3>1, <3>2, <4>1
    <3>4. cut[i] = a + Len(p) /\ a + Len(p) <= Len(s) BY <3>1, <3>2
    <3>5. \A d \in 1 .. Len(p) : s[a + d] = p[d] BY <3>1, <3>2
    <3>6. SubSeq(s, 1, a) \o p = SubSeq(s, 1, a + Len(p))
      <4>1. ASSUME NEW a1 \in Nat, NEW p1 \in Seq(S), a1 + Len(p1) <= Len(s),
                   \A d \in 1 .. Len(p1) : s[a1 + d] = p1[d]
            PROVE  SubSeq(s, 1, a1) \o p1 = SubSeq(s, 1, a1 + Len(p1))
        BY ONLY <4>1, s \in Seq(S), OnePieceMore
      <4> QED BY <3>3, <3>4, <3>5, <4>1
    <3> QED BY <3>1, <3>2, <3>4, <3>6
  <2>2. SubSeq(s, 1, cut[1]) = q[1]
    <3>1. 1 \in 1 .. m /\ cut[1 - 1] = 0 BY <1>2
    <3>2. SubSeq(s, 1, 0) \o q[1] = SubSeq(s, 1, cut[1]) BY <2>1, <3>1
    <3>3. SubSeq(s, 1, 0) = << >> BY SubSeqEmpty
    <3>4. q[1] \in Seq(S) BY <3>1
    <3> QED BY <3>2, <3>3, <3>4, ConcatEmptySeq
  <2>3. F = [i \in 1 .. m |-> IF i = 1 THEN q[i] ELSE F[i - 1] \o q[i]]
    <3>1. ASSUME NEW i \in 1 .. m PROVE F[i] = IF i = 1 THEN q[i] ELSE F[i - 1] \o q[i]
      <4>1. CASE i = 1 BY <2>2, <4>1
      <4>2. CASE i # 1
        <5>1. i - 1 \in 1 .. m BY <4>2
        <5>2. F[i - 1] = SubSeq(s, 1, cut[i - 1]) BY <5>1
        <5> QED BY <2>1, <4>2, <5>2
      <4> QED BY <4>1, <4>2
    <3> QED BY <3>1
  <2> HIDE DEF F
  <2>4. PICK g : /\ g = [i \in 1 .. m |-> IF i = 1 THEN q[i] ELSE g[i - 1] \o q[i]]
                 /\ SX!FlattenSeq(q) = g[m]
    <3>1. m \in Nat \ {0} BY <1>2
    <3>2. \E f : f = [i \in 1 .. m |-> IF i = 1 THEN q[i] ELSE f[i - 1] \o q[i]] BY <2>3, Zenon
    <3> QED BY <3>1, <3>2, FlattenUnfolds
  <2>5. \A i \in 1 .. m : g[i] = F[i]
    <3> DEFINE D == {i \in 1 .. m : g[i] # F[i]}
    <3>1. SUFFICES ASSUME D # {} PROVE FALSE OBVIOUS
    <3>2. D \in SUBSET Nat OBVIOUS
    <3>3. PICK x \in D : \A y \in D : x <= y
      <4> HIDE DEF D
      <4> QED BY <3>1, <3>2, LeastNumber
    <3>4. x \in 1 .. m /\ g[x] # F[x] OBVIOUS
    <3>5. /\ g[x] = IF x = 1 THEN q[x] ELSE g[x - 1] \o q[x]
          /\ F[x] = IF x = 1 THEN q[x] ELSE F[x - 1] \o q[x]
      BY <2>3, <2>4, <3>4, Zenon
    <3>6. x # 1 /\ g[x - 1] # F[x - 1] BY <3>4, <3>5
    <3>7. x - 1 \in 1 .. m BY <3>4, <3>6
    <3>8. x - 1 \in D BY <3>6, <3>7
    <3>9. x <= x - 1 BY <3>3, <3>8
    <3> QED BY <3>4, <3>9
  <2>6. g[m] = F[m] BY <1>2, <2>5
  <2>7. F[m] = SubSeq(s, 1, Len(s)) BY <1>2 DEF F
  <2>8. F[m] = s BY <2>7, SubSeqFull
  <2> QED BY <2>4, <2>6, <2>8
<1> QED BY <1>1, <1>2

-----------------------------------------------------------------------------
\* A line, and its length.
LEMMA LineFacts ==
    ASSUME NEW ls \in Seq(LineType), NEW k \in 1 .. Len(ls)
    PROVE  ls[k].len \in Nat \ {0} /\ ls[k].stop \in BOOLEAN
<1>1. PICK l : l = ls[k] OBVIOUS
<1>2. l \in LineType
  <2>1. ASSUME NEW T, NEW x \in Seq(T), NEW n \in 1 .. Len(x) PROVE x[n] \in T BY ElementOfSeq
  <2> QED BY <1>1, <2>1
<1>3. l.len \in Nat \ {0} /\ l.stop \in BOOLEAN BY <1>2 DEF LineType
<1> QED BY <1>1, <1>3

\* The bytes of one line.
LEMMA LineBytes ==
    ASSUME NEW k \in Nat, NEW len \in Nat
    PROVE  /\ [j \in 1 .. len |-> <<k, j>>] \in Seq(Bytes)
           /\ Len([j \in 1 .. len |-> <<k, j>>]) = len
           /\ \A d \in 1 .. len : [j \in 1 .. len |-> <<k, j>>][d] = <<k, d>>
<1>1. PICK p : p = [j \in 1 .. len |-> <<k, j>>] OBVIOUS
<1>2. \A d \in 1 .. len : p[d] = <<k, d>> BY <1>1
<1>3. \A d \in 1 .. len : <<k, d>> \in Bytes BY DEF Bytes
<1>4. p \in [1 .. len -> Bytes] BY <1>1, <1>3
<1>5. p \in Seq(Bytes) /\ Len(p) = len
  <2>1. ASSUME NEW T, NEW x \in [1 .. len -> T] PROVE x \in Seq(T) /\ Len(x) = len OBVIOUS
  <2> QED BY <1>4, <2>1
<1> QED BY <1>1, <1>2, <1>5

\* A stream that can be cut into the unhandled lines is these lines.
LEMMA CutIsFlat ==
    ASSUME NEW s \in Seq(Bytes), NEW ls \in Seq(LineType), NEW h \in Nat, IsCut(s, ls, h)
    PROVE  s = SX!FlattenSeq([i \in 1 .. Len(ls) - h |-> [j \in 1 .. ls[h + i].len |-> <<h + i, j>>]])
<1>1. PICK m \in Nat : Len(ls) = h + m /\ \E cut : CutBy(cut, s, ls, h, m) BY DEF IsCut
<1>2. PICK cut : CutBy(cut, s, ls, h, m) BY <1>1
<1>3. Len(ls) - h = m BY <1>1
<1>4. PICK q : q = [i \in 1 .. m |-> [j \in 1 .. ls[h + i].len |-> <<h + i, j>>]] OBVIOUS
<1>5. ASSUME NEW i \in 1 .. m
      PROVE  /\ q[i] \in Seq(Bytes) /\ Len(q[i]) = ls[h + i].len
             /\ \A d \in 1 .. ls[h + i].len : q[i][d] = <<h + i, d>>
  <2>1. PICK k : k = h + i OBVIOUS
  <2>2. PICK len : len = ls[k].len OBVIOUS
  <2>3. k \in Nat /\ k \in 1 .. Len(ls) BY <1>1, <2>1
  <2>4. len \in Nat BY <2>2, <2>3, LineFacts
  <2>5. q[i] = [j \in 1 .. len |-> <<k, j>>] BY <1>4, <2>1, <2>2
  <2>6. /\ [j \in 1 .. len |-> <<k, j>>] \in Seq(Bytes)
        /\ Len([j \in 1 .. len |-> <<k, j>>]) = len
        /\ \A d \in 1 .. len : [j \in 1 .. len |-> <<k, j>>][d] = <<k, d>>
    BY <2>3, <2>4, LineBytes
  <2> QED BY <2>1, <2>2, <2>5, <2>6
<1>6. Len(q) = m /\ (m = 0 => q = << >>)
  <2>1. q \in [1 .. m -> Seq(Bytes)] BY <1>4, <1>5
  <2>2. ASSUME NEW T, NEW x \in [1 .. m -> T] PROVE Len(x) = m /\ (m = 0 => x = << >>) OBVIOUS
  <2> QED BY <2>1, <2>2
<1>7. /\ cut \in [0 .. m -> Nat] /\ cut[0] = 0 /\ cut[m] = Len(s)
      /\ \A i \in 1 .. m : cut[i] = cut[i - 1] + ls[h + i].len
      /\ \A i \in 0 .. m : \A j \in 0 .. m : i <= j => cut[i] <= cut[j]
      /\ \A i \in 1 .. m : \A d \in 1 .. ls[h + i].len : s[cut[i - 1] + d] = <<h + i, d>>
  BY <1>2 DEF CutBy
<1>8. \A i \in 1 .. m : cut[i] = cut[i - 1] + Len(q[i]) /\ cut[i] <= Len(s)
  <2> TAKE i \in 1 .. m
  <2>1. cut[i] = cut[i - 1] + Len(q[i]) BY <1>5, <1>7
  <2>2. i \in 0 .. m /\ m \in 0 .. m /\ i <= m OBVIOUS
  <2>3. cut[i] <= Len(s) BY <1>7, <2>2
  <2> QED BY <2>1, <2>3
<1>9. \A i \in 1 .. m : \A d \in 1 .. Len(q[i]) : s[cut[i - 1] + d] = q[i][d]
  <2> TAKE i \in 1 .. m
  <2>1. Len(q[i]) = ls[h + i].len BY <1>5
  <2>2. \A d \in 1 .. ls[h + i].len : q[i][d] = <<h + i, d>> BY <1>5
  <2>3. \A d \in 1 .. ls[h + i].len : s[cut[i - 1] + d] = <<h + i, d>> BY <1>7
  <2> QED BY <2>1, <2>2, <2>3
<1>10. Pieces(Bytes, s, q, m, cut)
  <2>1. \A i \in 1 .. m : q[i] \in Seq(Bytes) BY <1>5
  <2>2. cut \in [0 .. m -> Nat] /\ cut[0] = 0 /\ cut[m] = Len(s) BY <1>7
  <2> QED BY <1>6, <1>8, <1>9, <2>1, <2>2 DEF Pieces
<1>11. SX!FlattenSeq(q) = s BY <1>10, FlattenIsWhole
<1> QED BY <1>3, <1>4, <1>11

\* A line sent is one piece more at the end.
LEMMA CutSend ==
    ASSUME NEW s \in Seq(Bytes), NEW ls \in Seq(LineType), NEW h \in Nat, IsCut(s, ls, h),
           NEW l \in LineType
    PROVE  /\ IsCut(s \o [j \in 1 .. l.len |-> <<Len(ls) + 1, j>>], Append(ls, l), h)
           /\ s \o [j \in 1 .. l.len |-> <<Len(ls) + 1, j>>] \in Seq(Bytes)
           /\ Append(ls, l) \in Seq(LineType)
<1>1. PICK m \in Nat : Len(ls) = h + m /\ \E cut : CutBy(cut, s, ls, h, m) BY DEF IsCut
<1>2. PICK cut : CutBy(cut, s, ls, h, m) BY <1>1
<1>3. /\ cut \in [0 .. m -> Nat] /\ cut[0] = 0 /\ cut[m] = Len(s)
      /\ \A i \in 1 .. m : cut[i] = cut[i - 1] + ls[h + i].len
      /\ \A i \in 0 .. m : \A j \in 0 .. m : i <= j => cut[i] <= cut[j]
      /\ \A i \in 1 .. m : \A d \in 1 .. ls[h + i].len : s[cut[i - 1] + d] = <<h + i, d>>
  BY <1>2 DEF CutBy
<1>4. PICK n : n = Len(s) OBVIOUS
<1>5. PICK len : len = l.len OBVIOUS
<1>6. n \in Nat /\ len \in Nat /\ cut[m] = n BY <1>3, <1>4, <1>5 DEF LineType
<1>7. PICK p : p = [j \in 1 .. len |-> <<h + m + 1, j>>] OBVIOUS
<1>8. p \in Seq(Bytes) /\ Len(p) = len /\ \A d \in 1 .. len : p[d] = <<h + m + 1, d>>
  <2>1. PICK k : k = h + m + 1 OBVIOUS
  <2>2. k \in Nat BY <2>1
  <2>3. p = [j \in 1 .. len |-> <<k, j>>] BY <1>7, <2>1
  <2>4. /\ [j \in 1 .. len |-> <<k, j>>] \in Seq(Bytes)
        /\ Len([j \in 1 .. len |-> <<k, j>>]) = len
        /\ \A d \in 1 .. len : [j \in 1 .. len |-> <<k, j>>][d] = <<k, d>>
    BY <1>6, <2>2, LineBytes
  <2> QED BY <2>1, <2>3, <2>4
<1>9. PICK t : t = s \o p OBVIOUS
<1>10. /\ t \in Seq(Bytes) /\ Len(t) = n + len
       /\ \A i \in 1 .. n + len : t[i] = IF i <= n THEN s[i] ELSE p[i - n]
  BY <1>4, <1>8, <1>9, ConcatProperties
<1>11. PICK ms : ms = Append(ls, l) OBVIOUS
<1>12. /\ ms \in Seq(LineType) /\ Len(ms) = h + m + 1
       /\ \A i \in 1 .. h + m : ms[i] = ls[i]
       /\ ms[h + m + 1] = l
  <2>1. ASSUME NEW T, NEW x \in Seq(T), NEW e \in T
        PROVE  /\ Append(x, e) \in Seq(T) /\ Len(Append(x, e)) = Len(x) + 1
               /\ \A i \in 1 .. Len(x) : Append(x, e)[i] = x[i]
               /\ Append(x, e)[Len(x) + 1] = e
    BY AppendProperties
  <2> QED BY <1>1, <1>11, <2>1
<1>13. PICK new : new = [i \in 0 .. m + 1 |-> IF i = m + 1 THEN n + len ELSE cut[i]] OBVIOUS
<1>14. new[m + 1] = n + len /\ \A i \in 0 .. m : new[i] = cut[i] BY <1>13
<1>15. ASSUME NEW i \in 1 .. m + 1
       PROVE  /\ new[i] = new[i - 1] + ms[h + i].len
              /\ \A d \in 1 .. ms[h + i].len : t[new[i - 1] + d] = <<h + i, d>>
  <2>1. CASE i = m + 1
    <3>1. ms[h + i].len = len BY <1>5, <1>12, <2>1
    <3>2. new[i] = n + len /\ new[i - 1] = n BY <1>6, <1>14, <2>1
    <3>3. ASSUME NEW d \in 1 .. len PROVE t[n + d] = <<h + i, d>>
      <4>1. n + d \in 1 .. n + len /\ ~(n + d <= n) /\ (n + d) - n = d BY <1>6
      <4>2. t[n + d] = p[d] BY <1>10, <4>1
      <4> QED BY <1>8, <2>1, <4>2
    <3> QED BY <3>1, <3>2, <3>3
  <2>2. CASE i # m + 1
    <3>1. i \in 1 .. m /\ h + i \in 1 .. h + m /\ i - 1 \in 0 .. m /\ i \in 0 .. m /\ m \in 0 .. m /\ i <= m
      BY <2>2
    <3>2. ms[h + i].len = ls[h + i].len BY <1>12, <3>1
    <3>3. cut[i] = cut[i - 1] + ls[h + i].len /\ cut[i] <= n /\ cut[i - 1] \in Nat /\ cut[i] \in Nat
      BY <1>3, <1>6, <3>1
    <3>4. PICK y : y = ls[h + i].len OBVIOUS
    <3>5. y \in Nat BY <1>1, <3>1, <3>4, LineFacts
    <3>6. ASSUME NEW d \in 1 .. y PROVE t[cut[i - 1] + d] = <<h + i, d>>
      <4>1. PICK a : a = cut[i - 1] OBVIOUS
      <4>2. a \in Nat /\ a + y <= n BY <3>3, <3>4, <4>1
      <4>3. a + d \in 1 .. n + len /\ a + d <= n BY <1>6, <3>5, <4>2
      <4>4. t[a + d] = s[a + d] BY <1>10, <4>3
      <4>5. s[a + d] = <<h + i, d>> BY <1>3, <3>1, <3>4, <4>1
      <4> QED BY <4>1, <4>4, <4>5
    <3>7. new[i] = cut[i] /\ new[i - 1] = cut[i - 1] BY <1>14, <3>1
    <3> QED BY <3>2, <3>3, <3>4, <3>6, <3>7
  <2> QED BY <2>1, <2>2
<1>16. \A i \in 0 .. m + 1 : \A j \in 0 .. m + 1 : i <= j => new[i] <= new[j]
  <2> TAKE i \in 0 .. m + 1
  <2> TAKE j \in 0 .. m + 1
  <2> HAVE i <= j
  <2>1. CASE j = m + 1
    <3>1. CASE i = m + 1 BY <1>6, <1>14, <2>1, <3>1
    <3>2. CASE i # m + 1
      <4>1. i \in 0 .. m /\ m \in 0 .. m /\ i <= m BY <3>2
      <4>2. cut[i] <= n /\ cut[i] \in Nat BY <1>3, <1>6, <4>1
      <4> QED BY <1>6, <1>14, <2>1, <4>1, <4>2
    <3> QED BY <3>1, <3>2
  <2>2. CASE j # m + 1
    <3>1. i \in 0 .. m /\ j \in 0 .. m BY <2>2
    <3> QED BY <1>3, <1>14, <3>1
  <2> QED BY <2>1, <2>2
<1>17. new \in [0 .. m + 1 -> Nat]
  <2>1. \A i \in 0 .. m + 1 : (IF i = m + 1 THEN n + len ELSE cut[i]) \in Nat BY <1>3, <1>6
  <2> QED BY <1>13, <2>1
<1>18. new[0] = 0 /\ new[m + 1] = Len(t) BY <1>3, <1>10, <1>14
<1>19. CutBy(new, t, ms, h, m + 1) BY <1>15, <1>16, <1>17, <1>18 DEF CutBy
<1>20. m + 1 \in Nat /\ Len(ms) = h + (m + 1) BY <1>12
<1>21. IsCut(t, ms, h) BY <1>19, <1>20 DEF IsCut
<1>22. t = s \o [j \in 1 .. l.len |-> <<Len(ls) + 1, j>>] BY <1>1, <1>5, <1>7, <1>9
<1> QED BY <1>10, <1>11, <1>12, <1>21, <1>22

\* A byte behind the first len of n.
LEMMA IndexBehind ==
    ASSUME NEW a \in Nat, NEW len \in Nat, NEW d \in Nat, NEW n \in Nat,
           len <= a, 1 <= d, a + d <= n
    PROVE  (a - len) + d \in 1 .. n - len /\ len + ((a - len) + d) = a + d
OBVIOUS

\* The first newline of a stream ends the first unhandled line; behind it are
\* the others.
LEMMA CutLine ==
    ASSUME NEW s \in Seq(Bytes), NEW ls \in Seq(LineType), NEW h \in Nat, IsCut(s, ls, h),
           NEW endl \in 1 .. Len(s), s[endl][2] = ls[s[endl][1]].len,
           \A i \in 1 .. Len(s) : i < endl => s[i][2] # ls[s[i][1]].len
    PROVE  /\ h < Len(ls) /\ s[endl][1] = h + 1
           /\ IsCut(SubSeq(s, endl + 1, Len(s)), ls, h + 1)
<1>1. PICK m \in Nat : Len(ls) = h + m /\ \E cut : CutBy(cut, s, ls, h, m) BY DEF IsCut
<1>2. PICK cut : CutBy(cut, s, ls, h, m) BY <1>1
<1>3. /\ cut \in [0 .. m -> Nat] /\ cut[0] = 0 /\ cut[m] = Len(s)
      /\ \A i \in 1 .. m : cut[i] = cut[i - 1] + ls[h + i].len
      /\ \A i \in 0 .. m : \A j \in 0 .. m : i <= j => cut[i] <= cut[j]
      /\ \A i \in 1 .. m : \A d \in 1 .. ls[h + i].len : s[cut[i - 1] + d] = <<h + i, d>>
  BY <1>2 DEF CutBy
<1>4. PICK n : n = Len(s) OBVIOUS
<1>5. n \in Nat /\ endl \in 1 .. n /\ cut[m] = n BY <1>3, <1>4
<1>6. m # 0 BY <1>3, <1>5
<1>7. PICK len : len = ls[h + 1].len OBVIOUS
<1>8. len \in Nat \ {0} /\ cut[1] = len /\ len <= n
  <2>1. h + 1 \in 1 .. Len(ls) /\ 1 \in 1 .. m /\ 1 \in 0 .. m /\ m \in 0 .. m /\ 1 <= m /\ 1 - 1 = 0
    BY <1>1, <1>6
  <2>2. len \in Nat \ {0} BY <1>7, <2>1, LineFacts
  <2>3. cut[1] = cut[1 - 1] + len BY <1>3, <1>7, <2>1
  <2>4. cut[1] <= n BY <1>3, <1>5, <2>1
  <2> QED BY <1>3, <2>1, <2>2, <2>3, <2>4
<1>9. \A d \in 1 .. len : s[d] = <<h + 1, d>>
  <2> TAKE d \in 1 .. len
  <2>1. 1 \in 1 .. m /\ 1 - 1 = 0 BY <1>6
  <2>2. s[cut[1 - 1] + d] = <<h + 1, d>> BY <1>3, <1>7, <2>1
  <2> QED BY <1>3, <1>8, <2>1, <2>2
<1>10. endl = len
  <2>1. ~(endl < len)
    <3>1. SUFFICES ASSUME endl < len PROVE FALSE OBVIOUS
    <3>2. endl \in 1 .. len BY <1>5, <1>8, <3>1
    <3>3. s[endl] = <<h + 1, endl>> BY <1>9, <3>2
    <3>4. s[endl][1] = h + 1 /\ s[endl][2] = endl BY <3>3
    <3>5. endl = len BY <1>7, <3>4
    <3> QED BY <1>5, <1>8, <3>1, <3>5
  <2>2. ~(len < endl)
    <3>1. SUFFICES ASSUME len < endl PROVE FALSE OBVIOUS
    <3>2. len \in 1 .. len /\ len \in 1 .. n BY <1>8
    <3>3. s[len] = <<h + 1, len>> BY <1>9, <3>2
    <3>4. s[len][1] = h + 1 /\ s[len][2] = len BY <3>3
    <3>5. s[len][2] # ls[s[len][1]].len BY <1>4, <3>1, <3>2
    <3> QED BY <1>7, <3>4, <3>5
  <2> QED BY <1>5, <1>8, <2>1, <2>2
<1>11. s[endl][1] = h + 1
  <2>1. s[len] = <<h + 1, len>> BY <1>8, <1>9
  <2> QED BY <1>10, <2>1
<1>12. PICK t : t = SubSeq(s, len + 1, n) OBVIOUS
<1>13. Len(t) = n - len /\ \A i \in 1 .. n - len : t[i] = s[len + i]
  <2>1. len + 1 \in Int /\ n \in Int BY <1>5, <1>8
  <2>2. \A i \in len + 1 .. n : s[i] \in Bytes
    <3> TAKE i \in len + 1 .. n
    <3>1. i \in 1 .. Len(s) BY <1>4, <1>5, <1>8
    <3> QED BY <3>1, ElementOfSeq
  <2>3. /\ Len(SubSeq(s, len + 1, n)) = IF len + 1 <= n THEN n - (len + 1) + 1 ELSE 0
        /\ \A i \in 1 .. n - (len + 1) + 1 : SubSeq(s, len + 1, n)[i] = s[(len + 1) + i - 1]
    BY <2>1, <2>2, SubSeqProperties
  <2>4. Len(t) = n - len BY <1>5, <1>8, <1>12, <2>3
  <2>5. ASSUME NEW i \in 1 .. n - len PROVE t[i] = s[len + i]
    <3>1. i \in 1 .. n - (len + 1) + 1 /\ (len + 1) + i - 1 = len + i BY <1>5, <1>8
    <3> QED BY <1>12, <2>3, <3>1
  <2> QED BY <2>4, <2>5
<1>14. PICK k : k = m - 1 OBVIOUS
<1>15. k \in Nat /\ m = k + 1 BY <1>6, <1>14
<1>16. PICK new : new = [i \in 0 .. k |-> cut[i + 1] - len] OBVIOUS
<1>17. \A i \in 0 .. k : /\ i + 1 \in 0 .. m /\ i + 1 \in 1 .. m
                         /\ new[i] = cut[i + 1] - len
                         /\ cut[i + 1] \in Nat /\ len <= cut[i + 1] /\ cut[i + 1] <= n
  <2> TAKE i \in 0 .. k
  <2>1. i + 1 \in 0 .. m /\ i + 1 \in 1 .. m /\ 1 \in 0 .. m /\ m \in 0 .. m /\ 1 <= i + 1 /\ i + 1 <= m
    BY <1>15
  <2>2. cut[1] <= cut[i + 1] /\ cut[i + 1] <= cut[m] /\ cut[i + 1] \in Nat BY <1>3, <2>1
  <2> QED BY <1>5, <1>8, <1>16, <2>1, <2>2
<1>18. new \in [0 .. k -> Nat]
  <2>1. \A i \in 0 .. k : cut[i + 1] - len \in Nat BY <1>8, <1>17
  <2> QED BY <1>16, <2>1
<1>19. new[0] = 0 /\ new[k] = Len(t)
  <2>1. 0 \in 0 .. k /\ k \in 0 .. k /\ 0 + 1 = 1 BY <1>15
  <2>2. new[0] = cut[1] - len BY <1>17, <2>1
  <2>3. new[k] = cut[m] - len BY <1>15, <1>17, <2>1
  <2> QED BY <1>5, <1>8, <1>13, <2>2, <2>3
<1>20. ASSUME NEW i \in 1 .. k
       PROVE  /\ new[i] = new[i - 1] + ls[(h + 1) + i].len
              /\ \A d \in 1 .. ls[(h + 1) + i].len : t[new[i - 1] + d] = <<(h + 1) + i, d>>
  <2>1. PICK j : j = i + 1 OBVIOUS
  <2>2. j \in 1 .. m /\ h + j = (h + 1) + i /\ j - 1 = i /\ i \in 0 .. k /\ i - 1 \in 0 .. k /\ (i - 1) + 1 = i
    BY <1>15, <2>1
  <2>3. PICK y : y = ls[h + j].len OBVIOUS
  <2>4. cut[j] = cut[j - 1] + y BY <1>3, <2>2, <2>3
  <2>5. y \in Nat
    <3>1. h + j \in 1 .. Len(ls) BY <1>1, <2>2
    <3> QED BY <2>3, <3>1, LineFacts
  <2>6. PICK a, b : a = cut[i] /\ b = cut[j] OBVIOUS
  <2>7. /\ new[i] = b - len /\ new[i - 1] = a - len
        /\ a \in Nat /\ b \in Nat /\ len <= a /\ b <= n /\ b = a + y
    <3>1. new[i] = cut[i + 1] - len /\ cut[i + 1] \in Nat /\ cut[i + 1] <= n BY <1>17, <2>2
    <3>2. new[i - 1] = cut[(i - 1) + 1] - len /\ cut[(i - 1) + 1] \in Nat /\ len <= cut[(i - 1) + 1]
      BY <1>17, <2>2
    <3> QED BY <2>1, <2>2, <2>4, <2>6, <3>1, <3>2
  <2>8. ASSUME NEW d \in 1 .. y PROVE t[(a - len) + d] = <<h + j, d>>
    <3>1. (a - len) + d \in 1 .. n - len /\ len + ((a - len) + d) = a + d
      <4>1. d \in Nat /\ 1 <= d /\ d <= y BY <2>5
      <4>2. n \in Nat /\ len \in Nat /\ a \in Nat BY <1>5, <1>8, <2>7
      <4>3. a + d <= n /\ len <= a
        <5>1. b = a + y /\ b <= n /\ len <= a BY <2>7
        <5> QED BY <2>5, <4>1, <4>2, <5>1
      <4> QED BY <4>1, <4>2, <4>3, IndexBehind
    <3>2. t[(a - len) + d] = s[a + d] BY <1>13, <3>1
    <3>3. s[cut[j - 1] + d] = <<h + j, d>> BY <1>3, <2>2, <2>3
    <3> QED BY <2>2, <2>6, <3>2, <3>3
  <2>9. new[i] = new[i - 1] + y BY <1>8, <2>5, <2>7
  <2> QED BY <2>2, <2>3, <2>7, <2>8, <2>9
<1>21. \A i \in 0 .. k : \A j \in 0 .. k : i <= j => new[i] <= new[j]
  <2> TAKE i \in 0 .. k
  <2> TAKE j \in 0 .. k
  <2> HAVE i <= j
  <2>1. i + 1 <= j + 1 BY <1>15
  <2>2. /\ i + 1 \in 0 .. m /\ j + 1 \in 0 .. m
        /\ new[i] = cut[i + 1] - len /\ new[j] = cut[j + 1] - len
        /\ cut[i + 1] \in Nat /\ cut[j + 1] \in Nat
    BY <1>17
  <2>3. cut[i + 1] <= cut[j + 1] BY <1>3, <2>1, <2>2
  <2> QED BY <1>8, <2>2, <2>3
<1>22. CutBy(new, t, ls, h + 1, k) BY <1>18, <1>19, <1>20, <1>21 DEF CutBy
<1>23. Len(ls) = (h + 1) + k /\ h < Len(ls) BY <1>1, <1>15
<1>24. IsCut(t, ls, h + 1) BY <1>15, <1>22, <1>23 DEF IsCut
<1> QED BY <1>4, <1>10, <1>11, <1>12, <1>23, <1>24

-----------------------------------------------------------------------------
\* Two sequences of known lengths, one behind the other.
LEMMA TwoPieces ==
    ASSUME NEW S, NEW x \in Seq(S), NEW y \in Seq(S), NEW a, NEW b, Len(x) = a, Len(y) = b
    PROVE  /\ x \o y \in Seq(S) /\ Len(x \o y) = a + b
           /\ \A i \in 1 .. a + b : (x \o y)[i] = IF i <= a THEN x[i] ELSE y[i - a]
BY ConcatProperties

\* The first n elements of a sequence, and the others.
LEMMA Front ==
    ASSUME NEW S, NEW u \in Seq(S), NEW n \in Nat, n <= Len(u)
    PROVE  /\ SubSeq(u, 1, n) \in Seq(S) /\ Len(SubSeq(u, 1, n)) = n
           /\ \A i \in 1 .. n : SubSeq(u, 1, n)[i] = u[i]
           /\ SubSeq(u, n + 1, Len(u)) \in Seq(S) /\ Len(SubSeq(u, n + 1, Len(u))) = Len(u) - n
           /\ \A i \in 1 .. Len(u) - n : SubSeq(u, n + 1, Len(u))[i] = u[n + i]
<1>1. PICK l : l = Len(u) OBVIOUS
<1>2. l \in Nat /\ n <= l /\ n \in Int /\ l \in Int /\ n + 1 \in Int BY <1>1
<1>3. \A i \in 1 .. l : u[i] \in S BY <1>1
<1>4. \A i \in 1 .. n : u[i] \in S BY <1>2, <1>3
<1>5. \A i \in n + 1 .. l : u[i] \in S BY <1>2, <1>3
<1>6. /\ SubSeq(u, 1, n) \in Seq(S)
      /\ Len(SubSeq(u, 1, n)) = IF 1 <= n THEN n - 1 + 1 ELSE 0
      /\ \A i \in 1 .. n - 1 + 1 : SubSeq(u, 1, n)[i] = u[1 + i - 1]
  BY <1>2, <1>4, SubSeqProperties
<1>7. /\ SubSeq(u, n + 1, l) \in Seq(S)
      /\ Len(SubSeq(u, n + 1, l)) = IF n + 1 <= l THEN l - (n + 1) + 1 ELSE 0
      /\ \A i \in 1 .. l - (n + 1) + 1 : SubSeq(u, n + 1, l)[i] = u[(n + 1) + i - 1]
  BY <1>2, <1>5, SubSeqProperties
<1>8. ASSUME NEW i \in 1 .. n PROVE SubSeq(u, 1, n)[i] = u[i]
  <2>1. i \in 1 .. n - 1 + 1 /\ 1 + i - 1 = i OBVIOUS
  <2> QED BY <1>6, <2>1
<1>9. ASSUME NEW i \in 1 .. l - n PROVE SubSeq(u, n + 1, l)[i] = u[n + i]
  <2>1. i \in 1 .. l - (n + 1) + 1 /\ (n + 1) + i - 1 = n + i BY <1>2
  <2> QED BY <1>7, <2>1
<1>10. Len(SubSeq(u, 1, n)) = n BY <1>6
<1>11. Len(SubSeq(u, n + 1, l)) = l - n BY <1>2, <1>7
<1> QED BY <1>1, <1>6, <1>7, <1>8, <1>9, <1>10, <1>11

\* n bytes of u are read into a buffer that holds r.
Read(r, u, n, buf, rest) ==
    buf = r \o SubSeq(u, 1, n) /\ rest = SubSeq(u, n + 1, Len(u))

\* A read moves bytes from the socket to the buffer; the stream stays.
LEMMA ReadKeepsStream ==
    ASSUME NEW r \in Seq(Bytes), NEW u \in Seq(Bytes), NEW n \in Nat, n <= Len(u),
           NEW buf, NEW rest, Read(r, u, n, buf, rest)
    PROVE  /\ buf \in Seq(Bytes) /\ Len(buf) = Len(r) + n
           /\ rest \in Seq(Bytes) /\ Len(rest) = Len(u) - n
           /\ buf \o rest = r \o u
<1>0. buf = r \o SubSeq(u, 1, n) /\ rest = SubSeq(u, n + 1, Len(u)) BY DEF Read
<1>1. PICK x : x = SubSeq(u, 1, n) OBVIOUS
<1>2. /\ x \in Seq(Bytes) /\ Len(x) = n /\ \A i \in 1 .. n : x[i] = u[i]
      /\ rest \in Seq(Bytes) /\ Len(rest) = Len(u) - n
      /\ \A i \in 1 .. Len(u) - n : rest[i] = u[n + i]
  BY <1>0, <1>1, Front
<1>3. x \o rest = u
  <2>1. PICK l : l = Len(u) OBVIOUS
  <2>2. l \in Nat /\ n <= l BY <2>1
  <2>3. PICK z : z = x \o rest OBVIOUS
  <2>4. /\ z \in Seq(Bytes) /\ Len(z) = n + (l - n)
        /\ \A i \in 1 .. n + (l - n) : z[i] = IF i <= n THEN x[i] ELSE rest[i - n]
    <3>1. x \in Seq(Bytes) /\ rest \in Seq(Bytes) /\ Len(x) = n /\ Len(rest) = l - n BY <1>2, <2>1
    <3> QED BY <2>3, <3>1, TwoPieces
  <2>5. Len(z) = l BY <2>2, <2>4
  <2>6. ASSUME NEW i \in 1 .. l PROVE z[i] = u[i]
    <3>1. i \in 1 .. n + (l - n) BY <2>2
    <3>2. CASE i <= n
      <4>1. i \in 1 .. n BY <3>2
      <4> QED BY <1>2, <2>4, <3>1, <3>2, <4>1
    <3>3. CASE ~(i <= n)
      <4>1. i - n \in 1 .. l - n /\ n + (i - n) = i BY <2>2, <3>3
      <4>2. rest[i - n] = u[n + (i - n)] BY <1>2, <2>1, <4>1
      <4> QED BY <2>4, <3>1, <3>3, <4>1, <4>2
    <3> QED BY <3>2, <3>3
  <2>7. z = u BY <2>1, <2>4, <2>5, <2>6, SeqEqual
  <2> QED BY <2>3, <2>7
<1>4. buf = r \o x BY <1>0, <1>1
<1>5. buf \in Seq(Bytes) /\ Len(buf) = Len(r) + n
  <2>1. x \in Seq(Bytes) /\ Len(x) = n BY <1>2
  <2>2. r \o x \in Seq(Bytes) /\ Len(r \o x) = Len(r) + Len(x) BY <2>1, ConcatProperties
  <2> QED BY <1>4, <2>1, <2>2
<1>6. (r \o x) \o rest = r \o (x \o rest)
  <2>1. x \in Seq(Bytes) /\ rest \in Seq(Bytes) BY <1>2
  <2> QED BY <2>1, ConcatAssociative
<1> QED BY <1>2, <1>3, <1>4, <1>5, <1>6

\* The stream s is buf and rest; a line ends at e.
Behind(buf, rest, e, s) ==
    /\ buf \in Seq(Bytes) /\ rest \in Seq(Bytes)
    /\ e \in 1 .. Len(buf) /\ s = buf \o rest

\* What memmove leaves in the buffer, and the socket behind it.
LEMMA RestOfStream ==
    ASSUME NEW buf, NEW rest, NEW e, NEW s, Behind(buf, rest, e, s)
    PROVE  /\ SubSeq(buf, e + 1, Len(buf)) \in Seq(Bytes)
           /\ Len(SubSeq(buf, e + 1, Len(buf))) <= Len(buf)
           /\ SubSeq(buf, e + 1, Len(buf)) \o rest = SubSeq(s, e + 1, Len(s))
           /\ \A i \in 1 .. Len(buf) : s[i] = buf[i]
           /\ Len(s) = Len(buf) + Len(rest) /\ s \in Seq(Bytes)
<1> USE DEF Behind
<1>1. PICK b : b = Len(buf) OBVIOUS
<1>2. PICK l : l = Len(rest) OBVIOUS
<1>3. b \in Nat /\ l \in Nat /\ e \in 1 .. b BY <1>1, <1>2
<1>4. /\ s \in Seq(Bytes) /\ Len(s) = b + l
      /\ \A i \in 1 .. b + l : s[i] = IF i <= b THEN buf[i] ELSE rest[i - b]
  BY <1>1, <1>2, ConcatProperties
<1>5. PICK x : x = SubSeq(buf, e + 1, b) OBVIOUS
<1>6. x \in Seq(Bytes) /\ Len(x) = b - e /\ \A i \in 1 .. b - e : x[i] = buf[e + i]
  <2>1. e \in Nat /\ e <= b BY <1>3
  <2> QED BY <1>1, <1>5, <2>1, Front
<1>7. PICK y : y = SubSeq(s, e + 1, b + l) OBVIOUS
<1>8. y \in Seq(Bytes) /\ Len(y) = (b + l) - e /\ \A i \in 1 .. (b + l) - e : y[i] = s[e + i]
  <2>1. e \in Nat /\ e <= b + l BY <1>3
  <2> QED BY <1>4, <1>7, <2>1, Front
<1>9. PICK z : z = x \o rest OBVIOUS
<1>10. /\ z \in Seq(Bytes) /\ Len(z) = (b - e) + l
       /\ \A i \in 1 .. (b - e) + l : z[i] = IF i <= b - e THEN x[i] ELSE rest[i - (b - e)]
  <2>1. x \in Seq(Bytes) /\ rest \in Seq(Bytes) /\ Len(x) = b - e /\ Len(rest) = l BY <1>2, <1>6
  <2> QED BY <1>9, <2>1, TwoPieces
<1>11. Len(z) = Len(y) BY <1>3, <1>8, <1>10
<1>12. ASSUME NEW i \in 1 .. (b - e) + l PROVE z[i] = y[i]
  <2>1. i \in 1 .. (b + l) - e /\ e + i \in 1 .. b + l BY <1>3
  <2>2. y[i] = s[e + i] BY <1>8, <2>1
  <2>3. CASE i <= b - e
    <3>1. i \in 1 .. b - e /\ e + i <= b BY <1>3, <2>3
    <3>2. s[e + i] = buf[e + i] BY <1>4, <2>1, <3>1
    <3>3. z[i] = x[i] BY <1>10, <2>3
    <3>4. x[i] = buf[e + i] BY <1>6, <3>1
    <3> QED BY <2>2, <3>2, <3>3, <3>4
  <2>4. CASE ~(i <= b - e)
    <3>1. ~(e + i <= b) /\ (e + i) - b = i - (b - e) BY <1>3, <2>4
    <3>2. s[e + i] = rest[(e + i) - b] BY <1>4, <2>1, <3>1
    <3>3. z[i] = rest[i - (b - e)] BY <1>10, <2>4
    <3> QED BY <2>2, <3>1, <3>2, <3>3
  <2> QED BY <2>3, <2>4
<1>13. z = y BY <1>8, <1>10, <1>11, <1>12, SeqEqual
<1>14. \A i \in 1 .. b : s[i] = buf[i]
  <2> TAKE i \in 1 .. b
  <2>1. i \in 1 .. b + l /\ i <= b BY <1>3
  <2> QED BY <1>4, <2>1
<1>15. Len(x) <= b BY <1>3, <1>6
<1> QED BY <1>1, <1>2, <1>4, <1>5, <1>6, <1>7, <1>9, <1>13, <1>14, <1>15

\* A list without one of its elements.
LEMMA ListWithout ==
    ASSUME NEW S, NEW l \in Seq(S), NEW k \in 1 .. Len(l)
    PROVE  /\ SX!RemoveAt(l, k) \in Seq(S) /\ Len(SX!RemoveAt(l, k)) = Len(l) - 1
           /\ \A i \in 1 .. Len(l) - 1 : SX!RemoveAt(l, k)[i] = IF i < k THEN l[i] ELSE l[i + 1]
<1>1. PICK n : n = Len(l) OBVIOUS
<1>2. n \in Nat /\ k \in 1 .. n BY <1>1
<1>3. PICK x : x = SubSeq(l, 1, k - 1) OBVIOUS
<1>4. x \in Seq(S) /\ Len(x) = k - 1 /\ \A i \in 1 .. k - 1 : x[i] = l[i]
  <2>1. k - 1 \in Nat /\ k - 1 <= n BY <1>2
  <2> QED BY <1>1, <1>3, <2>1, Front
<1>5. PICK y : y = SubSeq(l, k + 1, n) OBVIOUS
<1>6. y \in Seq(S) /\ Len(y) = n - k /\ \A i \in 1 .. n - k : y[i] = l[k + i]
  <2>1. k \in Nat /\ k <= n BY <1>2
  <2> QED BY <1>1, <1>5, <2>1, Front
<1>7. PICK z : z = x \o y OBVIOUS
<1>8. /\ z \in Seq(S) /\ Len(z) = (k - 1) + (n - k)
      /\ \A i \in 1 .. (k - 1) + (n - k) : z[i] = IF i <= k - 1 THEN x[i] ELSE y[i - (k - 1)]
  BY <1>4, <1>6, <1>7, ConcatProperties
<1>9. z = SX!RemoveAt(l, k) BY <1>1, <1>3, <1>5, <1>7 DEF SX!RemoveAt
<1>10. Len(z) = n - 1 BY <1>2, <1>8
<1>11. ASSUME NEW i \in 1 .. n - 1 PROVE z[i] = IF i < k THEN l[i] ELSE l[i + 1]
  <2>1. i \in 1 .. (k - 1) + (n - k) BY <1>2
  <2>2. CASE i < k
    <3>1. i \in 1 .. k - 1 /\ i <= k - 1 BY <1>2, <2>2
    <3> QED BY <1>4, <1>8, <2>1, <2>2, <3>1
  <2>3. CASE ~(i < k)
    <3>1. ~(i <= k - 1) /\ i - (k - 1) \in 1 .. n - k /\ k + (i - (k - 1)) = i + 1 BY <1>2, <2>3
    <3>2. z[i] = y[i - (k - 1)] BY <1>8, <2>1, <3>1
    <3>3. y[i - (k - 1)] = l[k + (i - (k - 1))] BY <1>6, <3>1
    <3> QED BY <2>3, <3>1, <3>2, <3>3
  <2> QED BY <2>2, <2>3
<1> QED BY <1>1, <1>8, <1>9, <1>10, <1>11

-----------------------------------------------------------------------------
(* The state.                                                              *)
ServerType ==
    /\ srv \in {"select", "accept", "serve", "ended", "killed"}
    /\ exit_flag \in BOOLEAN
    /\ conns \in Seq(Clients) /\ todo \in Seq(Clients)
    /\ rfds \subseteq Clients \cup {Listener}

StreamType ==
    /\ request \in [Clients -> Seq(Bytes)] /\ up \in [Clients -> Seq(Bytes)]
    /\ lines \in [Clients -> Seq(LineType)] /\ handled \in [Clients -> Nat]
    /\ \A c \in Clients : Len(request[c]) <= BufSize

ClientStates == {"new", "connecting", "idle", "sent", "astray", "left"}

ClientType ==
    /\ client \in [Clients -> ClientStates]
    /\ down \in [Clients -> Seq({"text", "newline"})]

\* A list has no connection twice.
Distinct(l) == \A i \in 1 .. Len(l) : \A j \in 1 .. Len(l) : l[i] = l[j] => i = j

\* Only clients that were accepted are in the list, each once.
Listed ==
    /\ Distinct(conns) /\ Distinct(todo)
    /\ \A i \in 1 .. Len(conns) : client[conns[i]] \notin {"new", "connecting"}

\* What select has reported, and was not read since, is readable.
Reported ==
    /\ srv = "accept" => \A c \in Clients : c \in rfds => Readable(c)
    /\ srv = "serve" => \A i \in 1 .. Len(todo) : todo[i] \in rfds => Readable(todo[i])

TcpInv == ServerType /\ StreamType /\ ClientType /\ StreamCut /\ Listed /\ Reported

-----------------------------------------------------------------------------
\* A client's line goes into its stream.
LEMMA StreamSend ==
    ASSUME StreamType, StreamCut, NEW c \in Clients, NEW len \in Nat \ {0}, NEW stop \in BOOLEAN,
           Send(c, len, stop)
    PROVE  StreamType' /\ StreamCut'
<1>1. PICK l : l = [len |-> len, stop |-> stop] OBVIOUS
<1>2. l \in LineType /\ l.len = len BY <1>1 DEF LineType
<1>3. PICK r, u, ls, h : r = request[c] /\ u = up[c] /\ ls = lines[c] /\ h = handled[c] OBVIOUS
<1>4. r \in Seq(Bytes) /\ u \in Seq(Bytes) /\ ls \in Seq(LineType) /\ h \in Nat BY <1>3 DEF StreamType
<1>5. PICK p : p = [j \in 1 .. len |-> <<Len(ls) + 1, j>>] OBVIOUS
<1>6. /\ lines' = [lines EXCEPT ![c] = Append(ls, l)]
      /\ up' = [up EXCEPT ![c] = u \o p]
      /\ UNCHANGED <<request, handled>>
  BY <1>1, <1>3, <1>5 DEF Send
<1>7. IsCut(r \o u, ls, h) BY <1>3 DEF StreamCut
<1>8. r \o u \in Seq(Bytes) BY <1>4, ConcatProperties
<1>9. PICK s : s = r \o u OBVIOUS
<1>10. IsCut(s \o p, Append(ls, l), h) /\ Append(ls, l) \in Seq(LineType)
  <2>1. s \in Seq(Bytes) /\ IsCut(s, ls, h) BY <1>7, <1>8, <1>9
  <2>2. /\ IsCut(s \o [j \in 1 .. l.len |-> <<Len(ls) + 1, j>>], Append(ls, l), h)
        /\ Append(ls, l) \in Seq(LineType)
    BY <1>2, <1>4, <2>1, CutSend
  <2> QED BY <1>2, <1>5, <2>2
<1>11. p \in Seq(Bytes)
  <2>1. PICK k : k = Len(ls) + 1 OBVIOUS
  <2>2. k \in Nat /\ len \in Nat BY <1>4, <2>1
  <2>3. [j \in 1 .. len |-> <<k, j>>] \in Seq(Bytes) BY <2>2, LineBytes
  <2> QED BY <1>5, <2>1, <2>3
<1>12. s \o p = r \o (u \o p) BY <1>4, <1>9, <1>11, ConcatAssociative
<1>13. u \o p \in Seq(Bytes) BY <1>4, <1>11, ConcatProperties
<1>14. StreamType'
  <2>1. lines' \in [Clients -> Seq(LineType)] BY <1>6, <1>10 DEF StreamType
  <2>2. up' \in [Clients -> Seq(Bytes)] BY <1>6, <1>13 DEF StreamType
  <2> QED BY <1>6, <2>1, <2>2 DEF StreamType
<1>15. StreamCut'
  <2>1. ASSUME NEW e \in Clients PROVE IsCut(request[e] \o up'[e], lines'[e], handled[e])
    <3>1. CASE e = c
      <4>1. up'[c] = u \o p /\ lines'[c] = Append(ls, l) BY <1>6 DEF StreamType
      <4> QED BY <1>3, <1>10, <1>12, <3>1, <4>1
    <3>2. CASE e # c
      <4>1. up'[e] = up[e] /\ lines'[e] = lines[e] BY <1>6, <3>2 DEF StreamType
      <4> QED BY <4>1 DEF StreamCut
    <3> QED BY <3>1, <3>2
  <2> QED BY <1>6, <2>1 DEF StreamCut
<1> QED BY <1>14, <1>15

\* What the server reads goes into the buffer, a line it finds out of the stream.
LEMMA StreamServe ==
    ASSUME StreamType, StreamCut, exit_flag \in BOOLEAN, NEW c \in Clients, NEW n \in Nat, Serve(c, n)
    PROVE  StreamType' /\ StreamCut' /\ exit_flag' \in BOOLEAN
<1>1. PICK r, u, ls, h : r = request[c] /\ u = up[c] /\ ls = lines[c] /\ h = handled[c] OBVIOUS
<1>2. r \in Seq(Bytes) /\ u \in Seq(Bytes) /\ ls \in Seq(LineType) /\ h \in Nat /\ Len(r) <= BufSize
  BY <1>1 DEF StreamType
<1>3. PICK buf : buf = r \o SubSeq(u, 1, n) OBVIOUS
<1>4. PICK rest : rest = SubSeq(u, n + 1, Len(u)) OBVIOUS
<1>5. n <= BufSize - Len(r) /\ n <= Len(u) /\ up' = [up EXCEPT ![c] = rest] /\ UNCHANGED lines
  BY <1>1, <1>4 DEF Serve, Remainder
<1>6. Read(r, u, n, buf, rest) BY <1>3, <1>4 DEF Read
<1>7. /\ buf \in Seq(Bytes) /\ Len(buf) = Len(r) + n
      /\ rest \in Seq(Bytes) /\ Len(rest) = Len(u) - n
      /\ buf \o rest = r \o u
  BY <1>2, <1>5, <1>6, ReadKeepsStream
<1>8. Len(buf) <= BufSize
  <2>1. PICK k : k = Len(r) OBVIOUS
  <2>2. k \in Nat /\ BufSize \in Nat BY <1>2, <2>1, TcpAssumption
  <2> QED BY <1>5, <1>7, <2>1, <2>2
<1>9. IsCut(buf \o rest, ls, h) BY <1>1, <1>7 DEF StreamCut
<1>10. CASE /\ request' = [request EXCEPT ![c] = buf]
            /\ UNCHANGED <<handled, exit_flag>>
  <2>1. StreamType'
    <3>1. request' \in [Clients -> Seq(Bytes)] /\ up' \in [Clients -> Seq(Bytes)]
      BY <1>5, <1>7, <1>10 DEF StreamType
    <3>2. \A e \in Clients : Len(request'[e]) <= BufSize BY <1>8, <1>10 DEF StreamType
    <3> QED BY <1>5, <1>10, <3>1, <3>2 DEF StreamType
  <2>2. ASSUME NEW e \in Clients PROVE IsCut(request'[e] \o up'[e], lines[e], handled[e])
    <3>1. CASE e = c
      <4>1. request'[c] = buf /\ up'[c] = rest BY <1>5, <1>10 DEF StreamType
      <4> QED BY <1>1, <1>9, <3>1, <4>1
    <3>2. CASE e # c
      <4>1. request'[e] = request[e] /\ up'[e] = up[e] BY <1>5, <1>10, <3>2 DEF StreamType
      <4> QED BY <4>1 DEF StreamCut
    <3> QED BY <3>1, <3>2
  <2>3. StreamCut' BY <1>5, <1>10, <2>2 DEF StreamCut
  <2> QED BY <1>10, <2>1, <2>3
<1>11. CASE \E endl \in 1 .. Len(buf) :
               /\ IsNewline(c, buf[endl])
               /\ \A i \in 1 .. Len(buf) : IsNewline(c, buf[i]) => endl <= i
               /\ request' = [request EXCEPT ![c] = Rest(buf, endl)]
               /\ handled' = [handled EXCEPT ![c] = @ + 1]
               /\ exit_flag' = Reciever(lines[c][buf[endl][1]].stop)
  <2>1. PICK endl \in 1 .. Len(buf) :
               /\ IsNewline(c, buf[endl])
               /\ \A i \in 1 .. Len(buf) : IsNewline(c, buf[i]) => endl <= i
               /\ request' = [request EXCEPT ![c] = Rest(buf, endl)]
               /\ handled' = [handled EXCEPT ![c] = @ + 1]
               /\ exit_flag' = Reciever(lines[c][buf[endl][1]].stop)
    BY <1>11
  <2>2. PICK s : s = buf \o rest OBVIOUS
  <2>3. PICK x : x = SubSeq(buf, endl + 1, Len(buf)) OBVIOUS
  <2>4. /\ x \in Seq(Bytes) /\ Len(x) <= Len(buf)
        /\ x \o rest = SubSeq(s, endl + 1, Len(s))
        /\ \A i \in 1 .. Len(buf) : s[i] = buf[i]
        /\ Len(s) = Len(buf) + Len(rest) /\ s \in Seq(Bytes)
    <3>1. Behind(buf, rest, endl, s) BY <1>7, <2>1, <2>2 DEF Behind
    <3>2. /\ SubSeq(buf, endl + 1, Len(buf)) \in Seq(Bytes)
          /\ Len(SubSeq(buf, endl + 1, Len(buf))) <= Len(buf)
          /\ SubSeq(buf, endl + 1, Len(buf)) \o rest = SubSeq(s, endl + 1, Len(s))
          /\ \A i \in 1 .. Len(buf) : s[i] = buf[i]
          /\ Len(s) = Len(buf) + Len(rest) /\ s \in Seq(Bytes)
      BY <3>1, RestOfStream, Zenon
    <3> QED BY <2>3, <3>2
  <2>5. endl \in 1 .. Len(s)
    <3>1. PICK b, k : b = Len(buf) /\ k = Len(rest) OBVIOUS
    <3>2. b \in Nat /\ k \in Nat BY <1>7, <3>1
    <3> QED BY <2>4, <3>1, <3>2
  <2>6. s[endl][2] = ls[s[endl][1]].len
    <3>1. s[endl] = buf[endl] BY <2>4
    <3> QED BY <1>1, <2>1, <3>1 DEF IsNewline
  <2>7. ASSUME NEW i \in 1 .. Len(s), i < endl PROVE s[i][2] # ls[s[i][1]].len
    <3>1. i \in 1 .. Len(buf) BY <1>7, <2>7
    <3>2. ~(endl <= i) BY <2>7, <3>1
    <3>3. ~IsNewline(c, buf[i]) BY <2>1, <3>1, <3>2
    <3>4. s[i] = buf[i] BY <2>4, <3>1
    <3> QED BY <1>1, <3>3, <3>4 DEF IsNewline
  <2>8. IsCut(s, ls, h) /\ s \in Seq(Bytes) BY <1>9, <2>2, <2>4
  <2>9. /\ h < Len(ls) /\ s[endl][1] = h + 1
        /\ IsCut(SubSeq(s, endl + 1, Len(s)), ls, h + 1)
    BY <1>2, <2>5, <2>6, <2>7, <2>8, CutLine
  <2>10. request' = [request EXCEPT ![c] = x] BY <2>1, <2>3 DEF Rest
  <2>11. Len(x) <= BufSize
    <3>1. PICK b, k : b = Len(buf) /\ k = Len(x) OBVIOUS
    <3>2. b \in Nat /\ k \in Nat /\ BufSize \in Nat BY <1>7, <2>4, <3>1, TcpAssumption
    <3> QED BY <1>8, <2>4, <3>1, <3>2
  <2>12. StreamType'
    <3>1. request' \in [Clients -> Seq(Bytes)] /\ up' \in [Clients -> Seq(Bytes)]
      BY <1>5, <1>7, <2>4, <2>10 DEF StreamType
    <3>2. \A e \in Clients : Len(request'[e]) <= BufSize BY <2>10, <2>11 DEF StreamType
    <3>3. handled' \in [Clients -> Nat] BY <2>1 DEF StreamType
    <3> QED BY <1>5, <3>1, <3>2, <3>3 DEF StreamType
  <2>13. ASSUME NEW e \in Clients PROVE IsCut(request'[e] \o up'[e], lines[e], handled'[e])
    <3>1. CASE e = c
      <4>1. request'[c] = x /\ up'[c] = rest /\ handled'[c] = h + 1
        BY <1>1, <1>5, <2>1, <2>10 DEF StreamType
      <4> QED BY <1>1, <2>4, <2>9, <3>1, <4>1
    <3>2. CASE e # c
      <4>1. request'[e] = request[e] /\ up'[e] = up[e] /\ handled'[e] = handled[e]
        BY <1>5, <2>1, <2>10, <3>2 DEF StreamType
      <4> QED BY <4>1 DEF StreamCut
    <3> QED BY <3>1, <3>2
  <2>14. StreamCut' BY <1>5, <2>13 DEF StreamCut
  <2>15. exit_flag' \in BOOLEAN
    <3>1. buf[endl][1] = h + 1 BY <2>4, <2>9
    <3>2. h + 1 \in 1 .. Len(ls)
      <4>1. PICK k : k = Len(ls) OBVIOUS
      <4>2. k \in Nat BY <1>2, <4>1
      <4> QED BY <1>2, <2>9, <4>1, <4>2
    <3>3. ls[h + 1].stop \in BOOLEAN BY <1>2, <3>2, LineFacts
    <3> QED BY <1>1, <2>1, <3>1, <3>3 DEF Reciever
  <2> QED BY <2>12, <2>14, <2>15
<1>12. \/ /\ request' = [request EXCEPT ![c] = buf]
          /\ UNCHANGED <<handled, exit_flag>>
       \/ \E endl \in 1 .. Len(buf) :
               /\ IsNewline(c, buf[endl])
               /\ \A i \in 1 .. Len(buf) : IsNewline(c, buf[i]) => endl <= i
               /\ request' = [request EXCEPT ![c] = Rest(buf, endl)]
               /\ handled' = [handled EXCEPT ![c] = @ + 1]
               /\ exit_flag' = Reciever(lines[c][buf[endl][1]].stop)
  BY <1>1, <1>3 DEF Serve
<1> QED BY <1>10, <1>11, <1>12

\* Every other step leaves the streams alone.
LEMMA StreamStep ==
    ASSUME ServerType, StreamType, StreamCut, [Next]_vars
    PROVE  StreamType' /\ StreamCut' /\ exit_flag' \in BOOLEAN
<1>1. exit_flag \in BOOLEAN BY DEF ServerType
<1>2. ASSUME UNCHANGED <<request, handled, lines, up>>, UNCHANGED exit_flag
      PROVE  StreamType' /\ StreamCut' /\ exit_flag' \in BOOLEAN
  BY <1>1, <1>2 DEF StreamType, StreamCut
<1>3. ASSUME NEW c \in Clients, NEW len \in Nat \ {0}, NEW stop \in BOOLEAN, Send(c, len, stop)
      PROVE  StreamType' /\ StreamCut' /\ exit_flag' \in BOOLEAN
  <2>1. exit_flag' = exit_flag BY <1>3 DEF Send, serverVars
  <2> QED BY <1>1, <1>3, <2>1, StreamSend
<1>4. ASSUME NEW c \in Clients, NEW n \in 1 .. BufSize, Serve(c, n)
      PROVE  StreamType' /\ StreamCut' /\ exit_flag' \in BOOLEAN
  <2>1. n \in Nat BY TcpAssumption
  <2> QED BY <1>1, <1>4, <2>1, StreamServe
<1>5. CASE Select \/ Accept \/ Skip \/ EndOfRound \/ server_destroy \/ Killed
  BY <1>2, <1>5 DEF Select, Accept, Skip, EndOfRound, server_destroy, Killed
<1>6. ASSUME NEW c \in Clients, Delete(c) \/ Connect(c) \/ tcp_client_process(c) \/ Leave(c)
      PROVE  StreamType' /\ StreamCut' /\ exit_flag' \in BOOLEAN
  BY <1>2, <1>6 DEF Delete, Connect, tcp_client_process, ReadReply, ReadEnd, Leave, serverVars
<1>7. CASE UNCHANGED vars BY <1>2, <1>7 DEF vars, serverVars
<1>8. Lengths \subseteq Nat \ {0} /\ LongLengths \subseteq Nat \ {0} /\ Patient \subseteq Clients
      /\ Impatient \subseteq Clients
  BY TcpAssumption DEF Patient
<1> QED BY <1>3, <1>4, <1>5, <1>6, <1>7, <1>8 DEF Next, tcp_server_process

-----------------------------------------------------------------------------
\* What a step may do to the state of a client: one that was accepted is not
\* waiting again, one that has left stays away.
LEMMA ClientMoves ==
    ASSUME ClientType, [Next]_vars
    PROVE  /\ client' \in [Clients -> ClientStates]
           /\ \A c \in Clients : /\ client[c] \notin {"new", "connecting"}
                                   => client'[c] \notin {"new", "connecting"}
                                 /\ client[c] = "left" => client'[c] = "left"
<1>0. client \in [Clients -> ClientStates] BY DEF ClientType
<1> DEFINE Fine == /\ client' \in [Clients -> ClientStates]
                   /\ \A c \in Clients : /\ client[c] \notin {"new", "connecting"}
                                           => client'[c] \notin {"new", "connecting"}
                                         /\ client[c] = "left" => client'[c] = "left"
<1>1. ASSUME NEW c \in Clients, NEW e \in ClientStates, client' = [client EXCEPT ![c] = e],
             client[c] # "left", e \in {"new", "connecting"} => client[c] = "new"
      PROVE  Fine
  <2>1. client' \in [Clients -> ClientStates] BY <1>0, <1>1
  <2>2. \A d \in Clients : client'[d] = IF d = c THEN e ELSE client[d] BY <1>0, <1>1
  <2> QED BY <1>1, <2>1, <2>2
<1>2. ASSUME client' = client PROVE Fine BY <1>0, <1>2
<1>3. ASSUME NEW c \in Clients, Connect(c) PROVE Fine
  <2>1. client' = [client EXCEPT ![c] = "connecting"] /\ client[c] = "new" BY <1>3 DEF Connect
  <2>2. "connecting" \in ClientStates BY DEF ClientStates
  <2> QED BY <1>1, <2>1, <2>2
<1>4. ASSUME NEW c \in Clients, tcp_client_process(c) PROVE Fine
  <2>1. client[c] = "sent" BY <1>4 DEF tcp_client_process, ReadReply, ReadEnd
  <2>2. \E e \in {"idle", "astray", "left"} : client' = [client EXCEPT ![c] = e]
    BY <1>4 DEF tcp_client_process, ReadReply, ReadEnd
  <2>3. {"idle", "astray", "left"} \subseteq ClientStates BY DEF ClientStates
  <2> QED BY <1>1, <2>1, <2>2, <2>3
<1>5. ASSUME NEW c \in Clients, NEW len, NEW stop, Send(c, len, stop) PROVE Fine
  <2>1. client[c] = "idle" /\ \E e \in {"idle", "sent"} : client' = [client EXCEPT ![c] = e]
    BY <1>5 DEF Send
  <2>2. {"idle", "sent"} \subseteq ClientStates BY DEF ClientStates
  <2> QED BY <1>1, <2>1, <2>2
<1>6. ASSUME NEW c \in Clients, Leave(c) PROVE Fine
  <2>1. client' = [client EXCEPT ![c] = "left"] /\ client[c] = "idle" BY <1>6 DEF Leave
  <2>2. "left" \in ClientStates BY DEF ClientStates
  <2> QED BY <1>1, <2>1, <2>2
<1>7. ASSUME Accept PROVE Fine
  <2>1. CASE client' = client BY <1>2, <2>1
  <2>2. CASE \E c \in Waiting : client' = [client EXCEPT ![c] = "idle"]
    <3>1. PICK c \in Waiting : client' = [client EXCEPT ![c] = "idle"] BY <2>2
    <3>2. c \in Clients /\ client[c] = "connecting" BY DEF Waiting
    <3>3. "idle" \in ClientStates BY DEF ClientStates
    <3> QED BY <1>1, <3>1, <3>2, <3>3
  <2> QED BY <1>7, <2>1, <2>2 DEF Accept
<1>8. ASSUME server_destroy PROVE Fine
  <2>1. client' = [c \in Clients |-> IF c \in Waiting THEN "left" ELSE client[c]] BY <1>8 DEF server_destroy
  <2>2. "left" \in ClientStates BY DEF ClientStates
  <2>3. client' \in [Clients -> ClientStates] BY <1>0, <2>1, <2>2
  <2>4. \A c \in Clients : client'[c] = IF c \in Waiting THEN "left" ELSE client[c] BY <2>1
  <2> QED BY <2>3, <2>4
<1>9. CASE Select \/ Skip \/ EndOfRound \/ Killed \/ UNCHANGED vars
  BY <1>2, <1>9 DEF Select, Skip, EndOfRound, Killed, vars
<1>10. ASSUME NEW c \in Clients, NEW n, Delete(c) \/ Serve(c, n) PROVE Fine
  BY <1>2, <1>10 DEF Delete, Serve
<1>11. Patient \subseteq Clients /\ Impatient \subseteq Clients BY TcpAssumption DEF Patient
<1>12. Fine
  BY <1>3, <1>4, <1>5, <1>6, <1>7, <1>8, <1>9, <1>10, <1>11 DEF Next, tcp_server_process
<1> QED BY <1>12

\* The replies are texts and newlines.
LEMMA ReplyStep ==
    ASSUME ClientType, [Next]_vars
    PROVE  down' \in [Clients -> Seq({"text", "newline"})]
<1>0. PICK P : P = {"text", "newline"} OBVIOUS
<1>1. down \in [Clients -> Seq(P)] /\ "text" \in P /\ "newline" \in P BY <1>0 DEF ClientType
<1>2. ASSUME NEW c \in Clients, NEW y \in Seq(P), down' = [down EXCEPT ![c] = y]
      PROVE  down' \in [Clients -> Seq(P)]
  BY <1>1, <1>2
<1>3. << >> \in Seq(P) OBVIOUS
<1>4. ASSUME NEW c \in Clients, NEW n, Serve(c, n) PROVE down' \in [Clients -> Seq(P)]
  <2>1. <<"text">> \in Seq(P) /\ <<"text", "newline">> \in Seq(P) BY <1>1
  <2>2. down[c] \o <<"text", "newline">> \in Seq(P) BY <1>1, <2>1, ConcatProperties
  <2>3. \/ down' = down
        \/ \E y \in {<<"text">>, down[c] \o <<"text", "newline">>} : down' = [down EXCEPT ![c] = y]
    BY <1>4 DEF Serve
  <2> QED BY <1>1, <1>2, <2>1, <2>2, <2>3
<1>5. ASSUME NEW c \in Clients, tcp_client_process(c) PROVE down' \in [Clients -> Seq(P)]
  <2>1. \/ down' = down
        \/ \E n \in 1 .. Len(down[c]) : down' = [down EXCEPT ![c] = SubSeq(down[c], n + 1, Len(down[c]))]
    BY <1>5 DEF tcp_client_process, ReadReply, ReadEnd
  <2>2. ASSUME NEW n \in 1 .. Len(down[c]) PROVE SubSeq(down[c], n + 1, Len(down[c])) \in Seq(P)
    <3>1. PICK y : y = down[c] OBVIOUS
    <3>2. y \in Seq(P) /\ n \in Nat /\ n <= Len(y) BY <1>1, <3>1
    <3> QED BY <3>1, <3>2, Front
  <2> QED BY <1>1, <1>2, <2>1, <2>2
<1>6. ASSUME NEW c \in Clients, Leave(c) PROVE down' \in [Clients -> Seq(P)]
  <2>1. down' = down \/ down' = [down EXCEPT ![c] = << >>] BY <1>6 DEF Leave
  <2> QED BY <1>1, <1>2, <1>3, <2>1
<1>7. ASSUME NEW c, Delete(c) \/ Connect(c) PROVE down' \in [Clients -> Seq(P)]
  BY <1>1, <1>7 DEF Delete, Connect
<1>8. ASSUME NEW c, NEW len, NEW stop, Send(c, len, stop) PROVE down' \in [Clients -> Seq(P)]
  BY <1>1, <1>8 DEF Send
<1>9. ASSUME Select \/ Accept \/ Skip \/ EndOfRound \/ server_destroy \/ Killed \/ UNCHANGED vars
      PROVE  down' \in [Clients -> Seq(P)]
  BY <1>1, <1>9 DEF Select, Accept, Skip, EndOfRound, server_destroy, Killed, vars
<1>10. down' \in [Clients -> Seq(P)]
  BY <1>4, <1>5, <1>6, <1>7, <1>8, <1>9 DEF Next, tcp_server_process
<1> QED BY <1>0, <1>10

-----------------------------------------------------------------------------
\* A list with a new element at its end, or without one, has no element twice.
LEMMA DistinctAppend ==
    ASSUME NEW S, NEW l \in Seq(S), Distinct(l), NEW e \in S, \A i \in 1 .. Len(l) : l[i] # e
    PROVE  Distinct(Append(l, e))
<1>1. PICK n : n = Len(l) OBVIOUS
<1>2. PICK a : a = Append(l, e) OBVIOUS
<1>3. n \in Nat /\ Len(a) = n + 1 /\ a[n + 1] = e /\ \A i \in 1 .. n : a[i] = l[i]
  BY <1>1, <1>2, AppendProperties
<1>4. ASSUME NEW i \in 1 .. n + 1, NEW j \in 1 .. n + 1, a[i] = a[j] PROVE i = j
  <2>1. CASE i = n + 1 /\ j # n + 1
    <3>1. j \in 1 .. n BY <1>3, <2>1
    <3>2. l[j] # e BY <1>1, <3>1
    <3> QED BY <1>3, <1>4, <2>1, <3>1, <3>2
  <2>2. CASE i # n + 1 /\ j = n + 1
    <3>1. i \in 1 .. n BY <1>3, <2>2
    <3>2. l[i] # e BY <1>1, <3>1
    <3> QED BY <1>3, <1>4, <2>2, <3>1, <3>2
  <2>3. CASE i # n + 1 /\ j # n + 1
    <3>1. i \in 1 .. n /\ j \in 1 .. n BY <1>3, <2>3
    <3> QED BY <1>1, <1>3, <1>4, <3>1 DEF Distinct
  <2> QED BY <2>1, <2>2, <2>3
<1> QED BY <1>2, <1>3, <1>4 DEF Distinct

\* The same for a list that loses an element, also what is known of the others.
LEMMA DistinctWithout ==
    ASSUME NEW S, NEW l \in Seq(S), Distinct(l), NEW k \in 1 .. Len(l)
    PROVE  /\ Distinct(SX!RemoveAt(l, k))
           /\ \A i \in 1 .. Len(SX!RemoveAt(l, k)) :
                  \E j \in 1 .. Len(l) : SX!RemoveAt(l, k)[i] = l[j]
<1>1. PICK n : n = Len(l) OBVIOUS
<1>2. n \in Nat /\ k \in 1 .. n BY <1>1
<1>3. PICK z : z = SX!RemoveAt(l, k) OBVIOUS
<1>4. Len(z) = n - 1 /\ \A i \in 1 .. n - 1 : z[i] = IF i < k THEN l[i] ELSE l[i + 1]
  BY <1>1, <1>3, ListWithout
<1>5. PICK at : at = [i \in 1 .. n - 1 |-> IF i < k THEN i ELSE i + 1] OBVIOUS
<1>6. \A i \in 1 .. n - 1 : at[i] = IF i < k THEN i ELSE i + 1 BY <1>5
<1>7. \A i \in 1 .. n - 1 : at[i] \in 1 .. n /\ z[i] = l[at[i]]
  <2> TAKE i \in 1 .. n - 1
  <2>1. CASE i < k BY <1>2, <1>4, <1>6, <2>1
  <2>2. CASE ~(i < k) BY <1>2, <1>4, <1>6, <2>2
  <2> QED BY <2>1, <2>2
<1>8. ASSUME NEW i \in 1 .. n - 1, NEW j \in 1 .. n - 1, z[i] = z[j] PROVE i = j
  <2>1. l[at[i]] = l[at[j]] /\ at[i] \in 1 .. n /\ at[j] \in 1 .. n BY <1>7, <1>8
  <2>2. at[i] = at[j] BY <1>1, <2>1 DEF Distinct
  <2>3. (IF i < k THEN i ELSE i + 1) = (IF j < k THEN j ELSE j + 1) BY <1>6, <2>2
  <2> QED BY <1>2, <2>3
<1> QED BY <1>1, <1>3, <1>4, <1>7, <1>8 DEF Distinct

\* The list without its first element.
LEMMA DistinctTail ==
    ASSUME NEW S, NEW l \in Seq(S), Distinct(l), l # << >>
    PROVE  /\ Tail(l) \in Seq(S) /\ Distinct(Tail(l)) /\ Head(l) = l[1] /\ Head(l) \in S
           /\ \A i \in 1 .. Len(Tail(l)) :
                  i + 1 \in 1 .. Len(l) /\ Tail(l)[i] = l[i + 1] /\ l[i + 1] # Head(l)
<1>1. PICK n : n = Len(l) OBVIOUS
<1>2. n \in Nat /\ 1 \in 1 .. n /\ Head(l) = l[1] /\ Head(l) \in S BY <1>1
<1>3. PICK t : t = Tail(l) OBVIOUS
<1>4. t \in Seq(S) /\ Len(t) = n - 1 /\ \A i \in 1 .. Len(t) : t[i] = l[i + 1]
  BY <1>1, <1>3, HeadTailProperties
<1>5. ASSUME NEW i \in 1 .. n - 1 PROVE i + 1 \in 1 .. n /\ t[i] = l[i + 1] /\ l[i + 1] # l[1]
  <2>1. i + 1 \in 1 .. n /\ i + 1 # 1 BY <1>2
  <2>2. l[i + 1] # l[1] BY <1>1, <1>2, <2>1 DEF Distinct
  <2> QED BY <1>4, <2>1, <2>2
<1>6. ASSUME NEW i \in 1 .. n - 1, NEW j \in 1 .. n - 1, t[i] = t[j] PROVE i = j
  <2>1. l[i + 1] = l[j + 1] /\ i + 1 \in 1 .. n /\ j + 1 \in 1 .. n BY <1>5, <1>6
  <2>2. i + 1 = j + 1 BY <1>1, <2>1 DEF Distinct
  <2> QED BY <2>2
<1> QED BY <1>1, <1>2, <1>3, <1>4, <1>5, <1>6 DEF Distinct

\* A readable connection stays so until it is read from.
LEMMA StaysReadable ==
    ASSUME ClientType, [Next]_vars, NEW c \in Clients, Readable(c),
           StreamType, ~\E n \in 1 .. BufSize : Serve(c, n)
    PROVE  Readable(c)'
<1>1. client[c] = "left" => client'[c] = "left" BY ClientMoves
<1>2. up[c] # << >> => up'[c] # << >>
  <2>1. CASE up' = up BY <2>1
  <2>2. ASSUME NEW d \in Clients, NEW len \in Nat \ {0}, NEW stop, Send(d, len, stop) PROVE up[c] # << >> => up'[c] # << >>
    <3>1. PICK p : p = [j \in 1 .. len |-> <<Len(lines[d]) + 1, j>>] OBVIOUS
    <3>2. up' = [up EXCEPT ![d] = up[d] \o p] BY <2>2, <3>1 DEF Send
    <3>3. CASE c # d BY <3>2, <3>3 DEF StreamType
    <3>4. CASE c = d
      <4>1. up'[c] = up[c] \o p BY <3>2, <3>4 DEF StreamType
      <4>2. PICK k : k = Len(lines[d]) + 1 OBVIOUS
      <4>3. k \in Nat /\ len \in Nat BY <4>2 DEF StreamType
      <4>4. p = [j \in 1 .. len |-> <<k, j>>] BY <3>1, <4>2
      <4>5. p \in Seq(Bytes) BY <4>3, <4>4, LineBytes
      <4>6. up[c] \in Seq(Bytes) BY DEF StreamType
      <4> QED BY <4>1, <4>5, <4>6, ConcatEqualIffEmpty
    <3> QED BY <3>3, <3>4
  <2>3. ASSUME NEW d \in Clients, NEW n \in 1 .. BufSize, Serve(d, n) PROVE up[c] # << >> => up'[c] # << >>
    <3>1. d # c BY <2>3
    <3>2. up'[c] = up[c] BY <2>3, <3>1 DEF Serve, StreamType
    <3> QED BY <3>2
  <2>4. ASSUME NEW d \in Clients, Delete(d) \/ Connect(d) \/ tcp_client_process(d) \/ Leave(d)
        PROVE  up' = up
    BY <2>4 DEF Delete, Connect, tcp_client_process, ReadReply, ReadEnd, Leave
  <2>5. ASSUME Select \/ Accept \/ Skip \/ EndOfRound \/ server_destroy \/ Killed \/ UNCHANGED vars
        PROVE  up' = up
    BY <2>5 DEF Select, Accept, Skip, EndOfRound, server_destroy, Killed, vars
  <2>6. Lengths \subseteq Nat \ {0} /\ LongLengths \subseteq Nat \ {0} /\ Patient \subseteq Clients
        /\ Impatient \subseteq Clients
    BY TcpAssumption DEF Patient
  <2> QED BY <2>1, <2>2, <2>3, <2>4, <2>5, <2>6 DEF Next, tcp_server_process
<1> QED BY <1>1, <1>2 DEF Readable

\* Serve reads from the first connection the loop has not looked at.
LEMMA ServesHead ==
    ASSUME ServerType, NEW c, NEW n, Serve(c, n)
    PROVE  srv = "serve" /\ todo # << >> /\ c = Head(todo) /\ todo' = Tail(todo) /\ todo' # todo
<1>1. srv = "serve" /\ todo # << >> /\ c = Head(todo) /\ todo' = Tail(todo) BY DEF Serve, Reading
<1>2. Len(Tail(todo)) = Len(todo) - 1 /\ Len(todo) \in Nat
  <2>1. todo \in Seq(Clients) BY DEF ServerType
  <2> QED BY <1>1, <2>1, HeadTailProperties, LenProperties
<1>3. PICK k : k = Len(todo) OBVIOUS
<1>4. k - 1 # k BY <1>2, <1>3
<1>5. Len(Tail(todo)) # Len(todo) BY <1>2, <1>3, <1>4
<1>6. Tail(todo) # todo BY <1>5
<1> QED BY <1>1, <1>6

\* What is left to look at after one connection was.
LEMMA NextTodo ==
    ASSUME ServerType, Listed, Reported, srv = "serve", todo # << >>
    PROVE  /\ Tail(todo) \in Seq(Clients) /\ Distinct(Tail(todo)) /\ Head(todo) \in Clients
           /\ \A i \in 1 .. Len(Tail(todo)) :
                  /\ Tail(todo)[i] \in Clients /\ Tail(todo)[i] # Head(todo)
                  /\ Tail(todo)[i] \in rfds => Readable(Tail(todo)[i])
<1>1. PICK t : t = todo OBVIOUS
<1>2. t \in Seq(Clients) /\ Distinct(t) /\ t # << >> BY <1>1 DEF ServerType, Listed
<1>3. /\ Tail(t) \in Seq(Clients) /\ Distinct(Tail(t)) /\ Head(t) \in Clients
      /\ \A i \in 1 .. Len(Tail(t)) :
             i + 1 \in 1 .. Len(t) /\ Tail(t)[i] = t[i + 1] /\ t[i + 1] # Head(t)
  BY <1>2, DistinctTail
<1>4. \A i \in 1 .. Len(t) : t[i] \in rfds => Readable(t[i]) BY <1>1 DEF Reported
<1>5. \A i \in 1 .. Len(Tail(t)) : Tail(t)[i] \in Clients BY <1>3, ElementOfSeq
<1> QED BY <1>1, <1>3, <1>4, <1>5

\* The rest of a round: what is known of todo[i] stays when its tail is taken.
LEMMA RoundGoesOn ==
    ASSUME TcpInv, [Next]_vars, srv = "serve", todo # << >>, todo' = Tail(todo), rfds' = rfds,
           srv' \in {"serve", "killed"}
    PROVE  Distinct(todo') /\ todo' \in Seq(Clients) /\ Reported'
<1>1. /\ Tail(todo) \in Seq(Clients) /\ Distinct(Tail(todo))
      /\ \A i \in 1 .. Len(Tail(todo)) :
             /\ Tail(todo)[i] \in Clients /\ Tail(todo)[i] # Head(todo)
             /\ Tail(todo)[i] \in rfds => Readable(Tail(todo)[i])
  BY NextTodo DEF TcpInv
<1>2. ASSUME NEW i \in 1 .. Len(todo'), todo'[i] \in rfds' PROVE up'[todo'[i]] # << >> \/ client'[todo'[i]] = "left"
  <2>1. PICK c : c = Tail(todo)[i] OBVIOUS
  <2>2. c \in Clients /\ c # Head(todo) /\ Readable(c) BY <1>1, <1>2, <2>1
  <2>3. ~\E n \in 1 .. BufSize : Serve(c, n) BY <2>2 DEF Serve, Reading
  <2>4. Readable(c)' BY <2>2, <2>3, StaysReadable DEF TcpInv
  <2>5. c = todo'[i] BY <2>1
  <2> QED BY <2>4, <2>5 DEF Readable
<1>3. Reported'
  <2>1. srv' # "accept" OBVIOUS
  <2> QED BY <1>2, <2>1 DEF Reported, Readable
<1> QED BY <1>1, <1>3

\* Nothing but a client moves: what select has reported stays readable.
LEMMA ClientsMove ==
    ASSUME TcpInv, [Next]_vars, UNCHANGED serverVars
    PROVE  ServerType' /\ Listed' /\ Reported'
<1>1. ServerType' BY DEF TcpInv, ServerType, serverVars
<1>2. \A c \in Clients : client[c] \notin {"new", "connecting"} => client'[c] \notin {"new", "connecting"}
  BY ClientMoves DEF TcpInv
<1>3. Listed'
  <2>1. conns' = conns /\ todo' = todo /\ Distinct(conns) /\ Distinct(todo) BY DEF TcpInv, Listed, serverVars
  <2>2. ASSUME NEW i \in 1 .. Len(conns) PROVE client'[conns[i]] \notin {"new", "connecting"}
    <3>1. conns \in Seq(Clients) BY DEF TcpInv, ServerType
    <3>2. conns[i] \in Clients BY <3>1, ElementOfSeq
    <3> QED BY <1>2, <3>2 DEF TcpInv, Listed
  <2> QED BY <2>1, <2>2 DEF Listed
<1>4. \A c \in Clients : Readable(c) => Readable(c)'
  <2> TAKE c \in Clients
  <2>1. ~\E n \in 1 .. BufSize : Serve(c, n) BY ServesHead DEF TcpInv, serverVars
  <2> QED BY <2>1, StaysReadable DEF TcpInv
<1>5. Reported'
  <2>1. ASSUME NEW i \in 1 .. Len(todo), srv = "serve", todo[i] \in rfds PROVE Readable(todo[i])'
    <3>1. todo \in Seq(Clients) BY DEF TcpInv, ServerType
    <3>2. PICK c : c = todo[i] OBVIOUS
    <3>3. c \in Clients BY <3>1, <3>2, ElementOfSeq
    <3>4. Readable(c) BY <2>1, <3>2 DEF TcpInv, Reported
    <3>5. Readable(c)' BY <1>4, <3>3, <3>4
    <3>6. todo' = todo BY DEF serverVars
    <3>7. todo'[i] = c BY <3>2, <3>6
    <3> QED BY <3>5, <3>7 DEF Readable
  <2>2. ASSUME NEW c \in Clients, srv = "accept", c \in rfds PROVE Readable(c)'
    BY <1>4, <2>2 DEF TcpInv, Reported
  <2>3. srv' = srv /\ todo' = todo /\ rfds' = rfds BY DEF serverVars
  <2> QED BY <2>1, <2>2, <2>3 DEF Reported, Readable
<1> QED BY <1>1, <1>3, <1>5

\* Every step of the server keeps the list and the round.
LEMMA ServerStep ==
    ASSUME TcpInv, exit_flag' \in BOOLEAN, [Next]_vars, tcp_server_process
    PROVE  ServerType' /\ Listed' /\ Reported'
<1>0. ServerType /\ ClientType /\ Listed /\ Reported /\ StreamType BY DEF TcpInv
<1>1. /\ conns \in Seq(Clients) /\ todo \in Seq(Clients) /\ rfds \subseteq Clients \cup {Listener}
      /\ Distinct(conns) /\ Distinct(todo)
      /\ \A i \in 1 .. Len(conns) : conns[i] \in Clients /\ client[conns[i]] \notin {"new", "connecting"}
  <2>1. conns \in Seq(Clients) BY <1>0 DEF ServerType
  <2>2. \A i \in 1 .. Len(conns) : conns[i] \in Clients BY <2>1, ElementOfSeq
  <2> QED BY <1>0, <2>2 DEF ServerType, Listed
<1>2. \A c \in Clients : client[c] \notin {"new", "connecting"} => client'[c] \notin {"new", "connecting"}
  BY <1>0, ClientMoves
<1>3. << >> \in Seq(Clients) /\ Distinct(<< >>) BY DEF Distinct
<1>4. CASE Select
  <2>1. /\ srv' = "accept" /\ UNCHANGED <<conns, todo, client, up>>
        /\ rfds' = {c \in Clients : InList(c) /\ Readable(c)} \cup (IF Waiting # {} THEN {Listener} ELSE {})
    BY <1>4 DEF Select
  <2>2. \A c \in Clients : c \in rfds' => Readable(c)
    <3> TAKE c \in Clients
    <3>1. c # Listener BY ListenerAssumption
    <3> QED BY <2>1, <3>1
  <2>3. Reported' BY <2>1, <2>2 DEF Reported, Readable
  <2>4. Listed' BY <1>1, <2>1 DEF Listed
  <2>5. rfds' \subseteq Clients \cup {Listener} BY <2>1
  <2> QED BY <1>1, <2>1, <2>3, <2>4, <2>5 DEF ServerType
<1>5. CASE Accept
  <2>1. srv = "accept" /\ srv' = "serve" /\ todo' = conns' /\ rfds' = rfds BY <1>5 DEF Accept
  <2>2. /\ conns' \in Seq(Clients) /\ Distinct(conns')
        /\ \A i \in 1 .. Len(conns') : client'[conns'[i]] \notin {"new", "connecting"}
    <3>1. CASE conns' = conns BY <1>1, <1>2, <3>1
    <3>2. CASE \E c \in Waiting : conns' = Append(conns, c) /\ client' = [client EXCEPT ![c] = "idle"]
      <4>1. PICK c \in Waiting : conns' = Append(conns, c) /\ client' = [client EXCEPT ![c] = "idle"] BY <3>2
      <4>2. c \in Clients /\ client[c] = "connecting" BY DEF Waiting
      <4>3. client'[c] = "idle" BY <1>0, <4>1, <4>2 DEF ClientType
      <4>4. \A i \in 1 .. Len(conns) : conns[i] # c BY <1>1, <4>2
      <4>5. Distinct(Append(conns, c)) BY <1>1, <4>2, <4>4, DistinctAppend
      <4>6. /\ Append(conns, c) \in Seq(Clients) /\ Len(Append(conns, c)) = Len(conns) + 1
            /\ \A i \in 1 .. Len(conns) : Append(conns, c)[i] = conns[i]
            /\ Append(conns, c)[Len(conns) + 1] = c
        BY <1>1, <4>2, AppendProperties
      <4>7. ASSUME NEW i \in 1 .. Len(conns') PROVE client'[conns'[i]] \notin {"new", "connecting"}
        <5>1. PICK n : n = Len(conns) OBVIOUS
        <5>2. n \in Nat /\ i \in 1 .. n + 1 BY <1>1, <4>1, <4>6, <5>1
        <5>3. CASE i = n + 1 BY <4>1, <4>3, <4>6, <5>1, <5>3
        <5>4. CASE i # n + 1
          <6>1. i \in 1 .. n BY <5>2, <5>4
          <6>2. conns'[i] = conns[i] BY <4>1, <4>6, <5>1, <6>1
          <6> QED BY <1>1, <1>2, <5>1, <6>1, <6>2
        <5> QED BY <5>3, <5>4
      <4> QED BY <4>1, <4>5, <4>6, <4>7
    <3> QED BY <1>5, <3>1, <3>2 DEF Accept
  <2>3. \A c \in Clients : c \in rfds => Readable(c)'
    <3> TAKE c \in Clients
    <3> HAVE c \in rfds
    <3>1. Readable(c) BY <1>0, <2>1 DEF Reported
    <3>2. ~\E n \in 1 .. BufSize : Serve(c, n) BY <2>1 DEF Serve, Reading
    <3> QED BY <1>0, <3>1, <3>2, StaysReadable
  <2>4. Reported'
    <3>1. ASSUME NEW i \in 1 .. Len(todo'), todo'[i] \in rfds' PROVE up'[todo'[i]] # << >> \/ client'[todo'[i]] = "left"
      <4>1. PICK c : c = todo'[i] OBVIOUS
      <4>2. c \in Clients
        <5>1. todo' \in Seq(Clients) BY <2>1, <2>2
        <5> QED BY <4>1, <5>1, ElementOfSeq
      <4>3. Readable(c)' BY <2>1, <2>3, <3>1, <4>1, <4>2
      <4> QED BY <4>1, <4>3 DEF Readable
    <3>2. srv' # "accept" BY <2>1
    <3> QED BY <3>1, <3>2 DEF Reported, Readable
  <2>5. Listed' BY <2>1, <2>2 DEF Listed
  <2> QED BY <1>1, <2>1, <2>2, <2>4, <2>5 DEF ServerType
<1>6. CASE Skip
  <2>1. /\ srv = "serve" /\ todo # << >> /\ todo' = Tail(todo)
        /\ UNCHANGED <<srv, conns, rfds, client>>
    BY <1>6 DEF Skip
  <2>2. Distinct(todo') /\ todo' \in Seq(Clients) /\ Reported' BY <2>1, RoundGoesOn
  <2>3. Listed' BY <1>1, <2>1, <2>2 DEF Listed
  <2> QED BY <1>1, <2>1, <2>2, <2>3 DEF ServerType
<1>7. ASSUME NEW c \in Clients, Delete(c) PROVE ServerType' /\ Listed' /\ Reported'
  <2>1. /\ srv = "serve" /\ todo # << >> /\ todo' = Tail(todo)
        /\ UNCHANGED <<srv, rfds, client>>
    BY <1>7 DEF Delete, Reading
  <2>2. Distinct(todo') /\ todo' \in Seq(Clients) /\ Reported' BY <2>1, RoundGoesOn
  <2>3. PICK k \in 1 .. Len(conns) : conns' = SX!RemoveAt(conns, k) BY <1>7 DEF Delete
  <2>4. conns' \in Seq(Clients) BY <1>1, <2>3, ListWithout
  <2>5. Distinct(conns') /\ \A i \in 1 .. Len(conns') : \E j \in 1 .. Len(conns) : conns'[i] = conns[j]
    BY <1>1, <2>3, DistinctWithout
  <2>6. Listed' BY <1>1, <2>1, <2>2, <2>5 DEF Listed
  <2> QED BY <1>1, <2>1, <2>2, <2>4, <2>6 DEF ServerType
<1>8. ASSUME NEW c \in Clients, NEW n, Serve(c, n) PROVE ServerType' /\ Listed' /\ Reported'
  <2>1. /\ srv = "serve" /\ todo # << >> /\ todo' = Tail(todo) BY <1>0, <1>8, ServesHead
  <2>2. srv' \in {"serve", "killed"} /\ UNCHANGED <<conns, rfds, client>> BY <1>8, <2>1 DEF Serve
  <2>3. Distinct(todo') /\ todo' \in Seq(Clients) /\ Reported' BY <2>1, <2>2, RoundGoesOn
  <2>4. Listed' BY <1>1, <2>2, <2>3 DEF Listed
  <2> QED BY <1>1, <2>2, <2>3, <2>4 DEF ServerType
<1>9. CASE EndOfRound
  <2>1. srv' = "select" /\ todo' = << >> /\ rfds' = {} /\ UNCHANGED <<conns, client>>
    BY <1>9 DEF EndOfRound
  <2>2. Reported' /\ Listed' BY <1>1, <1>3, <2>1 DEF Reported, Listed
  <2> QED BY <1>1, <1>3, <2>1, <2>2 DEF ServerType
<1>10. CASE server_destroy \/ Killed
  <2>1. srv' \in {"ended", "killed"} /\ conns' = << >> /\ UNCHANGED <<todo, rfds>>
    BY <1>10 DEF server_destroy, Killed
  <2>2. Reported' BY <2>1 DEF Reported
  <2>3. Listed' BY <1>1, <1>3, <2>1 DEF Listed
  <2> QED BY <1>1, <1>3, <2>1, <2>2, <2>3 DEF ServerType
<1> QED BY <1>4, <1>5, <1>6, <1>7, <1>8, <1>9, <1>10 DEF tcp_server_process

\* TcpInv holds in every state the server reaches.
THEOREM TcpInvariance == Spec => []TcpInv
<1>1. Init => TcpInv
  <2>1. ASSUME Init PROVE TcpInv
    <3>1. BufSize \in Nat BY TcpAssumption
    <3>2. \A T : << >> \in Seq(T) /\ Len(<< >>) = 0 BY EmptySeq
    <3>3. ServerType BY <2>1, <3>2 DEF Init, ServerType
    <3>4. StreamType BY <2>1, <3>1, <3>2 DEF Init, StreamType
    <3>5. ClientType BY <2>1, <3>2 DEF Init, ClientType, ClientStates
    <3>6. StreamCut
      <4>1. ASSUME NEW c \in Clients PROVE IsCut(request[c] \o up[c], lines[c], handled[c])
        <5>1. request[c] = << >> /\ up[c] = << >> /\ lines[c] = << >> /\ handled[c] = 0
          BY <2>1, <4>1 DEF Init
        <5>2. << >> \o << >> = << >> OBVIOUS
        <5>3. PICK cut : cut = [i \in 0 .. 0 |-> 0] OBVIOUS
        <5>4. CutBy(cut, << >>, << >>, 0, 0)
          <6>1. cut \in [0 .. 0 -> Nat] /\ cut[0] = 0 BY <5>3
          <6>2. \A i \in 0 .. 0 : cut[i] = 0 BY <5>3
          <6> QED BY <6>1, <6>2 DEF CutBy
        <5>5. IsCut(<< >>, << >>, 0)
          <6>1. 0 \in Nat /\ Len(<< >>) = 0 + 0 OBVIOUS
          <6> QED BY <5>4, <6>1 DEF IsCut
        <5> QED BY <5>1, <5>2, <5>5
      <4> QED BY <4>1 DEF StreamCut
    <3>7. Listed BY <2>1 DEF Init, Listed, Distinct
    <3>8. Reported BY <2>1 DEF Init, Reported
    <3> QED BY <3>3, <3>4, <3>5, <3>6, <3>7, <3>8 DEF TcpInv
  <2> QED BY <2>1
<1>2. TcpInv /\ [Next]_vars => TcpInv'
  <2>1. SUFFICES ASSUME TcpInv, [Next]_vars PROVE TcpInv' OBVIOUS
  <2>2. StreamType' /\ StreamCut' /\ exit_flag' \in BOOLEAN BY <2>1, StreamStep DEF TcpInv
  <2>3. client' \in [Clients -> ClientStates] BY <2>1, ClientMoves DEF TcpInv
  <2>4. down' \in [Clients -> Seq({"text", "newline"})] BY <2>1, ReplyStep DEF TcpInv
  <2>5. ClientType' BY <2>3, <2>4 DEF ClientType
  <2>6. CASE tcp_server_process
    <3>1. ServerType' /\ Listed' /\ Reported' BY <2>1, <2>2, <2>6, ServerStep
    <3> QED BY <2>2, <2>5, <3>1 DEF TcpInv
  <2>7. CASE UNCHANGED serverVars
    <3>1. ServerType' /\ Listed' /\ Reported' BY <2>1, <2>7, ClientsMove
    <3> QED BY <2>2, <2>5, <3>1 DEF TcpInv
  <2>8. tcp_server_process \/ UNCHANGED serverVars
    BY <2>1 DEF Next, Connect, tcp_client_process, ReadReply, ReadEnd, Leave, Send, vars
  <2> QED BY <2>6, <2>7, <2>8
<1> QED BY <1>1, <1>2, PTL DEF Spec

\* The types: the buffer never holds more than MAX_BUFFER_SIZE bytes, and no
\* more lines are handled than the client has sent.
THEOREM TcpTypes == Spec => []TypeOK
<1>1. TcpInv => TypeOK
  <2>1. ASSUME TcpInv PROVE TypeOK
    <3>1. ASSUME NEW c \in Clients PROVE handled[c] \in 0 .. Len(lines[c])
      <4>1. IsCut(request[c] \o up[c], lines[c], handled[c]) BY <2>1, <3>1 DEF TcpInv, StreamCut
      <4>2. PICK m \in Nat : Len(lines[c]) = handled[c] + m BY <4>1 DEF IsCut
      <4>3. handled[c] \in Nat BY <2>1, <3>1 DEF TcpInv, StreamType
      <4> QED BY <4>2, <4>3
    <3>2. ASSUME NEW c \in Clients, NEW i \in 1 .. Len(down[c]) PROVE down[c][i] \in {"text", "newline"}
      <4>1. PICK y, P : y = down[c] /\ P = {"text", "newline"} OBVIOUS
      <4>2. y \in Seq(P) BY <2>1, <4>1 DEF TcpInv, ClientType
      <4>3. y[i] \in P BY <3>2, <4>1, <4>2, ElementOfSeq
      <4> QED BY <4>1, <4>3
    <3>3. \A c \in Clients : client[c] \in {"new", "connecting", "idle", "sent", "astray", "left"}
      BY <2>1 DEF TcpInv, ClientType, ClientStates
    <3>4. \A c \in Clients : Len(request[c]) <= BufSize BY <2>1 DEF TcpInv, StreamType
    <3>5. ServerType BY <2>1 DEF TcpInv
    <3> QED BY <3>1, <3>2, <3>3, <3>4, <3>5 DEF TypeOK, ServerType
  <2> QED BY <2>1
<1> QED BY <1>1, TcpInvariance, PTL

\* However the stream of a client is cut into reads, what is in its buffer and
\* still on its way is exactly the lines that were not handled yet.
THEOREM StreamIsIntact == Spec => []StreamIntact
<1>1. TcpInv => StreamIntact
  <2>1. ASSUME TcpInv, NEW c \in Clients
        PROVE  request[c] \o up[c] =
                 SX!FlattenSeq([i \in 1 .. Len(lines[c]) - handled[c] |-> Line(c, handled[c] + i)])
    <3>1. PICK r, u, ls, h : r = request[c] /\ u = up[c] /\ ls = lines[c] /\ h = handled[c] OBVIOUS
    <3>2. r \in Seq(Bytes) /\ u \in Seq(Bytes) /\ ls \in Seq(LineType) /\ h \in Nat
      BY <2>1, <3>1 DEF TcpInv, StreamType
    <3>3. IsCut(r \o u, ls, h) BY <2>1, <3>1 DEF TcpInv, StreamCut
    <3>4. r \o u \in Seq(Bytes) BY <3>2, ConcatProperties
    <3>5. r \o u = SX!FlattenSeq([i \in 1 .. Len(ls) - h |-> [j \in 1 .. ls[h + i].len |-> <<h + i, j>>]])
      BY <3>2, <3>3, <3>4, CutIsFlat
    <3> QED BY <3>1, <3>5 DEF Line
  <2> QED BY <2>1 DEF StreamIntact
<1> QED BY <1>1, TcpInvariance, PTL

\* The server never sleeps in read() on one client while the others wait.
THEOREM ServerReadsOnlyReady == Spec => []NeverBlocksInRead
<1>1. TcpInv => NeverBlocksInRead
  <2>1. ASSUME TcpInv, NEW c \in Clients, Reading(c) PROVE Readable(c)
    <3>1. srv = "serve" /\ todo # << >> /\ c = Head(todo) /\ c \in rfds BY <2>1 DEF Reading, IsSet
    <3>2. todo \in Seq(Clients) BY <2>1 DEF TcpInv, ServerType
    <3>3. 1 \in 1 .. Len(todo) /\ todo[1] = c BY <3>1, <3>2
    <3> QED BY <2>1, <3>1, <3>3 DEF TcpInv, Reported
  <2> QED BY <2>1 DEF NeverBlocksInRead
<1> QED BY <1>1, TcpInvariance, PTL
=============================================================================
