--------------------------- MODULE UdpFramingProofs --------------------------
(***************************************************************************)
(* Proofs about UdpFraming, for all datagrams and every MAXLINE.           *)
(***************************************************************************)
EXTENDS UdpFraming, SequenceTheorems, TLAPS

Bytes == {"length", "space", "data"} \X Nat \X Nat
Ids == DOMAIN Lengths
Size(d) == 2 + Lengths[d]

Types ==
    /\ buffer \in [frames : Seq(Seq(Bytes)), offset : Nat]
    /\ received \in 0 .. Len(Lengths)
    /\ wire \in Seq(Bytes) /\ chunk \in Seq(Bytes)
    /\ cached \in [bytes : Seq(Bytes), left : Int] /\ cached.left >= MinLeft
    /\ out \in Seq(Seq(Bytes)) /\ written \in Seq(Seq(Bytes))
    /\ aborted \in BOOLEAN /\ glued \in BOOLEAN

\* The frames that wait are those received last; the first of them is written
\* up to the offset.
Waiting ==
    /\ Len(buffer.frames) <= received
    /\ \A i \in DOMAIN buffer.frames :
          buffer.frames[i] = Frame(received - Len(buffer.frames) + i)
    /\ IF buffer.frames = <<>> THEN buffer.offset = 0
       ELSE buffer.offset < Len(Head(buffer.frames))

\* The place of the next byte to be written: its frame, and where in it.
ToFrame == received - Len(buffer.frames) + 1
ToPlace == buffer.offset + 1

Place(b) == IF b[1] = "length" THEN 1 ELSE IF b[1] = "space" THEN 2 ELSE 2 + b[3]

\* From byte p of frame d on, at place i of q, when w frames were made: what is
\* left of the frame comes in its order, then the next frame, and the end is
\* before byte r of frame e.
From(q, i, d, p, e, r, w) ==
    /\ d \in 1 .. w /\ p \in 1 .. Size(d)
    /\ \A j \in i .. Len(q) :
          /\ p + (j - i) <= Size(d) => q[j] = Frame(d)[p + (j - i)]
          /\ p + (j - i) = Size(d) + 1 => d + 1 \in 1 .. w /\ q[j] = Frame(d + 1)[1]
    /\ p + (Len(q) + 1 - i) <= Size(d) => e = d /\ r = p + (Len(q) + 1 - i)
    /\ p + (Len(q) + 1 - i) = Size(d) + 1 => e = d + 1 /\ r = 1

\* q is a piece of the stream, without a gap, that ends before byte r of
\* frame e.
Piece(q, e, r, w) == \A i \in 1 .. Len(q) : \E d, p \in Nat : From(q, i, d, p, e, r, w)

Unread == chunk \o wire

\* What follows in q, a piece that ends before byte r of frame e, is byte k of
\* frame d.
GoesOn(q, e, r, w, d, k) == IF q = <<>> THEN e = d /\ r = k
                            ELSE d \in 1 .. w /\ q[1] = Frame(d)[k]

\* The next byte the reader gets is byte k of frame d.
Comes(d, k) == GoesOn(Unread, ToFrame, ToPlace, received, d, k)

All == written \o out

\* What the reader has of the next datagram.
Reading ==
    ~glued /\ ~aborted =>
       LET d == Len(All) + 1 IN
       /\ cached.left >= 0
       /\ cached.left = 0 => Comes(d, 1)
       /\ cached.left > 0 =>
             /\ chunk = <<>> /\ d \in Ids /\ cached.left <= Lengths[d]
             /\ cached.bytes = SubSeq(Datagram(d), 1, Lengths[d] - cached.left)
             /\ Comes(d, Size(d) - cached.left + 1)

Stream == Piece(Unread, ToFrame, ToPlace, received)

IInv == /\ Types /\ Waiting /\ Stream /\ Reading
        /\ (aborted => chunk = <<>>) /\ WholeDatagrams

-----------------------------------------------------------------------------
(* Frames.                                                                 *)

\* The constants, as the proofs use them.
LEMMA Constants ==
  /\ Len(Lengths) \in Nat /\ Ids = 1 .. Len(Lengths)
  /\ \A d \in Ids : Lengths[d] \in Nat /\ Size(d) \in Nat /\ Size(d) >= 2
  /\ MaxLine \in Nat \ {0} /\ MinLeft \in Int /\ MinLeft < 0
  BY UdpFramingAssumption DEF Ids, Size

\* A frame: a length, a space, and the datagram.
LEMMA Frames ==
  ASSUME NEW d \in Ids
  PROVE  /\ Frame(d) \in Seq(Bytes) /\ Len(Frame(d)) = Size(d)
         /\ Frame(d)[1] = <<"length", d, Lengths[d]>>
         /\ Frame(d)[2] = <<"space", d, 0>>
         /\ \A j \in 1 .. Lengths[d] : Frame(d)[2 + j] = <<"data", d, j>>
         /\ \A p \in 1 .. Size(d) : Frame(d)[p][2] = d /\ Place(Frame(d)[p]) = p
         /\ Datagram(d) \in Seq(Bytes) /\ Len(Datagram(d)) = Lengths[d]
         /\ \A j \in 1 .. Lengths[d] : Datagram(d)[j] = <<"data", d, j>>
<1>1. Lengths[d] \in Nat /\ d \in Nat
  BY Constants
<1>2. /\ Datagram(d) \in Seq(Bytes) /\ Len(Datagram(d)) = Lengths[d]
      /\ \A j \in 1 .. Lengths[d] : Datagram(d)[j] = <<"data", d, j>>
  <2>1. \A j \in 1 .. Lengths[d] : <<"data", d, j>> \in Bytes
    BY <1>1 DEF Bytes
  <2>2. Datagram(d) \in [1 .. Lengths[d] -> Bytes]
    BY <2>1 DEF Datagram
  <2>3. [1 .. Lengths[d] -> Bytes] \subseteq Seq(Bytes)
    BY <1>1, SeqDef
  <2>4. /\ Datagram(d) \in Seq(Bytes) /\ DOMAIN Datagram(d) = 1 .. Lengths[d]
        /\ DOMAIN Datagram(d) = 1 .. Len(Datagram(d)) /\ Len(Datagram(d)) \in Nat
    BY <2>2, <2>3, LenProperties
  <2>5. Len(Datagram(d)) = Lengths[d]
    BY <2>4, <1>1
  <2>6. \A j \in 1 .. Lengths[d] : Datagram(d)[j] = <<"data", d, j>>
    BY DEF Datagram
  <2> QED BY <2>4, <2>5, <2>6
<1>3. PICK h \in Seq(Bytes) : /\ h = <<<<"length", d, Lengths[d]>>, <<"space", d, 0>>>>
                              /\ Len(h) = 2 /\ h[1] = <<"length", d, Lengths[d]>>
                              /\ h[2] = <<"space", d, 0>>
  <2>1. PICK x, y : x = <<"length", d, Lengths[d]>> /\ y = <<"space", d, 0>>
    OBVIOUS
  <2>2. x \in Bytes /\ y \in Bytes
    BY <1>1, <2>1 DEF Bytes
  <2>3. <<x, y>> \in Seq(Bytes)
    BY <2>2
  <2>h. PICK h : h = <<x, y>>
    OBVIOUS
  <2>4. h \in Seq(Bytes) /\ Len(h) = 2 /\ h[1] = x /\ h[2] = y
    BY <2>2, <2>3, <2>h
  <2> QED BY <2>1, <2>h, <2>4
<1>4. Frame(d) = h \o Datagram(d)
  BY <1>3 DEF Frame
<1>5. /\ Frame(d) \in Seq(Bytes) /\ Len(Frame(d)) = Size(d)
      /\ Frame(d)[1] = <<"length", d, Lengths[d]>>
      /\ Frame(d)[2] = <<"space", d, 0>>
      /\ \A j \in 1 .. Lengths[d] : Frame(d)[2 + j] = <<"data", d, j>>
  BY <1>1, <1>2, <1>3, <1>4, ConcatProperties DEF Size
<1>6. \A p \in 1 .. Size(d) : Frame(d)[p][2] = d /\ Place(Frame(d)[p]) = p
  <2>1. ASSUME NEW p \in 1 .. Size(d)
        PROVE  Frame(d)[p][2] = d /\ Place(Frame(d)[p]) = p
    <3>1. CASE p = 1
      BY <3>1, <1>5 DEF Place
    <3>2. CASE p = 2
      BY <3>2, <1>5 DEF Place
    <3>3. CASE p > 2
      <4>1. p - 2 \in 1 .. Lengths[d] /\ p = 2 + (p - 2)
        BY <3>3, <1>1 DEF Size
      <4>2. Frame(d)[p] = <<"data", d, p - 2>>
        BY <4>1, <1>5
      <4> QED BY <4>1, <4>2 DEF Place
    <3> QED BY <3>1, <3>2, <3>3, <1>1 DEF Size
  <2> QED BY <2>1
<1> QED BY <1>2, <1>5, <1>6

\* A part of a sequence of bytes.
LEMMA Part ==
  ASSUME NEW q \in Seq(Bytes), NEW a \in Nat \ {0}, NEW z \in 0 .. Len(q)
  PROVE  /\ SubSeq(q, a, z) \in Seq(Bytes)
         /\ Len(SubSeq(q, a, z)) = IF a <= z THEN z - a + 1 ELSE 0
         /\ \A i \in 1 .. z - a + 1 : SubSeq(q, a, z)[i] = q[a + i - 1]
         /\ a > z => SubSeq(q, a, z) = <<>>
<1>1. \A i \in a .. z : q[i] \in Bytes
  <2>1. \A i \in a .. z : i \in 1 .. Len(q)
    OBVIOUS
  <2> QED BY <2>1, ElementOfSeq
<1>2. /\ SubSeq(q, a, z) \in Seq(Bytes)
      /\ Len(SubSeq(q, a, z)) = IF a <= z THEN z - a + 1 ELSE 0
      /\ \A i \in 1 .. z - a + 1 : SubSeq(q, a, z)[i] = q[a + i - 1]
  BY <1>1, SubSeqProperties
<1>3. a > z => SubSeq(q, a, z) = <<>>
  <2>1. a > z => Len(SubSeq(q, a, z)) = 0
    BY <1>2
  <2> QED BY <2>1, <1>2, EmptySeq
<1> QED BY <1>2, <1>3

-----------------------------------------------------------------------------
(* Pieces of the stream.                                                   *)

\* The rest of a piece is a piece with the same end.
LEMMA RestOfPiece ==
  ASSUME NEW q \in Seq(Bytes), NEW e, NEW r, NEW w, Piece(q, e, r, w),
         NEW m \in 1 .. Len(q) + 1
  PROVE  /\ Piece(SubSeq(q, m, Len(q)), e, r, w)
         /\ SubSeq(q, m, Len(q)) \in Seq(Bytes)
         /\ Len(SubSeq(q, m, Len(q))) = Len(q) - m + 1
         /\ m <= Len(q) => SubSeq(q, m, Len(q))[1] = q[m]
<1>s. PICK s : s = SubSeq(q, m, Len(q))
  OBVIOUS
<1>n. Len(q) \in Nat /\ m \in Int
  OBVIOUS
<1>1. /\ s \in Seq(Bytes) /\ Len(s) = Len(q) - m + 1
      /\ \A i \in 1 .. Len(s) : s[i] = q[m + i - 1]
  <2>1. \A i \in m .. Len(q) : q[i] \in Bytes
    <3>1. \A i \in m .. Len(q) : i \in 1 .. Len(q)
      OBVIOUS
    <3> QED BY <3>1, ElementOfSeq
  <2> QED BY <1>s, <1>n, <2>1, SubSeqProperties
<1>2. ASSUME NEW i \in 1 .. Len(s), NEW d \in Nat, NEW p \in Nat,
             From(q, m + i - 1, d, p, e, r, w)
      PROVE  From(s, i, d, p, e, r, w)
  <2>1. \A j \in i .. Len(s) :
          /\ m + j - 1 \in m + i - 1 .. Len(q) /\ s[j] = q[m + j - 1]
          /\ (m + j - 1) - (m + i - 1) = j - i
    BY <1>1, <1>n
  <2>2. Len(q) + 1 - (m + i - 1) = Len(s) + 1 - i
    BY <1>1, <1>n
  <2>3. \A j \in i .. Len(s) :
          /\ p + (j - i) <= Size(d) => s[j] = Frame(d)[p + (j - i)]
          /\ p + (j - i) = Size(d) + 1 =>
               d + 1 \in 1 .. w /\ s[j] = Frame(d + 1)[1]
    <3> SUFFICES ASSUME NEW j \in i .. Len(s)
                 PROVE  /\ p + (j - i) <= Size(d) => s[j] = Frame(d)[p + (j - i)]
                        /\ p + (j - i) = Size(d) + 1 =>
                             d + 1 \in 1 .. w /\ s[j] = Frame(d + 1)[1]
      OBVIOUS
    <3>1. PICK k \in m + i - 1 .. Len(q) : k = m + j - 1
      BY <2>1
    <3>2. k - (m + i - 1) = j - i /\ s[j] = q[k]
      BY <2>1, <3>1
    <3>3. /\ p + (k - (m + i - 1)) <= Size(d) => q[k] = Frame(d)[p + (k - (m + i - 1))]
          /\ p + (k - (m + i - 1)) = Size(d) + 1 =>
               d + 1 \in 1 .. w /\ q[k] = Frame(d + 1)[1]
      BY <1>2 DEF From
    <3> QED BY <3>2, <3>3
  <2>4. /\ d \in 1 .. w /\ p \in 1 .. Size(d)
        /\ p + (Len(s) + 1 - i) <= Size(d) => e = d /\ r = p + (Len(s) + 1 - i)
        /\ p + (Len(s) + 1 - i) = Size(d) + 1 => e = d + 1 /\ r = 1
    BY <1>2, <2>2 DEF From
  <2> QED BY <2>3, <2>4 DEF From
<1>3. Piece(s, e, r, w)
  <2> SUFFICES ASSUME NEW i \in 1 .. Len(s)
               PROVE  \E d, p \in Nat : From(s, i, d, p, e, r, w)
    BY DEF Piece
  <2>1. m + i - 1 \in 1 .. Len(q)
    BY <1>1, <1>n
  <2>2. PICK d \in Nat, p \in Nat : From(q, m + i - 1, d, p, e, r, w)
    BY <2>1 DEF Piece
  <2> QED BY <1>2, <2>2
<1>4. m <= Len(q) => s[1] = q[m]
  <2>1. m <= Len(q) => 1 \in 1 .. Len(s)
    BY <1>1, <1>n
  <2>2. m + 1 - 1 = m
    BY <1>n
  <2> QED BY <1>1, <2>1, <2>2
<1> QED BY <1>1, <1>3, <1>4, <1>s

\* A piece goes on with n bytes of the frame where it ends.
LEMMA MorePiece ==
  ASSUME NEW q \in Seq(Bytes), NEW e \in Ids, NEW r \in 1 .. Size(e),
         NEW w \in 0 .. Len(Lengths), Piece(q, e, r, w), e \in 1 .. w,
         NEW n \in Nat \ {0}, r + n <= Size(e) + 1, NEW f, NEW t,
         r + n <= Size(e) => f = e /\ t = r + n,
         r + n = Size(e) + 1 => f = e + 1 /\ t = 1
  PROVE  Piece(q \o SubSeq(Frame(e), r, r + n - 1), f, t, w)
<1>1. PICK x : x = SubSeq(Frame(e), r, r + n - 1)
  OBVIOUS
<1>2. /\ Size(e) \in Nat /\ Len(q) \in Nat /\ r \in Nat /\ e \in Nat
      /\ \A d \in 1 .. w : Size(d) \in Int
  <2>1. \A d \in 1 .. w : d \in Ids
    BY Constants
  <2> QED BY <2>1, Constants
<1>3. /\ x \in Seq(Bytes) /\ Len(x) = n
      /\ \A i \in 1 .. n : x[i] = Frame(e)[r + i - 1]
  <2>1. Frame(e) \in Seq(Bytes) /\ r \in Nat \ {0} /\ r + n - 1 \in 0 .. Len(Frame(e))
    BY <1>2, Frames
  <2>2. /\ x \in Seq(Bytes) /\ Len(x) = IF r <= r + n - 1 THEN r + n - 1 - r + 1 ELSE 0
        /\ \A i \in 1 .. r + n - 1 - r + 1 : x[i] = Frame(e)[r + i - 1]
    BY <1>1, <2>1, Part, SMTT(60)
  <2> QED BY <1>2, <2>2
<1>4. PICK u : u = q \o x
  OBVIOUS
<1>5. /\ u \in Seq(Bytes) /\ Len(u) = Len(q) + n
      /\ \A i \in 1 .. Len(q) : u[i] = q[i]
      /\ \A i \in 1 .. n : u[Len(q) + i] = Frame(e)[r + i - 1]
  <2>1. /\ u \in Seq(Bytes) /\ Len(u) = Len(q) + n
        /\ \A i \in 1 .. Len(q) + n :
              u[i] = IF i <= Len(q) THEN q[i] ELSE x[i - Len(q)]
    BY <1>3, <1>4, ConcatProperties
  <2>2. \A i \in 1 .. Len(q) : u[i] = q[i]
    BY <2>1, <1>2
  <2>3. ASSUME NEW i \in 1 .. n
        PROVE  u[Len(q) + i] = Frame(e)[r + i - 1]
    <3>1. PICK k \in 1 .. Len(q) + n : k = Len(q) + i
      BY <1>2, SMTT(60)
    <3>2. ~(k <= Len(q)) /\ k - Len(q) = i
      BY <3>1, <1>2
    <3>3. u[k] = x[i]
      BY <3>2, <2>1
    <3> QED BY <3>1, <3>3, <1>3
  <2> QED BY <2>1, <2>2, <2>3
<1>6. ASSUME NEW i \in 1 .. Len(q), NEW d \in Nat, NEW p \in Nat, From(q, i, d, p, e, r, w)
      PROVE  From(u, i, d, p, f, t, w)
  <2>1. PICK k \in Nat : k = Len(q) + 1 - i /\ k >= 1
    <3>1. Len(q) + 1 - i \in Nat /\ Len(q) + 1 - i >= 1
      BY <1>2
    <3> QED BY <3>1
  <2>2. /\ d \in 1 .. w /\ p \in 1 .. Size(d)
        /\ p + k <= Size(d) => e = d /\ r = p + k
        /\ p + k = Size(d) + 1 => e = d + 1 /\ r = 1
    BY <1>6, <2>1 DEF From
  <2>3. \A j \in i .. Len(q) :
          /\ p + (j - i) <= Size(d) => q[j] = Frame(d)[p + (j - i)]
          /\ p + (j - i) = Size(d) + 1 =>
               d + 1 \in 1 .. w /\ q[j] = Frame(d + 1)[1]
    BY <1>6 DEF From
  <2>4. Size(d) \in Int /\ d + 1 \in Nat /\ d # d + 1
    BY <1>2, <2>2
  <2>5. ASSUME NEW j \in i .. Len(u)
        PROVE  /\ p + (j - i) <= Size(d) => u[j] = Frame(d)[p + (j - i)]
               /\ p + (j - i) = Size(d) + 1 =>
                    d + 1 \in 1 .. w /\ u[j] = Frame(d + 1)[1]
    <3>1. CASE j <= Len(q)
      <4>1. j \in i .. Len(q) /\ j \in 1 .. Len(q)
        BY <3>1, <1>2
      <4> QED BY <4>1, <1>5, <2>3
    <3>2. CASE j > Len(q)
      <4>1. PICK h \in 1 .. n : j = Len(q) + h
        <5>1. j - Len(q) \in 1 .. n /\ j = Len(q) + (j - Len(q))
          BY <3>2, <1>2, <1>5
        <5> QED BY <5>1
      <4>2. j - i = k + (h - 1)
        BY <4>1, <2>1, <1>2
      <4>3. u[j] = Frame(e)[r + h - 1]
        BY <4>1, <1>5
      <4>4. CASE p + (j - i) <= Size(d)
        <5>1. e = d /\ r = p + k
          BY <4>4, <4>2, <4>1, <2>2, <2>4, <2>1, SMTT(60)
        <5>2. r + h - 1 = p + (j - i)
          BY <5>1, <4>2, <2>1, <4>1
        <5>3. u[j] = Frame(d)[p + (j - i)]
          BY <5>1, <5>2, <4>3
        <5>4. p + (j - i) # Size(d) + 1
          BY <4>4, <2>4, <1>2
        <5> QED BY <5>3, <5>4
      <4>5. CASE p + (j - i) = Size(d) + 1
        <5>1. CASE h = 1
          <6>1. p + k = Size(d) + 1
            BY <5>1, <4>2, <4>5, <2>1
          <6>2. e = d + 1 /\ r = 1
            BY <6>1, <2>2
          <6> QED BY <5>1, <6>2, <4>3, <4>5, <2>4, <1>2
        <5>2. CASE h > 1
          <6>1. p + k <= Size(d)
            BY <5>2, <4>2, <4>5, <2>1, <4>1, <2>4, SMTT(60)
          <6>2. e = d /\ r = p + k
            BY <6>1, <2>2
          <6>3. r + h - 1 = Size(e) + 1
            BY <6>2, <4>2, <4>5, <2>1, <4>1
          <6> QED BY <6>3, <4>1, <1>2
        <5> QED BY <5>1, <5>2, <4>1
      <4> QED BY <4>4, <4>5
    <3> QED BY <3>1, <3>2, <1>2, <1>5
  <2>6. Len(u) + 1 - i = k + n
    BY <1>2, <1>5, <2>1
  <2>7. p + (k + n) <= Size(d) => f = d /\ t = p + (k + n)
    <3> SUFFICES ASSUME p + (k + n) <= Size(d)
                 PROVE  f = d /\ t = p + (k + n)
      OBVIOUS
    <3>1. e = d /\ r = p + k
      BY <2>1, <2>2, <2>4
    <3>2. r + n = p + (k + n)
      BY <3>1, <2>1
    <3> QED BY <3>1, <3>2
  <2>8. p + (k + n) = Size(d) + 1 => f = d + 1 /\ t = 1
    <3> SUFFICES ASSUME p + (k + n) = Size(d) + 1
                 PROVE  f = d + 1 /\ t = 1
      OBVIOUS
    <3>1. e = d /\ r = p + k
      BY <2>1, <2>2, <2>4
    <3>2. r + n = p + (k + n)
      BY <3>1, <2>1
    <3> QED BY <3>1, <3>2
  <2> QED BY <2>2, <2>5, <2>6, <2>7, <2>8 DEF From
<1>7. ASSUME NEW h \in 1 .. n
      PROVE  From(u, Len(q) + h, e, r + h - 1, f, t, w)
  <2>1. /\ Len(u) + 1 - (Len(q) + h) = n - h + 1 /\ r + h - 1 \in 1 .. Size(e)
        /\ r + h - 1 + (n - h + 1) = r + n
    BY <1>2, <1>5, SMTT(60)
  <2>2. ASSUME NEW j \in Len(q) + h .. Len(u)
        PROVE  /\ r + h - 1 + (j - (Len(q) + h)) <= Size(e) =>
                    u[j] = Frame(e)[r + h - 1 + (j - (Len(q) + h))]
               /\ r + h - 1 + (j - (Len(q) + h)) # Size(e) + 1
    <3>1. PICK g \in 1 .. n : j = Len(q) + g
      <4>1. j - Len(q) \in 1 .. n
        BY <1>2, <1>5
      <4> QED BY <4>1, <1>2, SMTT(60)
    <3>2. r + h - 1 + (j - (Len(q) + h)) = r + g - 1 /\ r + g - 1 <= Size(e)
      BY <3>1, <1>2
    <3> QED BY <3>1, <3>2, <1>2, <1>5
  <2> QED BY <2>1, <2>2 DEF From
<1>8. Piece(u, f, t, w)
  <2> SUFFICES ASSUME NEW i \in 1 .. Len(u)
               PROVE  \E d, p \in Nat : From(u, i, d, p, f, t, w)
    BY DEF Piece
  <2>1. CASE i <= Len(q)
    <3>1. i \in 1 .. Len(q)
      BY <2>1, <1>2
    <3>2. PICK d \in Nat, p \in Nat : From(q, i, d, p, e, r, w)
      BY <3>1 DEF Piece
    <3> QED BY <3>1, <3>2, <1>6
  <2>2. CASE i > Len(q)
    <3>1. PICK h \in 1 .. n : i = Len(q) + h
      <4>1. i - Len(q) \in 1 .. n /\ i = Len(q) + (i - Len(q))
        BY <2>2, <1>2, <1>5
      <4> QED BY <4>1
    <3>2. r + h - 1 \in Nat
      BY <1>2
    <3> QED BY <3>1, <3>2, <1>7, <1>2
  <2> QED BY <2>1, <2>2, <1>2
<1> QED BY <1>8, <1>4, <1>1
\* A piece that starts with byte k of frame d has the next n bytes of the
\* frame, as far as they reach, and goes on behind them.
LEMMA Onward ==
  ASSUME NEW q \in Seq(Bytes), NEW e, NEW r,
         NEW w \in 0 .. Len(Lengths), Piece(q, e, r, w),
         NEW d \in 1 .. w, NEW k \in 1 .. Size(d), q # <<>>, q[1] = Frame(d)[k],
         NEW n \in 1 .. Len(q), k + n <= Size(d) + 1
  PROVE  /\ \A j \in 1 .. n : q[j] = Frame(d)[k + j - 1]
         /\ n = Len(q) => /\ k + n <= Size(d) => e = d /\ r = k + n
                          /\ k + n = Size(d) + 1 => e = d + 1 /\ r = 1
         /\ n < Len(q) => /\ k + n <= Size(d) => q[n + 1] = Frame(d)[k + n]
                          /\ k + n = Size(d) + 1 =>
                               d + 1 \in 1 .. w /\ q[n + 1] = Frame(d + 1)[1]
<1>1. /\ d \in Ids /\ Size(d) \in Nat /\ d \in Nat /\ k \in Nat /\ Len(q) \in Nat
      /\ \A b \in 1 .. w : b \in Ids /\ b \in Nat
  <2>1. \A b \in 1 .. w : b \in Ids /\ b \in Nat
    BY Constants
  <2> QED BY <2>1, Constants
<1>2. 1 \in 1 .. Len(q)
  BY <1>1
<1>3. PICK b \in Nat, p \in Nat : From(q, 1, b, p, e, r, w)
  BY <1>2 DEF Piece
<1>4. /\ b \in 1 .. w /\ p \in 1 .. Size(b)
      /\ \A j \in 1 .. Len(q) :
            /\ p + (j - 1) <= Size(b) => q[j] = Frame(b)[p + (j - 1)]
            /\ p + (j - 1) = Size(b) + 1 =>
                 b + 1 \in 1 .. w /\ q[j] = Frame(b + 1)[1]
      /\ p + (Len(q) + 1 - 1) <= Size(b) => e = b /\ r = p + (Len(q) + 1 - 1)
      /\ p + (Len(q) + 1 - 1) = Size(b) + 1 => e = b + 1 /\ r = 1
  BY <1>3 DEF From
<1>5. q[1] = Frame(b)[p]
  <2>1. Size(b) \in Nat
    BY <1>1, <1>4, Constants
  <2>2. p + (1 - 1) = p /\ p <= Size(b)
    BY <1>4, <2>1
  <2> QED BY <2>2, <1>2, <1>4
<1>6. b = d /\ p = k
  <2>1. Frame(b)[p][2] = b /\ Place(Frame(b)[p]) = p
    BY <1>1, <1>4, Frames
  <2>2. Frame(d)[k][2] = d /\ Place(Frame(d)[k]) = k
    BY <1>1, Frames
  <2> QED BY <2>1, <2>2, <1>5
<1>7. \A j \in 1 .. Len(q) :
         /\ k + (j - 1) <= Size(d) => q[j] = Frame(d)[k + (j - 1)]
         /\ k + (j - 1) = Size(d) + 1 =>
              d + 1 \in 1 .. w /\ q[j] = Frame(d + 1)[1]
  BY <1>4, <1>6
<1>8. ASSUME NEW j \in 1 .. n
      PROVE  q[j] = Frame(d)[k + j - 1]
  <2>1. j \in 1 .. Len(q) /\ k + (j - 1) = k + j - 1 /\ k + (j - 1) <= Size(d)
    BY <1>1
  <2> QED BY <2>1, <1>7
<1>9. n = Len(q) => /\ k + n <= Size(d) => e = d /\ r = k + n
                    /\ k + n = Size(d) + 1 => e = d + 1 /\ r = 1
  <2>1. n = Len(q) => k + (Len(q) + 1 - 1) = k + n
    BY <1>1
  <2> QED BY <2>1, <1>4, <1>6
<1>10. n < Len(q) => /\ k + n <= Size(d) => q[n + 1] = Frame(d)[k + n]
                     /\ k + n = Size(d) + 1 =>
                          d + 1 \in 1 .. w /\ q[n + 1] = Frame(d + 1)[1]
  <2>1. n < Len(q) => n + 1 \in 1 .. Len(q)
    BY <1>1
  <2>2. k + (n + 1 - 1) = k + n
    BY <1>1
  <2> QED BY <2>1, <2>2, <1>7
<1> QED BY <1>8, <1>9, <1>10
\* The reader takes n bytes of the frame it is at.
LEMMA Taken ==
  ASSUME NEW q \in Seq(Bytes), NEW e, NEW r,
         NEW w \in 0 .. Len(Lengths), Piece(q, e, r, w),
         NEW d, NEW k \in 1 .. Size(d), GoesOn(q, e, r, w, d, k),
         NEW n \in 1 .. Len(q), k + n <= Size(d) + 1
  PROVE  /\ d \in 1 .. w /\ \A j \in 1 .. n : q[j] = Frame(d)[k + j - 1]
         /\ k + n <= Size(d) => GoesOn(SubSeq(q, n + 1, Len(q)), e, r, w, d, k + n)
         /\ k + n = Size(d) + 1 => GoesOn(SubSeq(q, n + 1, Len(q)), e, r, w, d + 1, 1)
<1>1. q # <<>> /\ Len(q) \in Nat /\ n \in Nat /\ n + 1 \in 1 .. Len(q) + 1
  OBVIOUS
<1>2. d \in 1 .. w /\ q[1] = Frame(d)[k]
  BY <1>1 DEF GoesOn
<1>3. /\ \A j \in 1 .. n : q[j] = Frame(d)[k + j - 1]
      /\ n = Len(q) => /\ k + n <= Size(d) => e = d /\ r = k + n
                       /\ k + n = Size(d) + 1 => e = d + 1 /\ r = 1
      /\ n < Len(q) => /\ k + n <= Size(d) => q[n + 1] = Frame(d)[k + n]
                       /\ k + n = Size(d) + 1 =>
                            d + 1 \in 1 .. w /\ q[n + 1] = Frame(d + 1)[1]
  BY <1>1, <1>2, Onward
<1>4. PICK s : s = SubSeq(q, n + 1, Len(q))
  OBVIOUS
<1>5. /\ s \in Seq(Bytes) /\ Len(s) = Len(q) - (n + 1) + 1
      /\ n + 1 <= Len(q) => s[1] = q[n + 1]
  BY <1>1, <1>4, RestOfPiece
<1>6. CASE n = Len(q)
  <2>1. s = <<>>
    BY <1>1, <1>5, <1>6
  <2> QED BY <2>1, <1>2, <1>3, <1>4, <1>6 DEF GoesOn
<1>7. CASE n < Len(q)
  <2>1. s # <<>> /\ s[1] = q[n + 1]
    BY <1>1, <1>5, <1>7
  <2> QED BY <2>1, <1>2, <1>3, <1>4, <1>7 DEF GoesOn
<1> QED BY <1>1, <1>6, <1>7

\* A piece stays one when another frame is made.
LEMMA PieceStays ==
  ASSUME NEW q \in Seq(Bytes), NEW e, NEW r, NEW w \in Nat, Piece(q, e, r, w)
  PROVE  /\ Piece(q, e, r, w + 1)
         /\ \A d, k : GoesOn(q, e, r, w, d, k) => GoesOn(q, e, r, w + 1, d, k)
<1>1. \A d : d \in 1 .. w => d \in 1 .. w + 1
  OBVIOUS
<1>2. \A i \in 1 .. Len(q), d, p \in Nat :
         From(q, i, d, p, e, r, w) => From(q, i, d, p, e, r, w + 1)
  BY <1>1 DEF From
<1> QED BY <1>1, <1>2 DEF Piece, GoesOn

\* A piece that goes on still has the same byte first.
LEMMA StillFirst ==
  ASSUME NEW q \in Seq(Bytes), NEW e \in Ids, NEW r \in 1 .. Size(e), NEW w \in Nat,
         e \in 1 .. w, NEW n \in Nat \ {0}, r + n <= Size(e) + 1, NEW f, NEW t, NEW d, NEW k,
         GoesOn(q, e, r, w, d, k)
  PROVE  GoesOn(q \o SubSeq(Frame(e), r, r + n - 1), f, t, w, d, k)
<1>1. PICK x : x = SubSeq(Frame(e), r, r + n - 1)
  OBVIOUS
<1>2. Size(e) \in Nat /\ r \in Nat
  BY Constants
<1>3. x \in Seq(Bytes) /\ Len(x) = n /\ x[1] = Frame(e)[r]
  <2>1. Frame(e) \in Seq(Bytes) /\ r \in Nat \ {0} /\ r + n - 1 \in 0 .. Len(Frame(e))
    BY <1>2, Frames
  <2>2. /\ x \in Seq(Bytes) /\ Len(x) = IF r <= r + n - 1 THEN r + n - 1 - r + 1 ELSE 0
        /\ \A i \in 1 .. r + n - 1 - r + 1 : x[i] = Frame(e)[r + i - 1]
    BY <1>1, <2>1, Part, SMTT(60)
  <2>3. 1 \in 1 .. r + n - 1 - r + 1 /\ r + 1 - 1 = r
    BY <1>2
  <2> QED BY <1>2, <2>2, <2>3
<1>4. PICK u : u = q \o x
  OBVIOUS
<1>5. CASE q = <<>>
  <2>1. u = x
    BY <1>3, <1>4, <1>5, ConcatSimplifications, ConcatEmptySeq
  <2>2. u # <<>> /\ e = d /\ r = k
    BY <2>1, <1>3, <1>5 DEF GoesOn
  <2> QED BY <2>1, <2>2, <1>1, <1>3, <1>4 DEF GoesOn
<1>6. CASE q # <<>>
  <2>1. Len(q) \in Nat /\ Len(q) >= 1
    BY <1>6
  <2>2. u \in Seq(Bytes) /\ Len(u) = Len(q) + Len(x) /\ u[1] = q[1]
    <3>1. /\ u \in Seq(Bytes) /\ Len(u) = Len(q) + Len(x)
          /\ \A i \in 1 .. Len(q) + Len(x) :
                u[i] = IF i <= Len(q) THEN q[i] ELSE x[i - Len(q)]
      BY <1>3, <1>4, ConcatProperties
    <3>2. 1 \in 1 .. Len(q) + Len(x) /\ 1 <= Len(q)
      BY <1>3, <2>1
    <3> QED BY <3>1, <3>2
  <2>3. u # <<>> /\ d \in 1 .. w /\ q[1] = Frame(d)[k]
    BY <2>1, <2>2, <1>3, <1>6 DEF GoesOn
  <2> QED BY <2>2, <2>3, <1>1, <1>4 DEF GoesOn
<1> QED BY <1>5, <1>6
-----------------------------------------------------------------------------
(* The actions.                                                            *)

\* The sequences the invariant speaks of.
LEMMA Sequences ==
  ASSUME Types
  PROVE  /\ Unread \in Seq(Bytes) /\ All \in Seq(Seq(Bytes))
         /\ Len(All) \in Nat /\ Len(buffer.frames) \in Nat /\ received \in Nat
         /\ chunk = <<>> => Unread = wire
<1>1. wire \in Seq(Bytes) /\ chunk \in Seq(Bytes)
      /\ written \in Seq(Seq(Bytes)) /\ out \in Seq(Seq(Bytes))
      /\ buffer.frames \in Seq(Seq(Bytes)) /\ received \in Nat
  BY Constants DEF Types
<1>2. Unread \in Seq(Bytes) /\ All \in Seq(Seq(Bytes))
  BY <1>1, ConcatProperties DEF Unread, All
<1>3. chunk = <<>> => Unread = wire
  BY <1>1, ConcatEmptySeq DEF Unread
<1> QED BY <1>1, <1>2, <1>3

\* Init establishes the invariant.
LEMMA Initially ==
  ASSUME Init
  PROVE  IInv
<1>1. /\ buffer = [frames |-> <<>>, offset |-> 0] /\ received = 0
      /\ wire = <<>> /\ chunk = <<>> /\ cached = [bytes |-> <<>>, left |-> 0]
      /\ out = <<>> /\ written = <<>> /\ aborted = FALSE /\ glued = FALSE
  BY DEF Init, Nothing
<1>2. Types
  <2>1. <<>> \in Seq(Bytes) /\ <<>> \in Seq(Seq(Bytes))
    OBVIOUS
  <2>2. buffer \in [frames : Seq(Seq(Bytes)), offset : Nat]
    BY <1>1, <2>1
  <2>3. cached \in [bytes : Seq(Bytes), left : Int] /\ cached.left >= MinLeft
    <3>1. cached.left = 0
      BY <1>1
    <3>2. cached \in [bytes : Seq(Bytes), left : Int]
      BY <1>1, <2>1
    <3> QED BY <3>1, <3>2, Constants
  <2>4. received \in 0 .. Len(Lengths)
    BY <1>1, Constants
  <2> QED BY <1>1, <2>1, <2>2, <2>3, <2>4 DEF Types
<1>3. Unread = <<>> /\ All = <<>> /\ Len(Unread) = 0 /\ Len(All) = 0
  <2>1. <<>> \o <<>> = <<>>
    OBVIOUS
  <2> QED BY <1>1, <2>1 DEF Unread, All
<1>4. Stream
  BY <1>3 DEF Stream, Piece
<1>5. ToFrame = 1 /\ ToPlace = 1
  BY <1>1 DEF ToFrame, ToPlace
<1>6. Reading
  BY <1>1, <1>3, <1>5 DEF Reading, Comes, GoesOn
<1>7. Waiting /\ WholeDatagrams
  <2>1. Waiting
    BY <1>1 DEF Waiting
  <2>2. WholeDatagrams
    BY <1>1, <1>3 DEF WholeDatagrams, All
  <2> QED BY <2>1, <2>2
<1> QED BY <1>1, <1>2, <1>4, <1>6, <1>7 DEF IInv

\* A datagram arrives.
LEMMA ReceiveKeeps ==
  ASSUME IInv, Receive
  PROVE  IInv'
<1>1. /\ Types /\ Waiting /\ Stream /\ Reading
      /\ (aborted => chunk = <<>>) /\ WholeDatagrams
  BY DEF IInv
<1>2. /\ received < Len(Lengths) /\ received' = received + 1
      /\ buffer' = [buffer EXCEPT !.frames = Append(@, Frame(received + 1))]
      /\ UNCHANGED <<wire, chunk, cached, out, written, aborted, glued>>
  BY DEF Receive
<1>3. /\ received \in Nat /\ received + 1 \in Ids /\ received + 1 \in 0 .. Len(Lengths)
      /\ Len(buffer.frames) \in Nat /\ buffer.frames \in Seq(Seq(Bytes))
      /\ buffer \in [frames : Seq(Seq(Bytes)), offset : Nat]
      /\ Len(buffer.frames) <= received
  <2>1. /\ received \in 0 .. Len(Lengths) /\ buffer \in [frames : Seq(Seq(Bytes)), offset : Nat]
        /\ Len(buffer.frames) <= received
    BY <1>1 DEF Types, Waiting
  <2>2. received \in Nat /\ Len(buffer.frames) \in Nat
    BY <1>1, Sequences
  <2>3. received + 1 \in 1 .. Len(Lengths) /\ received + 1 \in 0 .. Len(Lengths)
    BY <2>2, <1>2, Constants
  <2>4. buffer.frames \in Seq(Seq(Bytes))
    BY <2>1
  <2> QED BY <2>1, <2>2, <2>3, <2>4, Constants
<1>4. PICK F : F = Frame(received + 1)
  OBVIOUS
<1>5. F \in Seq(Bytes) /\ Len(F) >= 2
  BY <1>3, <1>4, Frames, Constants
<1>6. PICK o : o = buffer.frames
  OBVIOUS
<1>7. PICK s : s = Append(o, F)
  OBVIOUS
<1>8. /\ s \in Seq(Seq(Bytes)) /\ Len(s) = Len(o) + 1 /\ s # <<>>
      /\ \A i \in 1 .. Len(o) : s[i] = o[i]
      /\ s[Len(o) + 1] = F
  BY <1>3, <1>5, <1>6, <1>7, AppendProperties
<1>9. buffer'.frames = s /\ buffer'.offset = buffer.offset
      /\ buffer' \in [frames : Seq(Seq(Bytes)), offset : Nat]
  BY <1>2, <1>3, <1>4, <1>6, <1>7, <1>8
<1>10. Types'
  BY <1>1, <1>2, <1>3, <1>9 DEF Types
<1>11. ToFrame' = ToFrame /\ ToPlace' = ToPlace /\ Unread' = Unread /\ All' = All
  <2>1. ToFrame' = ToFrame
    BY <1>2, <1>3, <1>6, <1>8, <1>9 DEF ToFrame
  <2> QED BY <2>1, <1>2, <1>9 DEF ToPlace, Unread, All
<1>12. Waiting'
  <2>1. Len(s) <= received'
    BY <1>2, <1>3, <1>6, <1>8
  <2>2. ASSUME NEW i \in 1 .. Len(s)
        PROVE  s[i] = Frame(received' - Len(s) + i)
    <3>1. CASE i = Len(o) + 1
      <4>1. received' - Len(s) + i = received + 1
        BY <3>1, <1>2, <1>3, <1>6, <1>8
      <4> QED BY <4>1, <3>1, <1>4, <1>8
    <3>2. CASE i \in 1 .. Len(o)
      <4>1. o[i] = Frame(received - Len(o) + i)
        BY <3>2, <1>1, <1>3, <1>6 DEF Waiting
      <4>2. received' - Len(s) + i = received - Len(o) + i
        BY <3>2, <1>2, <1>3, <1>6, <1>8
      <4> QED BY <4>1, <4>2, <3>2, <1>8
    <3> QED BY <3>1, <3>2, <1>3, <1>6, <1>8
  <2>3. buffer.offset < Len(Head(s))
    <3>1. CASE o = <<>>
      <4>1. buffer.offset = 0 /\ Len(o) = 0
        BY <3>1, <1>1, <1>6 DEF Waiting
      <4>2. Head(s) = F
        BY <4>1, <1>8
      <4> QED BY <4>1, <4>2, <1>5
    <3>2. CASE o # <<>>
      <4>1. buffer.offset < Len(Head(o))
        BY <3>2, <1>1, <1>6 DEF Waiting
      <4>2. Head(s) = Head(o)
        BY <3>2, <1>3, <1>5, <1>6, <1>7, HeadTailAppend
      <4> QED BY <4>1, <4>2
    <3> QED BY <3>1, <3>2
  <2>4. DOMAIN s = 1 .. Len(s)
    BY <1>8
  <2> QED BY <2>1, <2>2, <2>3, <2>4, <1>8, <1>9 DEF Waiting
<1>13. Stream' /\ \A d, k : Comes(d, k) => Comes(d, k)'
  <2>1. PICK q, e, r : q = Unread /\ e = ToFrame /\ r = ToPlace
    OBVIOUS
  <2>2. PICK w : w = received
    OBVIOUS
  <2>3. q \in Seq(Bytes) /\ w \in Nat /\ Piece(q, e, r, w)
    BY <1>1, <1>3, <2>1, <2>2, Sequences DEF Stream
  <2>4. Piece(q, e, r, w + 1)
        /\ \A d, k : GoesOn(q, e, r, w, d, k) => GoesOn(q, e, r, w + 1, d, k)
    BY <2>3, PieceStays
  <2>5. q = Unread' /\ e = ToFrame' /\ r = ToPlace' /\ w + 1 = received'
    BY <2>1, <2>2, <1>2, <1>11
  <2> QED BY <2>1, <2>2, <2>4, <2>5 DEF Stream, Comes
<1>14. Reading'
  BY <1>1, <1>2, <1>11, <1>13 DEF Reading
<1>15. WholeDatagrams' /\ (aborted' => chunk' = <<>>)
  <2>1. Len(All) \in Nat
    BY <1>1, Sequences
  <2>2. WholeDatagrams'
    BY <1>1, <1>2, <1>3, <2>1 DEF WholeDatagrams, All
  <2> QED BY <2>2, <1>1, <1>2
<1> QED BY <1>10, <1>12, <1>13, <1>14, <1>15 DEF IInv
\* Bytes are written into the tunnel.
LEMMA WriteNetKeeps ==
  ASSUME IInv, NEW n \in 1 .. MaxWrite, WriteNet(n)
  PROVE  IInv'
<1>1. /\ Types /\ Waiting /\ Stream /\ Reading
      /\ (aborted => chunk = <<>>) /\ WholeDatagrams
  BY DEF IInv
<1>2. /\ buffer.frames # <<>> /\ buffer.offset + n <= Len(Head(buffer.frames))
      /\ wire' = wire \o SubSeq(Head(buffer.frames), buffer.offset + 1, buffer.offset + n)
      /\ buffer' = Advanced(buffer, buffer.offset + n)
      /\ UNCHANGED <<received, chunk, cached, out, written, aborted, glued>>
  BY DEF WriteNet
<1>3. PICK o : o = buffer.frames
  OBVIOUS
<1>4. PICK c : c = buffer.offset
  OBVIOUS
<1>5. /\ o \in Seq(Seq(Bytes)) /\ c \in Nat /\ n \in Nat \ {0} /\ received \in 0 .. Len(Lengths)
      /\ received \in Nat /\ o # <<>>
      /\ buffer \in [frames : Seq(Seq(Bytes)), offset : Nat]
  <2>1. n \in Nat \ {0}
    BY Constants DEF MaxWrite
  <2> QED BY <1>1, <1>2, <1>3, <1>4, <2>1, Sequences DEF Types
<1>6. /\ Len(o) \in Nat /\ Len(o) >= 1 /\ Len(o) <= received /\ c < Len(Head(o))
      /\ \A i \in 1 .. Len(o) : o[i] = Frame(received - Len(o) + i)
  <2>1. Len(o) \in Nat /\ Len(o) >= 1 /\ DOMAIN o = 1 .. Len(o)
    BY <1>5
  <2> QED BY <2>1, <1>1, <1>3, <1>4, <1>5 DEF Waiting
<1>7. PICK e : e = ToFrame
  OBVIOUS
<1>8. PICK r : r = ToPlace
  OBVIOUS
<1>9. /\ e = received - Len(o) + 1 /\ e \in 1 .. received /\ e \in Ids
      /\ r = c + 1 /\ r \in 1 .. Size(e) /\ r + n <= Size(e) + 1
      /\ Head(o) = Frame(e) /\ Len(Frame(e)) = Size(e) /\ Size(e) \in Nat
  <2>1. e = received - Len(o) + 1 /\ r = c + 1
    BY <1>3, <1>4, <1>7, <1>8 DEF ToFrame, ToPlace
  <2>2. e \in 1 .. received /\ e \in Ids
    BY <2>1, <1>5, <1>6, Constants
  <2>3. Head(o) = Frame(e)
    <3>1. Head(o) = o[1] /\ 1 \in 1 .. Len(o)
      BY <1>5, <1>6
    <3> QED BY <3>1, <2>1, <1>6
  <2>4. Len(Frame(e)) = Size(e) /\ Size(e) \in Nat
    BY <2>2, Frames, Constants
  <2>5. c + n <= Size(e) /\ c < Size(e)
    BY <2>3, <2>4, <1>2, <1>3, <1>4, <1>6
  <2> QED BY <2>1, <2>2, <2>3, <2>4, <2>5, <1>5
<1>10. PICK q : q = Unread
  OBVIOUS
<1>11. PICK x : x = SubSeq(Frame(e), r, r + n - 1)
  OBVIOUS
<1>12. wire' = wire \o x
  <2>1. c + 1 = r /\ c + n = r + n - 1
    BY <1>5, <1>9
  <2> QED BY <2>1, <1>2, <1>3, <1>4, <1>9, <1>11
<1>13. x \in Seq(Bytes)
  <2>1. Frame(e) \in Seq(Bytes) /\ Len(Frame(e)) = Size(e)
    BY <1>9, Frames
  <2>2. PICK z \in Nat : z = Size(e)
    BY <1>9
  <2>3. r \in 1 .. z /\ r + n <= z + 1 /\ n \in Nat \ {0}
    BY <2>2, <1>5, <1>9
  <2>4. r \in Nat \ {0} /\ r + n - 1 \in 0 .. z
    BY <2>2, <2>3
  <2>5. r + n - 1 \in 0 .. Len(Frame(e))
    BY <2>1, <2>2, <2>4
  <2> QED BY <1>11, <2>1, <2>4, <2>5, Part
<1>14. Unread' = q \o x /\ All' = All /\ wire' \in Seq(Bytes)
  <2>1. chunk \in Seq(Bytes) /\ wire \in Seq(Bytes) /\ chunk' = chunk
    BY <1>1, <1>2 DEF Types
  <2>2. chunk \o (wire \o x) = (chunk \o wire) \o x
    <3>1. PICK v \in Seq(Bytes) : v = chunk
      BY <2>1
    <3>2. PICK y \in Seq(Bytes) : y = wire
      BY <2>1
    <3>3. (v \o y) \o x = v \o (y \o x)
      BY <1>13, ConcatAssociative, SMTT(60)
    <3> QED BY <3>1, <3>2, <3>3
  <2>3. wire \o x \in Seq(Bytes)
    BY <2>1, <1>13, ConcatProperties
  <2> QED BY <2>1, <2>2, <2>3, <1>2, <1>10, <1>12 DEF Unread, All
<1>15. /\ q \in Seq(Bytes) /\ Piece(q, e, r, received)
  BY <1>1, <1>7, <1>8, <1>10, Sequences DEF Stream
<1>16. /\ buffer' \in [frames : Seq(Seq(Bytes)), offset : Nat] /\ Waiting'
       /\ r + n <= Size(e) => ToFrame' = e /\ ToPlace' = r + n
       /\ r + n = Size(e) + 1 => ToFrame' = e + 1 /\ ToPlace' = 1
  <2>1. CASE c + n = Size(e)
    <3>1. buffer' = [frames |-> Tail(o), offset |-> 0]
      BY <2>1, <1>2, <1>3, <1>4, <1>9 DEF Advanced
    <3>2. PICK s : s = Tail(o)
      OBVIOUS
    <3>3. /\ s \in Seq(Seq(Bytes)) /\ Len(s) = Len(o) - 1
          /\ \A i \in 1 .. Len(s) : s[i] = o[i + 1]
      BY <3>2, <1>5, HeadTailProperties
    <3>4. buffer'.frames = s /\ buffer'.offset = 0
      BY <3>1, <3>2
    <3>5. ASSUME NEW i \in 1 .. Len(s)
          PROVE  s[i] = Frame(received - Len(s) + i)
      <4>1. PICK h \in 1 .. Len(o) : h = i + 1
        BY <3>3, <1>6
      <4>2. received - Len(o) + h = received - Len(s) + i
        BY <4>1, <3>3, <1>5, <1>6
      <4> QED BY <4>1, <4>2, <3>3, <1>6
    <3>6. s # <<>> => 0 < Len(Head(s))
      <4> SUFFICES ASSUME s # <<>> PROVE 0 < Len(Head(s))
        OBVIOUS
      <4>1. 1 \in 1 .. Len(s) /\ Head(s) = s[1]
        BY <3>3
      <4>2. PICK b : b = received - Len(s) + 1
        OBVIOUS
      <4>3. b \in Ids
        <5>1. Len(s) \in Nat /\ Len(s) >= 1 /\ Len(s) < received
          BY <4>1, <3>3, <1>5, <1>6
        <5>2. b \in 1 .. received
          BY <5>1, <4>2, <1>5
        <5> QED BY <5>2, <1>5, Constants
      <4>4. Head(s) = Frame(b)
        BY <4>1, <4>2, <3>5
      <4> QED BY <4>3, <4>4, Frames, Constants
    <3>7. Waiting'
      <4>1. DOMAIN s = 1 .. Len(s) /\ Len(s) <= received /\ received' = received
        BY <3>3, <1>2, <1>5, <1>6, SMTT(60)
      <4> QED BY <4>1, <3>4, <3>5, <3>6 DEF Waiting
    <3>8. ToFrame' = e + 1 /\ ToPlace' = 1
      <4>1. ToFrame' = received - Len(s) + 1 /\ ToPlace' = 1
        BY <3>4, <1>2 DEF ToFrame, ToPlace
      <4> QED BY <4>1, <3>3, <1>5, <1>6, <1>9
    <3>9. r + n = Size(e) + 1
      BY <2>1, <1>5, <1>9
    <3>10. ~(r + n <= Size(e))
      BY <3>9, <1>9
    <3> QED BY <3>1, <3>2, <3>3, <3>7, <3>8, <3>10
  <2>2. CASE c + n # Size(e)
    <3>1. buffer' = [buffer EXCEPT !.offset = c + n]
      BY <2>2, <1>2, <1>3, <1>4, <1>9 DEF Advanced
    <3>2. buffer'.frames = o /\ buffer'.offset = c + n
      BY <3>1, <1>3, <1>5
    <3>3. c + n < Len(Head(o)) /\ r + n = c + n + 1 /\ r + n <= Size(e)
      <4>1. c + n <= Size(e) /\ r + n = c + n + 1
        BY <1>5, <1>9
      <4>2. c + n < Size(e)
        <5>1. c + n \in Int /\ Size(e) \in Int
          BY <1>5, <1>9
        <5> QED BY <5>1, <4>1, <2>2
      <4>3. Len(Head(o)) = Size(e)
        BY <1>9
      <4> QED BY <4>1, <4>2, <4>3, <1>5, <1>9
    <3>4. Waiting'
      BY <3>2, <3>3, <1>1, <1>2, <1>3, <1>5 DEF Waiting
    <3>5. ToFrame' = e /\ ToPlace' = r + n
      BY <3>2, <3>3, <1>2, <1>3, <1>7 DEF ToFrame, ToPlace
    <3>6. r + n # Size(e) + 1
      BY <3>3, <1>9
    <3>7. buffer' \in [frames : Seq(Seq(Bytes)), offset : Nat]
      <4>1. c + n \in Nat
        BY <1>5
      <4> QED BY <3>1, <4>1, <1>5
    <3> QED BY <3>4, <3>5, <3>6, <3>7
  <2> QED BY <2>1, <2>2
<1>17. PICK f, t : f = ToFrame' /\ t = ToPlace'
  OBVIOUS
<1>18. Stream'
  <2>1. Piece(q \o x, f, t, received)
    BY <1>5, <1>9, <1>11, <1>15, <1>16, <1>17, MorePiece
  <2> QED BY <2>1, <1>2, <1>14, <1>17 DEF Stream
<1>19. \A d, k : Comes(d, k) => Comes(d, k)'
  <2> SUFFICES ASSUME NEW d, NEW k, Comes(d, k)
               PROVE  Comes(d, k)'
    OBVIOUS
  <2>1. GoesOn(q, e, r, received, d, k)
    BY <1>7, <1>8, <1>10 DEF Comes
  <2>2. GoesOn(q \o x, f, t, received, d, k)
    BY <2>1, <1>5, <1>9, <1>11, <1>15, StillFirst
  <2> QED BY <2>2, <1>2, <1>14, <1>17 DEF Comes
<1>20. Types'
  BY <1>1, <1>2, <1>14, <1>16 DEF Types
<1>21. Reading'
  BY <1>1, <1>2, <1>14, <1>19 DEF Reading
<1>22. WholeDatagrams' /\ (aborted' => chunk' = <<>>)
  BY <1>1, <1>2 DEF WholeDatagrams
<1> QED BY <1>16, <1>18, <1>20, <1>21, <1>22 DEF IInv
\* What the bytes of a datagram are worth: those that were cached and those
\* that follow in the stream make the datagram again.
LEMMA Completed ==
  ASSUME NEW d \in Ids, NEW l \in 0 .. Lengths[d], NEW m \in 0 .. l,
         NEW b, b = SubSeq(Datagram(d), 1, Lengths[d] - l),
         NEW x \in Seq(Bytes), Len(x) = m,
         \A j \in 1 .. m : x[j] = Frame(d)[Size(d) - l + j]
  PROVE  b \o x = SubSeq(Datagram(d), 1, Lengths[d] - (l - m))
<1>1. /\ Lengths[d] \in Nat /\ Datagram(d) \in Seq(Bytes) /\ Len(Datagram(d)) = Lengths[d]
      /\ \A j \in 1 .. Lengths[d] : Frame(d)[2 + j] = Datagram(d)[j]
  <2>1. \A j \in 1 .. Lengths[d] : Frame(d)[2 + j] = Datagram(d)[j]
    <3>1. /\ \A j \in 1 .. Lengths[d] : Frame(d)[2 + j] = <<"data", d, j>>
          /\ \A j \in 1 .. Lengths[d] : Datagram(d)[j] = <<"data", d, j>>
      BY Frames
    <3> QED BY <3>1, Zenon
  <2> QED BY <2>1, Frames, Constants
<1>2. PICK a : a = Lengths[d] - l
  OBVIOUS
<1>3. PICK z : z = Lengths[d] - (l - m)
  OBVIOUS
<1>4. /\ a \in Nat /\ z \in Nat /\ a + m = z /\ a <= z /\ z <= Lengths[d] /\ l \in Nat /\ m \in Nat
      /\ Size(d) - l = 2 + a
  <2>1. l \in Nat /\ m \in Nat /\ m <= l /\ l <= Lengths[d]
    BY <1>1
  <2>2. /\ a \in Nat /\ z \in Nat
        /\ a + m = z /\ a <= z /\ z <= Lengths[d]
    BY <2>1, <1>1, <1>2, <1>3, SMTT(60)
  <2>3. Size(d) - l = 2 + a
    BY <2>1, <1>1, <1>2 DEF Size
  <2> QED BY <2>1, <2>2, <2>3
<1>5. PICK g : g = SubSeq(Datagram(d), 1, z)
  OBVIOUS
<1>6. /\ g \in Seq(Bytes) /\ Len(g) = z /\ \A i \in 1 .. z : g[i] = Datagram(d)[i]
  <2>1. z \in 0 .. Len(Datagram(d)) /\ 1 \in Nat \ {0}
    BY <1>1, <1>4
  <2>2. /\ g \in Seq(Bytes) /\ Len(g) = IF 1 <= z THEN z - 1 + 1 ELSE 0
        /\ \A i \in 1 .. z - 1 + 1 : g[i] = Datagram(d)[1 + i - 1]
    BY <2>1, <1>1, <1>5, Part
  <2>3. z - 1 + 1 = z /\ \A i \in 1 .. z : 1 + i - 1 = i
    BY <1>4
  <2> QED BY <2>2, <2>3, <1>4
<1>7. /\ b \in Seq(Bytes) /\ Len(b) = a /\ \A i \in 1 .. a : b[i] = Datagram(d)[i]
  <2>1. a \in 0 .. Len(Datagram(d)) /\ 1 \in Nat \ {0}
    BY <1>1, <1>4
  <2>2. /\ b \in Seq(Bytes) /\ Len(b) = IF 1 <= a THEN a - 1 + 1 ELSE 0
        /\ \A i \in 1 .. a - 1 + 1 : b[i] = Datagram(d)[1 + i - 1]
    BY <2>1, <1>1, <1>2, <1>4, Part, SMTT(60)
  <2>3. a - 1 + 1 = a /\ \A i \in 1 .. a : 1 + i - 1 = i
    BY <1>4
  <2> QED BY <2>2, <2>3, <1>4
<1>8. PICK u : u = b \o x
  OBVIOUS
<1>9. /\ u \in Seq(Bytes) /\ Len(u) = z
      /\ \A i \in 1 .. z : u[i] = IF i <= a THEN b[i] ELSE x[i - a]
  <2>1. /\ u \in Seq(Bytes) /\ Len(u) = Len(b) + Len(x)
        /\ \A i \in 1 .. Len(b) + Len(x) :
              u[i] = IF i <= Len(b) THEN b[i] ELSE x[i - Len(b)]
    BY <1>7, <1>8, ConcatProperties
  <2>2. Len(b) + Len(x) = z
    BY <1>4, <1>7
  <2> QED BY <2>1, <2>2, <1>7
<1>10. ASSUME NEW i \in 1 .. z
       PROVE  u[i] = g[i]
  <2>1. CASE i <= a
    <3>1. i \in 1 .. a
      BY <2>1, <1>4
    <3> QED BY <2>1, <3>1, <1>6, <1>7, <1>9
  <2>2. CASE i > a
    <3>1. PICK j \in 1 .. m : j = i - a
      <4>1. i - a \in 1 .. m
        BY <2>2, <1>4
      <4> QED BY <4>1
    <3>2. u[i] = x[j]
      <4>1. ~(i <= a)
        BY <2>2, <1>4
      <4> QED BY <4>1, <3>1, <1>9
    <3>3. Size(d) - l + j = 2 + i /\ i \in 1 .. Lengths[d]
      BY <3>1, <1>4, <1>1
    <3> QED BY <3>1, <3>2, <3>3, <1>1, <1>6
  <2> QED BY <2>1, <2>2, <1>4
<1>11. u = g
  <2>1. u \in [1 .. z -> Bytes] /\ g \in [1 .. z -> Bytes]
    BY <1>6, <1>9, LenProperties
  <2>2. \A i \in 1 .. z : u[i] = g[i]
    BY <1>10
  <2>3. DOMAIN u = 1 .. z /\ DOMAIN g = 1 .. z
    BY <2>1
  <2>4. u = [i \in 1 .. z |-> u[i]] /\ g = [i \in 1 .. z |-> g[i]]
    BY <2>1
  <2> QED BY <2>2, <2>4, Zenon
<1> QED BY <1>3, <1>5, <1>8, <1>11
\* The first bytes of a datagram that follow its header in the stream.
LEMMA Begun ==
  ASSUME NEW d \in Ids, NEW x \in Seq(Bytes), Len(x) <= Lengths[d],
         \A j \in 1 .. Len(x) : x[j] = Frame(d)[2 + j]
  PROVE  x = SubSeq(Datagram(d), 1, Len(x))
<1>1. /\ Lengths[d] \in Nat /\ Datagram(d) \in Seq(Bytes) /\ Len(Datagram(d)) = Lengths[d]
      /\ \A j \in 1 .. Lengths[d] : Frame(d)[2 + j] = Datagram(d)[j]
  <2>1. \A j \in 1 .. Lengths[d] : Frame(d)[2 + j] = Datagram(d)[j]
    <3>1. /\ \A j \in 1 .. Lengths[d] : Frame(d)[2 + j] = <<"data", d, j>>
          /\ \A j \in 1 .. Lengths[d] : Datagram(d)[j] = <<"data", d, j>>
      BY Frames
    <3> QED BY <3>1, Zenon
  <2> QED BY <2>1, Frames, Constants
<1>2. PICK z \in Nat : z = Len(x)
  OBVIOUS
<1>3. z \in 0 .. Len(Datagram(d)) /\ \A j \in 1 .. z : j \in 1 .. Lengths[d]
  BY <1>1, <1>2
<1>4. PICK g : g = SubSeq(Datagram(d), 1, z)
  OBVIOUS
<1>5. g \in Seq(Bytes) /\ Len(g) = z /\ \A i \in 1 .. z : g[i] = Datagram(d)[i]
  <2>1. /\ g \in Seq(Bytes) /\ Len(g) = IF 1 <= z THEN z - 1 + 1 ELSE 0
        /\ \A i \in 1 .. z - 1 + 1 : g[i] = Datagram(d)[1 + i - 1]
    BY <1>1, <1>3, <1>4, Part
  <2>2. z - 1 + 1 = z /\ (~(1 <= z) => z = 0) /\ \A i \in 1 .. z : 1 + i - 1 = i
    BY <1>2
  <2> QED BY <2>1, <2>2
<1>6. \A i \in 1 .. z : x[i] = g[i]
  BY <1>1, <1>2, <1>3, <1>5
<1>7. x = g
  BY <1>2, <1>5, <1>6, SeqEqual
<1> QED BY <1>2, <1>4, <1>7

\* A sequence is what is in front and what is behind.
LEMMA CutInTwo ==
  ASSUME NEW q \in Seq(Bytes), NEW n \in 1 .. Len(q)
  PROVE  SubSeq(q, 1, n) \o SubSeq(q, n + 1, Len(q)) = q
<1>1. 1 \in 1 .. Len(q) + 1 /\ n \in 1 - 1 .. Len(q) /\ Len(q) \in n .. Len(q)
  OBVIOUS
<1>2. SubSeq(q, 1, n) \o SubSeq(q, n + 1, Len(q)) = SubSeq(q, 1, Len(q))
  BY <1>1, ConcatAdjacentSubSeq
<1> QED BY <1>2, SubSeqFull

\* Bytes taken from the front of what was read are taken from the front of the
\* stream.
LEMMA RestOfBoth ==
  ASSUME NEW q \in Seq(Bytes), NEW x \in Seq(Bytes), NEW m \in 1 .. Len(q)
  PROVE  SubSeq(q, m + 1, Len(q)) \o x = SubSeq(q \o x, m + 1, Len(q \o x))
<1>1. PICK u : u = q \o x
  OBVIOUS
<1>2. PICK v : v = SubSeq(q, m + 1, Len(q))
  OBVIOUS
<1>3. PICK y : y = v \o x
  OBVIOUS
<1>4. PICK g : g = SubSeq(u, m + 1, Len(u))
  OBVIOUS
<1>5. PICK a \in Nat, c \in Nat : a = Len(q) /\ c = Len(x)
  OBVIOUS
<1>6. m \in Nat /\ m <= a /\ m + 1 \in Nat \ {0}
  BY <1>5
<1>7. /\ u \in Seq(Bytes) /\ Len(u) = a + c
      /\ \A i \in 1 .. a + c : u[i] = IF i <= a THEN q[i] ELSE x[i - a]
  BY <1>1, <1>5, ConcatProperties
<1>8. /\ v \in Seq(Bytes) /\ Len(v) = a - m /\ \A i \in 1 .. a - m : v[i] = q[m + i]
  <2>1. /\ v \in Seq(Bytes) /\ Len(v) = IF m + 1 <= a THEN a - (m + 1) + 1 ELSE 0
        /\ \A i \in 1 .. a - (m + 1) + 1 : v[i] = q[m + 1 + i - 1]
    BY <1>2, <1>5, <1>6, Part
  <2>2. a - (m + 1) + 1 = a - m /\ \A i \in 1 .. a - m : m + 1 + i - 1 = m + i
    BY <1>6
  <2> QED BY <2>1, <2>2, <1>6
<1>9. /\ y \in Seq(Bytes) /\ Len(y) = a - m + c
      /\ \A i \in 1 .. a - m + c : y[i] = IF i <= a - m THEN v[i] ELSE x[i - (a - m)]
  BY <1>3, <1>5, <1>8, ConcatProperties, SMTT(60)
<1>10. /\ g \in Seq(Bytes) /\ Len(g) = a - m + c
       /\ \A i \in 1 .. a - m + c : g[i] = u[m + i]
  <2>0. a + c \in 0 .. Len(u)
    BY <1>7
  <2>1. /\ g \in Seq(Bytes) /\ Len(g) = IF m + 1 <= a + c THEN a + c - (m + 1) + 1 ELSE 0
        /\ \A i \in 1 .. a + c - (m + 1) + 1 : g[i] = u[m + 1 + i - 1]
    BY <2>0, <1>4, <1>6, <1>7, Part
  <2>2. a + c - (m + 1) + 1 = a - m + c /\ \A i \in 1 .. a - m + c : m + 1 + i - 1 = m + i
    BY <1>6
  <2> QED BY <2>1, <2>2, <1>6
<1>11. ASSUME NEW i \in 1 .. a - m + c
       PROVE  y[i] = g[i]
  <2>1. PICK j \in 1 .. a + c : j = m + i
    <3>1. m + i \in 1 .. a + c
      BY <1>6
    <3> QED BY <3>1
  <2>2. g[i] = u[j]
    BY <2>1, <1>10
  <2>3. CASE i <= a - m
    <3>1. j <= a /\ i \in 1 .. a - m
      BY <2>1, <2>3, <1>6
    <3> QED BY <2>1, <2>2, <2>3, <3>1, <1>7, <1>8, <1>9
  <2>4. CASE i > a - m
    <3>1. ~(j <= a) /\ ~(i <= a - m) /\ j - a = i - (a - m)
      BY <2>1, <2>4, <1>6
    <3> QED BY <2>2, <3>1, <1>7, <1>9
  <2> QED BY <2>3, <2>4, <1>6
<1>12. y = g
  BY <1>9, <1>10, <1>11, SeqEqual
<1> QED BY <1>1, <1>2, <1>3, <1>4, <1>12

\* The next datagram comes out.
LEMMA ComesOut ==
  ASSUME Types, WholeDatagrams, ~glued, NEW d, d = Len(All) + 1, d \in 1 .. received, d \in Ids,
         out' = Append(out, Datagram(d)),
         UNCHANGED <<written, received>>
  PROVE  WholeDatagrams' /\ Len(All)' = d /\ out' \in Seq(Seq(Bytes))
<1>1. /\ written \in Seq(Seq(Bytes)) /\ out \in Seq(Seq(Bytes))
      /\ Datagram(d) \in Seq(Bytes)
  BY Frames DEF Types
<1>2. PICK D : D = Datagram(d)
  OBVIOUS
<1>3. PICK a : a = All
  OBVIOUS
<1>4. a \in Seq(Seq(Bytes)) /\ Len(a) \in Nat
  BY <1>3, Sequences
<1>5. All' = Append(a, D)
  <2>1. Append(out, D) = out \o <<D>> /\ Append(a, D) = a \o <<D>>
    BY <1>1, <1>2, <1>4, AppendIsConcat
  <2>2. <<D>> \in Seq(Seq(Bytes))
    BY <1>1, <1>2
  <2>3. written \o (out \o <<D>>) = (written \o out) \o <<D>>
    BY <2>2, <1>1, ConcatAssociative
  <2> QED BY <2>1, <2>3, <1>2, <1>3 DEF All
<1>6. /\ Len(Append(a, D)) = Len(a) + 1 /\ Append(a, D) \in Seq(Seq(Bytes))
      /\ \A i \in 1 .. Len(a) : Append(a, D)[i] = a[i]
      /\ Append(a, D)[Len(a) + 1] = D
  BY <1>1, <1>2, <1>4, AppendProperties
<1>7. out' \in Seq(Seq(Bytes))
  BY <1>1, AppendProperties
<1>8. \A i \in DOMAIN All' : All'[i] = Datagram(i)
  <2>1. \A i \in DOMAIN a : a[i] = Datagram(i)
    BY <1>3 DEF WholeDatagrams, All
  <2>2. DOMAIN All' = 1 .. d /\ DOMAIN a = 1 .. d - 1
    BY <1>3, <1>4, <1>5, <1>6
  <2>3. ASSUME NEW i \in 1 .. d PROVE Append(a, D)[i] = Datagram(i)
    <3>1. CASE i = d
      BY <3>1, <1>2, <1>3, <1>6
    <3>2. CASE i # d
      <4>1. i \in 1 .. d - 1 /\ i \in 1 .. Len(a)
        BY <3>2, <1>3, <1>4
      <4> QED BY <4>1, <2>1, <2>2, <1>6
    <3> QED BY <3>1, <3>2
  <2> QED BY <2>2, <2>3, <1>5
<1>9. Len(All') = d /\ d <= received'
  BY <1>3, <1>4, <1>5, <1>6
<1>10. WholeDatagrams'
  BY <1>8, <1>9 DEF WholeDatagrams, All
<1> QED BY <1>7, <1>9, <1>10
\* All of a datagram is the datagram.
LEMMA AllOfIt ==
  ASSUME NEW d \in Ids
  PROVE  SubSeq(Datagram(d), 1, Lengths[d]) = Datagram(d)
<1>1. Datagram(d) \in Seq(Bytes) /\ Len(Datagram(d)) = Lengths[d]
  BY Frames
<1> QED BY <1>1, SubSeqFull

\* The netThread reads the rest of a datagram.
LEMMA ReadMoreKeeps ==
  ASSUME IInv, NEW n \in 1 .. MaxLine, n <= Len(wire), ReadMore(n)
  PROVE  IInv'
<1>1. /\ Types /\ Waiting /\ Stream /\ Reading
      /\ (aborted => chunk = <<>>) /\ WholeDatagrams
  BY DEF IInv
<1>2. PICK q : q = wire
  OBVIOUS
<1>3. PICK x : x = SubSeq(q, 1, n)
  OBVIOUS
<1>4. PICK l : l = cached.left
  OBVIOUS
<1>5. PICK b : b = cached.bytes
  OBVIOUS
<1>6. /\ chunk = <<>> /\ ~aborted /\ l # 0
      /\ out' = IF l - n = 0 THEN Append(out, b \o x) ELSE out
      /\ cached' = IF l - n = 0 THEN Nothing
                   ELSE [bytes |-> b \o x, left |-> IF l - n < MinLeft THEN MinLeft ELSE l - n]
      /\ glued' = (glued \/ l - n < 0)
      /\ wire' = SubSeq(q, n + 1, Len(q))
      /\ UNCHANGED <<buffer, received, chunk, written, aborted>>
  BY <1>2, <1>3, <1>4, <1>5 DEF ReadMore
<1>7. /\ q \in Seq(Bytes) /\ n \in Nat /\ n >= 1 /\ n \in 1 .. Len(q) /\ n + 1 \in 1 .. Len(q) + 1
      /\ l \in Int /\ b \in Seq(Bytes) /\ received \in 0 .. Len(Lengths) /\ received \in Nat
      /\ out \in Seq(Seq(Bytes)) /\ Len(q) \in Nat /\ l >= MinLeft /\ MinLeft \in Int
  <2>1. n \in Nat /\ n >= 1
    BY Constants
  <2>2. /\ q \in Seq(Bytes) /\ l \in Int /\ b \in Seq(Bytes) /\ received \in 0 .. Len(Lengths)
        /\ out \in Seq(Seq(Bytes)) /\ l >= MinLeft
    BY <1>1, <1>2, <1>4, <1>5 DEF Types
  <2> QED BY <2>1, <2>2, <1>2, Constants
<1>8. x \in Seq(Bytes) /\ Len(x) = n /\ \A i \in 1 .. n : x[i] = q[i]
  <2>1. /\ x \in Seq(Bytes) /\ Len(x) = IF 1 <= n THEN n - 1 + 1 ELSE 0
        /\ \A i \in 1 .. n - 1 + 1 : x[i] = q[1 + i - 1]
    BY <1>3, <1>7, Part
  <2>2. n - 1 + 1 = n /\ \A i \in 1 .. n : 1 + i - 1 = i
    BY <1>7
  <2> QED BY <2>1, <2>2, <1>7
<1>9. PICK e, r : e = ToFrame /\ r = ToPlace
  OBVIOUS
<1>10. Unread = q /\ Piece(q, e, r, received)
  BY <1>1, <1>2, <1>6, <1>9, Sequences DEF Stream
<1>11. PICK s : s = SubSeq(q, n + 1, Len(q))
  OBVIOUS
<1>12. s \in Seq(Bytes) /\ Piece(s, e, r, received)
  BY <1>7, <1>10, <1>11, RestOfPiece
<1>13. Unread' = s /\ ToFrame' = e /\ ToPlace' = r /\ received' = received /\ wire' \in Seq(Bytes)
  <2>1. wire' = s /\ chunk' = <<>>
    BY <1>6, <1>11
  <2>2. <<>> \o s = s
    BY <1>12, ConcatEmptySeq
  <2> QED BY <2>1, <2>2, <1>6, <1>9, <1>12 DEF Unread, ToFrame, ToPlace
<1>14. Stream' /\ Waiting' /\ (aborted' => chunk' = <<>>)
  <2>1. Stream'
    BY <1>12, <1>13 DEF Stream
  <2>2. Waiting'
    BY <1>1, <1>6 DEF Waiting
  <2> QED BY <2>1, <2>2, <1>6
<1>15. Types'
  <2>1. b \o x \in Seq(Bytes)
    BY <1>7, <1>8, ConcatProperties
  <2>2. out' \in Seq(Seq(Bytes))
    BY <1>6, <1>7, <2>1, AppendProperties
  <2>3. cached' \in [bytes : Seq(Bytes), left : Int] /\ cached'.left >= MinLeft
    <3>1. CASE l - n = 0
      <4>1. cached' = [bytes |-> <<>>, left |-> 0]
        BY <3>1, <1>6 DEF Nothing
      <4> QED BY <4>1, Constants
    <3>2. CASE l - n # 0
      <4>1. PICK m \in Int : m = (IF l - n < MinLeft THEN MinLeft ELSE l - n) /\ m >= MinLeft
        <5>1. CASE l - n < MinLeft
          BY <5>1, <1>7
        <5>2. CASE ~(l - n < MinLeft)
          <6>1. l - n \in Int /\ l - n >= MinLeft
            BY <5>2, <1>7
          <6> QED BY <5>2, <6>1
        <5> QED BY <5>1, <5>2
      <4>2. cached' = [bytes |-> b \o x, left |-> m]
        BY <3>2, <4>1, <1>6
      <4> QED BY <4>1, <4>2, <2>1
    <3> QED BY <3>1, <3>2
  <2>4. glued' \in BOOLEAN
    BY <1>6
  <2> QED BY <1>1, <1>6, <1>13, <2>2, <2>3, <2>4 DEF Types
<1>16. ASSUME glued'
       PROVE  Reading' /\ WholeDatagrams'
  BY <1>16 DEF Reading, WholeDatagrams
<1>17. ASSUME ~glued'
       PROVE  Reading' /\ WholeDatagrams'
  <2>1. ~glued /\ l >= n
    <3>1. ~glued /\ ~(l - n < 0)
      BY <1>6, <1>17
    <3> QED BY <3>1, <1>7
  <2>2. PICK d : d = Len(All) + 1
    OBVIOUS
  <2>3. /\ d \in Ids /\ l <= Lengths[d] /\ l > 0
        /\ b = SubSeq(Datagram(d), 1, Lengths[d] - l)
        /\ Comes(d, Size(d) - l + 1)
    BY <2>1, <2>2, <1>1, <1>4, <1>5, <1>6, <1>7, SMTT(60) DEF Reading
  <2>4. Lengths[d] \in Nat /\ Size(d) = 2 + Lengths[d] /\ d \in Nat
    BY <2>3, Constants DEF Size
  <2>5. PICK k \in 1 .. Size(d) : k = Size(d) - l + 1
    <3>1. PICK z \in Nat : z = Lengths[d]
      BY <2>4
    <3>2. l \in 1 .. z
      BY <3>1, <2>3, <1>7
    <3>3. 2 + z - l + 1 \in 1 .. 2 + z
      BY <3>1, <3>2
    <3>4. Size(d) = 2 + z
      BY <3>1, <2>4
    <3>5. Size(d) - l + 1 \in 1 .. Size(d)
      BY <3>1, <3>2, <3>3, <3>4, SMTT(60)
    <3> QED BY <3>5
  <2>6. GoesOn(q, e, r, received, d, k)
    BY <2>3, <2>5, <1>9, <1>10 DEF Comes
  <2>7. k + n <= Size(d) + 1 /\ k + n = Size(d) - (l - n) + 1
    <3>1. PICK z \in Nat : z = Size(d)
      BY <2>4
    <3>2. k = z - l + 1 /\ k \in Nat
      BY <2>5, <3>1
    <3>3. k + n <= z + 1 /\ k + n = z - (l - n) + 1
      BY <3>1, <3>2, <2>1, <1>7, SMTT(60)
    <3> QED BY <3>1, <3>3
  <2>8. /\ d \in 1 .. received /\ \A j \in 1 .. n : q[j] = Frame(d)[k + j - 1]
        /\ k + n <= Size(d) => GoesOn(s, e, r, received, d, k + n)
        /\ k + n = Size(d) + 1 => GoesOn(s, e, r, received, d + 1, 1)
    BY <2>6, <2>7, <1>7, <1>10, <1>11, Taken
  <2>9. b \o x = SubSeq(Datagram(d), 1, Lengths[d] - (l - n))
    <3>1. l \in 0 .. Lengths[d] /\ n \in 0 .. l
      BY <2>1, <2>3, <2>4, <1>7
    <3>2. ASSUME NEW j \in 1 .. n PROVE x[j] = Frame(d)[Size(d) - l + j]
      <4>1. k + j - 1 = Size(d) - l + j
        <5>1. PICK z \in Nat : z = Size(d)
          BY <2>4
        <5>2. k = z - l + 1
          BY <2>5, <5>1
        <5> QED BY <5>1, <5>2, <1>7, SMTT(60)
      <4> QED BY <4>1, <2>8, <1>8
    <3> QED BY <3>1, <3>2, <2>3, <1>8, Completed
  <2>10. CASE l - n = 0
    <3>1. b \o x = Datagram(d)
      <4>1. Lengths[d] - (l - n) = Lengths[d]
        BY <2>4, <2>10
      <4> QED BY <4>1, <2>3, <2>9, AllOfIt
    <3>2. out' = Append(out, Datagram(d)) /\ UNCHANGED <<written, received>>
      BY <3>1, <2>10, <1>6
    <3>3. WholeDatagrams' /\ Len(All)' = d
      BY <3>2, <1>1, <2>1, <2>2, <2>3, <2>8, ComesOut
    <3>4. cached'.left = 0
      BY <2>10, <1>6 DEF Nothing
    <3>5. Comes(d + 1, 1)'
      <4>1. k + n = Size(d) + 1
        BY <2>4, <2>7, <2>10
      <4>2. GoesOn(s, e, r, received, d + 1, 1)
        BY <4>1, <2>8
      <4> QED BY <4>2, <1>13 DEF Comes
    <3> QED BY <3>3, <3>4, <3>5 DEF Reading
  <2>11. CASE l - n > 0
    <3>1. PICK m \in Nat : m = l - n /\ m > 0 /\ m <= Lengths[d] /\ l - n # 0 /\ ~(l - n < MinLeft)
      <4>1. l - n \in Nat /\ l - n > 0 /\ l - n # 0
        BY <2>11, <1>7
      <4>2. l - n <= Lengths[d]
        BY <2>3, <2>4, <1>7, SMTT(60)
      <4>3. ~(l - n < MinLeft)
        BY <4>1, Constants
      <4> QED BY <4>1, <4>2, <4>3
    <3>2. cached' = [bytes |-> b \o x, left |-> m] /\ out' = out
      BY <3>1, <1>6
    <3>3. All' = All /\ WholeDatagrams'
      BY <3>2, <1>1, <1>6, <2>1, <1>17 DEF All, WholeDatagrams
    <3>4. Comes(d, Size(d) - m + 1)'
      <4>1. k + n <= Size(d) /\ k + n = Size(d) - m + 1
        <5>1. PICK z \in Nat : z = Size(d)
          BY <2>4
        <5>2. k + n = z - m + 1
          BY <5>1, <3>1, <2>7
        <5>3. z - m + 1 <= z
          BY <5>1, <3>1
        <5> QED BY <5>1, <5>2, <5>3
      <4>2. GoesOn(s, e, r, received, d, Size(d) - m + 1)
        BY <4>1, <2>8
      <4> QED BY <4>2, <1>13 DEF Comes
    <3>5. cached'.left = m /\ cached'.bytes = SubSeq(Datagram(d), 1, Lengths[d] - m) /\ chunk' = <<>>
      <4>1. b \o x = SubSeq(Datagram(d), 1, Lengths[d] - m)
        BY <3>1, <2>9
      <4>2. chunk' = <<>>
        BY <1>6
      <4> QED BY <3>2, <4>1, <4>2
    <3>6. Len(All)' + 1 = d
      BY <3>3, <2>2
    <3>7. m >= 0 /\ m # 0 /\ m > 0
      BY <3>1
    <3> QED BY <3>1, <3>3, <3>4, <3>5, <3>6, <3>7, <2>3 DEF Reading
  <2> QED BY <2>1, <2>10, <2>11, <1>7
<1> QED BY <1>14, <1>15, <1>16, <1>17 DEF IInv
\* The netThread reads what starts with a frame.
LEMMA ReadFramesKeeps ==
  ASSUME IInv, NEW n \in 1 .. MaxLine, n <= Len(wire), ReadFrames(n)
  PROVE  IInv'
<1>1. /\ Types /\ Waiting /\ Stream /\ Reading /\ WholeDatagrams
  BY DEF IInv
<1>2. PICK q : q = wire
  OBVIOUS
<1>3. /\ chunk = <<>> /\ ~aborted /\ cached.left = 0
      /\ chunk' = SubSeq(q, 1, n) /\ wire' = SubSeq(q, n + 1, Len(q))
      /\ UNCHANGED <<buffer, received, cached, out, written, aborted, glued>>
  BY <1>2 DEF ReadFrames
<1>4. /\ q \in Seq(Bytes) /\ n \in 1 .. Len(q) /\ n \in 0 .. Len(q) /\ n + 1 \in Nat \ {0}
      /\ Len(q) \in 0 .. Len(q)
  BY <1>1, <1>2, Constants DEF Types
<1>5. chunk' \in Seq(Bytes) /\ wire' \in Seq(Bytes)
  BY <1>3, <1>4, Part
<1>6. Unread' = Unread /\ All' = All
  <2>1. Unread = q
    BY <1>1, <1>2, <1>3, Sequences
  <2> QED BY <2>1, <1>3, <1>4, CutInTwo DEF Unread, All
<1>7. Types'
  BY <1>1, <1>3, <1>5 DEF Types
<1>8. Waiting' /\ WholeDatagrams' /\ (aborted' => chunk' = <<>>)
  BY <1>1, <1>3 DEF Waiting, WholeDatagrams
<1>9. ToFrame' = ToFrame /\ ToPlace' = ToPlace /\ received' = received
  BY <1>3 DEF ToFrame, ToPlace
<1>10. Stream' /\ \A d, k : Comes(d, k) => Comes(d, k)'
  BY <1>1, <1>6, <1>9 DEF Stream, Comes
<1>11. Reading'
  BY <1>1, <1>3, <1>6, <1>10 DEF Reading
<1> QED BY <1>7, <1>8, <1>10, <1>11 DEF IInv

\* The proxyThread sends a datagram on.
LEMMA WriteProxyKeeps ==
  ASSUME IInv, WriteProxy
  PROVE  IInv'
<1>1. /\ Types /\ Waiting /\ Stream /\ Reading
      /\ (aborted => chunk = <<>>) /\ WholeDatagrams
  BY DEF IInv
<1>2. /\ out # <<>> /\ written' = Append(written, Head(out)) /\ out' = Tail(out)
      /\ UNCHANGED <<buffer, received, wire, chunk, cached, aborted, glued>>
  BY DEF WriteProxy
<1>3. written \in Seq(Seq(Bytes)) /\ out \in Seq(Seq(Bytes))
  BY <1>1 DEF Types
<1>4. PICK h : h = Head(out)
  OBVIOUS
<1>5. PICK o : o = Tail(out)
  OBVIOUS
<1>6. h \in Seq(Bytes) /\ o \in Seq(Seq(Bytes)) /\ out = <<h>> \o o
  <2>1. h = out[1] /\ 1 \in 1 .. Len(out)
    BY <1>2, <1>3, <1>4
  <2>2. h \in Seq(Bytes)
    BY <2>1, <1>3, ElementOfSeq
  <2>3. o \in Seq(Seq(Bytes)) /\ o = SubSeq(out, 2, Len(out))
    BY <1>2, <1>3, <1>5, HeadTailProperties, TailIsSubSeq
  <2>4. out = SubSeq(out, 1, Len(out)) /\ Len(out) \in Nat /\ 1 <= Len(out)
    BY <1>3, <2>1, SubSeqFull
  <2>5. 1 \in 1 .. Len(out) /\ Len(out) \in 1 .. Len(out)
    BY <2>4
  <2>6. SubSeq(out, 1, Len(out)) = <<out[1]>> \o SubSeq(out, 1 + 1, Len(out))
    BY <2>5, <1>3, SubSeqRecursiveFirst
  <2> QED BY <2>1, <2>2, <2>3, <2>4, <2>6
<1>7. All' = All /\ written' \in Seq(Seq(Bytes)) /\ out' \in Seq(Seq(Bytes))
  <2>1. written' = written \o <<h>> /\ written' \in Seq(Seq(Bytes)) /\ out' = o
    BY <1>2, <1>3, <1>4, <1>5, <1>6, AppendIsConcat, AppendProperties
  <2>2. <<h>> \in Seq(Seq(Bytes))
    BY <1>6
  <2>3. (written \o <<h>>) \o o = written \o (<<h>> \o o)
    BY <2>2, <1>3, <1>6, ConcatAssociative, SMTT(60)
  <2> QED BY <2>1, <2>3, <1>6 DEF All
<1>8. Types'
  BY <1>1, <1>2, <1>7 DEF Types
<1>9. Waiting' /\ (aborted' => chunk' = <<>>)
  BY <1>1, <1>2 DEF Waiting
<1>10. ToFrame' = ToFrame /\ ToPlace' = ToPlace /\ received' = received /\ Unread' = Unread
  BY <1>2 DEF ToFrame, ToPlace, Unread
<1>11. Stream' /\ \A d, k : Comes(d, k) => Comes(d, k)'
  BY <1>1, <1>10 DEF Stream, Comes
<1>12. Reading'
  BY <1>1, <1>2, <1>7, <1>11 DEF Reading
<1>13. WholeDatagrams'
  BY <1>1, <1>2, <1>7 DEF WholeDatagrams, All
<1> QED BY <1>8, <1>9, <1>11, <1>12, <1>13 DEF IInv

\* Nothing happens.
LEMMA NothingKeeps ==
  ASSUME IInv, UNCHANGED vars
  PROVE  IInv'
<1>1. UNCHANGED <<buffer, received, wire, chunk, cached, out, written, aborted, glued>>
  BY DEF vars
<1> QED BY <1>1 DEF IInv, Types, Waiting, Stream, Reading, WholeDatagrams, Unread,
                    ToFrame, ToPlace, All, Comes

\* The frames are taken out of what was read.
LEMMA ParseKeeps ==
  ASSUME IInv, Parse
  PROVE  IInv'
<1>1. /\ Types /\ Waiting /\ Stream /\ Reading
      /\ (aborted => chunk = <<>>) /\ WholeDatagrams
  BY DEF IInv
<1>2. PICK c : c = chunk
  OBVIOUS
<1>3. PICK y : y = wire
  OBVIOUS
<1>4. PICK q : q = c \o y
  OBVIOUS
<1>5. PICK L : L = c[1][3]
  OBVIOUS
<1>6. PICK x : x = SubSeq(c, 3, Len(c))
  OBVIOUS
<1>7. /\ c # <<>> /\ ~aborted
      /\ IF ~IsHeader(c)
         THEN aborted' = TRUE /\ UNCHANGED <<cached, out>>
         ELSE IF Len(x) < L
              THEN cached' = [bytes |-> x, left |-> L - Len(x)] /\ UNCHANGED <<out, aborted>>
              ELSE out' = Append(out, SubSeq(x, 1, L)) /\ UNCHANGED <<cached, aborted>>
      /\ chunk' = IF IsHeader(c) THEN SubSeq(c, 3 + L, Len(c)) ELSE <<>>
      /\ UNCHANGED <<buffer, received, wire, written, glued>>
  BY <1>1, <1>2, <1>5, <1>6 DEF Parse, First, Following
<1>8. /\ c \in Seq(Bytes) /\ y \in Seq(Bytes) /\ q \in Seq(Bytes)
      /\ Len(c) \in Nat /\ Len(c) >= 1 /\ Len(y) \in Nat /\ Len(q) = Len(c) + Len(y)
      /\ received \in 0 .. Len(Lengths) /\ received \in Nat
      /\ out \in Seq(Seq(Bytes)) /\ L \in Nat /\ q[1] = c[1]
  <2>1. /\ c \in Seq(Bytes) /\ y \in Seq(Bytes) /\ received \in 0 .. Len(Lengths)
        /\ out \in Seq(Seq(Bytes)) /\ received \in Nat
    BY <1>1, <1>2, <1>3, Sequences DEF Types
  <2>2. Len(c) \in Nat /\ Len(c) >= 1 /\ Len(y) \in Nat /\ 1 \in 1 .. Len(c)
    BY <2>1, <1>7
  <2>3. c[1] \in Bytes
    BY <2>1, <2>2, ElementOfSeq
  <2>4. L \in Nat
    BY <2>3, <1>5 DEF Bytes
  <2>5. /\ q \in Seq(Bytes) /\ Len(q) = Len(c) + Len(y)
        /\ \A i \in 1 .. Len(c) + Len(y) : q[i] = IF i <= Len(c) THEN c[i] ELSE y[i - Len(c)]
    BY <2>1, <1>4, ConcatProperties
  <2>6. 1 \in 1 .. Len(c) + Len(y) /\ 1 <= Len(c)
    BY <2>2
  <2> QED BY <2>1, <2>2, <2>4, <2>5, <2>6
<1>9. \A i \in 1 .. Len(c) : q[i] = c[i]
  <2>1. \A i \in 1 .. Len(c) + Len(y) : q[i] = IF i <= Len(c) THEN c[i] ELSE y[i - Len(c)]
    BY <1>4, <1>8, ConcatProperties
  <2> QED BY <2>1, <1>8
<1>10. PICK e, r : e = ToFrame /\ r = ToPlace
  OBVIOUS
<1>11. Unread = q /\ q # <<>> /\ Piece(q, e, r, received)
  <2>1. Unread = q
    BY <1>2, <1>3, <1>4 DEF Unread
  <2>2. q # <<>>
    BY <1>8
  <2> QED BY <2>1, <2>2, <1>1, <1>10 DEF Stream
<1>12. PICK m \in 1 .. Len(c) :
          m = IF IsHeader(c) /\ 2 + L <= Len(c) THEN 2 + L ELSE Len(c)
  <2>1. 2 + L <= Len(c) => 2 + L \in 1 .. Len(c)
    BY <1>8
  <2>2. Len(c) \in 1 .. Len(c)
    BY <1>8
  <2> QED BY <2>1, <2>2
<1>13. /\ chunk' = SubSeq(c, m + 1, Len(c)) /\ chunk' \in Seq(Bytes)
       /\ (~IsHeader(c) \/ Len(c) < 2 + L) => chunk' = <<>>
  <2>1. m + 1 \in Nat \ {0} /\ 3 + L \in Nat \ {0} /\ Len(c) \in 0 .. Len(c)
    BY <1>8
  <2>2. CASE IsHeader(c) /\ 2 + L <= Len(c)
    <3>1. m + 1 = 3 + L /\ ~(Len(c) < 2 + L)
      BY <2>2, <1>8, <1>12
    <3> QED BY <3>1, <2>1, <2>2, <1>7, <1>8, Part
  <2>3. CASE ~(IsHeader(c) /\ 2 + L <= Len(c))
    <3>1. m = Len(c) /\ m + 1 > Len(c)
      BY <2>3, <1>8, <1>12
    <3>2. SubSeq(c, m + 1, Len(c)) = <<>>
      BY <3>1, <2>1, <1>8, Part
    <3>3. IsHeader(c) => 3 + L > Len(c)
      BY <2>3, <1>8
    <3>4. IsHeader(c) => SubSeq(c, 3 + L, Len(c)) = <<>>
      BY <3>3, <2>1, <1>8, Part
    <3>5. chunk' = <<>>
      BY <3>4, <1>7
    <3> QED BY <3>2, <3>5, EmptySeq
  <2> QED BY <2>2, <2>3
<1>14. PICK s : s = SubSeq(q, m + 1, Len(q))
  OBVIOUS
<1>15. s \in Seq(Bytes) /\ Piece(s, e, r, received)
  <2>1. m + 1 \in 1 .. Len(q) + 1
    BY <1>8
  <2> QED BY <2>1, <1>8, <1>11, <1>14, RestOfPiece
<1>16. Unread' = s /\ ToFrame' = e /\ ToPlace' = r /\ received' = received
  <2>1. SubSeq(c, m + 1, Len(c)) \o y = s
    BY <1>4, <1>8, <1>14, RestOfBoth
  <2> QED BY <2>1, <1>3, <1>7, <1>10, <1>13 DEF Unread, ToFrame, ToPlace
<1>17. Stream' /\ Waiting' /\ (aborted' => chunk' = <<>>)
  <2>1. Stream'
    BY <1>15, <1>16 DEF Stream
  <2>2. Waiting'
    BY <1>1, <1>7 DEF Waiting
  <2> QED BY <2>1, <2>2, <1>7
<1>18. /\ IsHeader(c) => /\ Len(c) >= 2 /\ x \in Seq(Bytes) /\ Len(x) = Len(c) - 2
                         /\ \A i \in 1 .. Len(x) : x[i] = c[2 + i]
  <2> SUFFICES ASSUME IsHeader(c)
               PROVE  /\ Len(c) >= 2 /\ x \in Seq(Bytes) /\ Len(x) = Len(c) - 2
                      /\ \A i \in 1 .. Len(x) : x[i] = c[2 + i]
    OBVIOUS
  <2>1. Len(c) >= 2
    BY DEF IsHeader
  <2>2. 3 \in Nat \ {0} /\ Len(c) \in 0 .. Len(c)
    BY <1>8
  <2>3. /\ x \in Seq(Bytes) /\ Len(x) = IF 3 <= Len(c) THEN Len(c) - 3 + 1 ELSE 0
        /\ \A i \in 1 .. Len(c) - 3 + 1 : x[i] = c[3 + i - 1]
    BY <2>2, <1>6, <1>8, Part, SMTT(60)
  <2>4. Len(x) = Len(c) - 2 /\ Len(c) - 3 + 1 = Len(c) - 2
    <3>1. PICK z \in Nat : z = Len(c)
      BY <1>8
    <3>2. z - 3 + 1 = z - 2 /\ (~(3 <= z) => z - 2 = 0)
      BY <3>1, <2>1
    <3> QED BY <3>1, <3>2, <2>3
  <2>5. \A i \in 1 .. Len(x) : 3 + i - 1 = 2 + i
    BY <2>4, <1>8
  <2> QED BY <2>1, <2>3, <2>4, <2>5
<1>19. Types'
  <2>1. CASE ~IsHeader(c)
    BY <2>1, <1>1, <1>7, <1>13 DEF Types
  <2>2. CASE IsHeader(c) /\ Len(x) < L
    <3>1. L - Len(x) \in Int /\ L - Len(x) >= MinLeft
      <4>1. Len(x) \in Nat
        BY <2>2, <1>18
      <4>2. L - Len(x) \in Nat
        BY <4>1, <2>2, <1>8
      <4> QED BY <4>2, Constants
    <3>2. /\ cached' \in [bytes : Seq(Bytes), left : Int] /\ cached'.left >= MinLeft
      <4>1. cached' = [bytes |-> x, left |-> L - Len(x)]
        BY <2>2, <1>7
      <4> QED BY <4>1, <3>1, <2>2, <1>18
    <3> QED BY <3>2, <2>2, <1>1, <1>7, <1>13 DEF Types
  <2>3. CASE IsHeader(c) /\ ~(Len(x) < L)
    <3>1. L \in 0 .. Len(x) /\ 1 \in Nat \ {0} /\ x \in Seq(Bytes)
      BY <2>3, <1>8, <1>18
    <3>2. SubSeq(x, 1, L) \in Seq(Bytes)
      BY <3>1, Part
    <3>3. out' \in Seq(Seq(Bytes))
      <4>1. PICK g : g = SubSeq(x, 1, L)
        OBVIOUS
      <4>2. out' = Append(out, g)
        BY <4>1, <2>3, <1>7
      <4>3. g \in Seq(Bytes)
        BY <4>1, <3>2
      <4> QED BY <4>2, <4>3, <1>8, AppendProperties
    <3> QED BY <3>3, <2>3, <1>1, <1>7, <1>13 DEF Types
  <2> QED BY <2>1, <2>2, <2>3
<1>20. ASSUME glued
       PROVE  Reading' /\ WholeDatagrams'
  <2>1. glued'
    BY <1>7, <1>20
  <2> QED BY <2>1 DEF Reading, WholeDatagrams
<1>21. ASSUME ~IsHeader(c)
       PROVE  Reading' /\ WholeDatagrams'
  <2>1. aborted' /\ UNCHANGED <<out, written, received, glued>>
    BY <1>7, <1>21
  <2> QED BY <2>1, <1>1 DEF Reading, WholeDatagrams
<1>22. ASSUME ~glued, IsHeader(c)
       PROVE  Reading' /\ WholeDatagrams'
  <2>1. PICK d : d = Len(All) + 1
    OBVIOUS
  <2>2. cached.left = 0 /\ Comes(d, 1)
    <3>1. cached.left \in Int
      BY <1>1 DEF Types
    <3>2. /\ cached.left >= 0
          /\ cached.left = 0 => Comes(d, 1)
          /\ cached.left > 0 => chunk = <<>>
      BY <2>1, <1>1, <1>7, <1>22 DEF Reading
    <3>3. ~(cached.left > 0)
      BY <3>2, <1>2, <1>7
    <3>4. cached.left = 0
      BY <3>1, <3>2, <3>3
    <3> QED BY <3>2, <3>4
  <2>3. d \in 1 .. received /\ q[1] = Frame(d)[1] /\ GoesOn(q, e, r, received, d, 1)
    <3>1. GoesOn(q, e, r, received, d, 1)
      BY <2>2, <1>10, <1>11 DEF Comes
    <3> QED BY <3>1, <1>11 DEF GoesOn
  <2>4. /\ d \in Ids /\ L = Lengths[d] /\ Size(d) = 2 + L /\ 1 \in 1 .. Size(d) /\ d \in Nat
    <3>1. d \in Ids /\ d \in Nat
      BY <2>3, <1>8, Constants
    <3>2. Frame(d)[1] = <<"length", d, Lengths[d]>>
      BY <3>1, Frames
    <3>3. L = Lengths[d]
      BY <3>2, <2>3, <1>5, <1>8
    <3> QED BY <3>1, <3>3, <1>8 DEF Size
  <2>6. CASE Len(x) < L
    <3>1. /\ m = Len(c) /\ Len(x) = Len(c) - 2 /\ x \in Seq(Bytes) /\ Len(x) \in Nat
          /\ 1 + m <= Size(d) /\ 1 + m <= Size(d) + 1 /\ m \in 1 .. Len(q)
          /\ Len(c) < 2 + L
      <4>1. Len(x) = Len(c) - 2 /\ x \in Seq(Bytes) /\ Len(x) \in Nat
        BY <1>18, <1>22
      <4>2. Len(c) < 2 + L /\ ~(2 + L <= Len(c))
        BY <4>1, <2>6, <1>8
      <4>3. m = Len(c)
        BY <4>2, <1>12
      <4>4. m \in 1 .. Len(q) /\ 1 + m <= 2 + L /\ 1 + m <= 2 + L + 1
        BY <4>2, <4>3, <1>8
      <4> QED BY <4>1, <4>2, <4>3, <4>4, <2>4
    <3>2. /\ \A j \in 1 .. m : q[j] = Frame(d)[1 + j - 1]
          /\ GoesOn(s, e, r, received, d, 1 + m)
      <4>1. PICK k : k = 1
        OBVIOUS
      <4>2. k \in 1 .. Size(d) /\ GoesOn(q, e, r, received, d, k) /\ k + m <= Size(d) + 1
        BY <4>1, <3>1, <2>3, <2>4
      <4>3. /\ \A j \in 1 .. m : q[j] = Frame(d)[k + j - 1]
            /\ k + m <= Size(d) => GoesOn(s, e, r, received, d, k + m)
        <5>1. /\ q \in Seq(Bytes) /\ received \in 0 .. Len(Lengths) /\ Piece(q, e, r, received)
              /\ m \in 1 .. Len(q) /\ k \in 1 .. Size(d) /\ k + m <= Size(d) + 1
              /\ GoesOn(q, e, r, received, d, k)
          BY <4>2, <3>1, <1>8, <1>11
        <5>2. /\ k + m <= Size(d) => GoesOn(SubSeq(q, m + 1, Len(q)), e, r, received, d, k + m)
              /\ \A j \in 1 .. m : q[j] = Frame(d)[k + j - 1]
          BY <5>1, Taken
        <5> QED BY <5>2, <1>14
      <4> QED BY <4>1, <4>3, <3>1
    <3>3. PICK l \in Nat : l = L - Len(x) /\ l > 0 /\ l <= Lengths[d] /\ Size(d) - l + 1 = 1 + m
      <4>1. L - Len(x) \in Nat /\ L - Len(x) > 0 /\ L - Len(x) <= L
        BY <3>1, <2>6, <1>8
      <4>2. 2 + L - (L - Len(x)) + 1 = 1 + m
        BY <3>1, <1>8
      <4>3. PICK l \in Nat : l = L - Len(x)
        BY <4>1
      <4>4. 2 + L - l + 1 = 1 + m /\ l > 0 /\ l <= L
        BY <4>1, <4>2, <4>3
      <4>5. Size(d) - l + 1 = 1 + m /\ l > 0 /\ l <= Lengths[d]
        BY <4>4, <2>4, <1>8, SMTT(60)
      <4> QED BY <4>3, <4>5
    <3>4. x = SubSeq(Datagram(d), 1, Lengths[d] - l)
      <4>1. ASSUME NEW j \in 1 .. Len(x)
            PROVE  x[j] = Frame(d)[2 + j]
        <5>1. PICK i \in 1 .. m : i = 2 + j /\ 1 + i - 1 = i
          <6>1. 2 + j \in 1 .. m /\ 1 + (2 + j) - 1 = 2 + j
            BY <3>1, <1>8
          <6> QED BY <6>1
        <5>2. x[j] = c[2 + j]
          BY <1>18, <1>22
        <5>3. q[i] = c[i] /\ q[i] = Frame(d)[i]
          BY <5>1, <3>1, <3>2, <1>9
        <5> QED BY <5>1, <5>2, <5>3
      <4>2. Len(x) <= Lengths[d] /\ Lengths[d] - l = Len(x)
        <5>1. PICK z \in Nat : z = Len(x)
          BY <3>1
        <5>2. l = L - z
          BY <5>1, <3>3
        <5>3. z <= L /\ L - l = z
          BY <5>1, <5>2, <2>6, <1>8
        <5> QED BY <5>1, <5>3, <2>4
      <4>3. x = SubSeq(Datagram(d), 1, Len(x))
        BY <4>1, <4>2, <3>1, <2>4, Begun
      <4> QED BY <4>2, <4>3
    <3>5. cached' = [bytes |-> x, left |-> l] /\ out' = out /\ chunk' = <<>>
      BY <3>1, <3>3, <2>6, <1>7, <1>13, <1>22
    <3>6. All' = All /\ WholeDatagrams'
      BY <3>5, <1>1, <1>7 DEF All, WholeDatagrams
    <3>7. Comes(d, Size(d) - l + 1)'
      BY <3>2, <3>3, <1>16 DEF Comes
    <3>8. cached'.left = l /\ cached'.bytes = SubSeq(Datagram(d), 1, Lengths[d] - l)
      BY <3>4, <3>5
    <3>9. Len(All)' + 1 = d
      BY <3>6, <2>1
    <3>10. l >= 0 /\ l # 0
      BY <3>3
    <3> QED BY <3>3, <3>5, <3>6, <3>7, <3>8, <3>9, <3>10, <2>4 DEF Reading
  <2>7. CASE ~(Len(x) < L)
    <3>1. /\ Len(x) = Len(c) - 2 /\ x \in Seq(Bytes) /\ Len(x) \in Nat /\ L \in 0 .. Len(x)
          /\ m = Size(d) /\ 1 + m = Size(d) + 1 /\ m \in 1 .. Len(q) /\ 1 + m <= Size(d) + 1
      <4>1. Len(x) = Len(c) - 2 /\ x \in Seq(Bytes) /\ Len(x) \in Nat
        BY <1>18, <1>22
      <4>2. L <= Len(x) /\ 2 + L <= Len(c)
        BY <4>1, <2>7, <1>8
      <4>3. m = 2 + L
        BY <4>2, <1>12, <1>22
      <4>4. L \in 0 .. Len(x) /\ m \in 1 .. Len(q)
        BY <4>1, <4>2, <4>3, <1>8, SMTT(60)
      <4>5. m = Size(d) /\ m \in Nat
        BY <4>3, <2>4, <1>8, SMTT(60)
      <4>6. 1 + m = Size(d) + 1
        BY <4>5
      <4> QED BY <4>1, <4>4, <4>5, <4>6
    <3>2. /\ \A j \in 1 .. m : q[j] = Frame(d)[1 + j - 1]
          /\ GoesOn(s, e, r, received, d + 1, 1)
      <4>1. PICK k : k = 1
        OBVIOUS
      <4>2. k \in 1 .. Size(d) /\ GoesOn(q, e, r, received, d, k) /\ k + m <= Size(d) + 1
        BY <4>1, <3>1, <2>3, <2>4
      <4>3. /\ \A j \in 1 .. m : q[j] = Frame(d)[k + j - 1]
            /\ k + m = Size(d) + 1 => GoesOn(s, e, r, received, d + 1, 1)
        <5>1. /\ q \in Seq(Bytes) /\ received \in 0 .. Len(Lengths) /\ Piece(q, e, r, received)
              /\ m \in 1 .. Len(q) /\ k \in 1 .. Size(d) /\ k + m <= Size(d) + 1
              /\ GoesOn(q, e, r, received, d, k)
          BY <4>2, <3>1, <1>8, <1>11
        <5> QED BY <5>1, <1>14, Taken
      <4> QED BY <4>1, <4>3, <3>1
    <3>3. PICK g : g = SubSeq(x, 1, L)
      OBVIOUS
    <3>4. g \in Seq(Bytes) /\ Len(g) = L /\ \A j \in 1 .. L : g[j] = x[j]
      <4>1. /\ g \in Seq(Bytes) /\ Len(g) = IF 1 <= L THEN L - 1 + 1 ELSE 0
            /\ \A i \in 1 .. L - 1 + 1 : g[i] = x[1 + i - 1]
        BY <3>1, <3>3, Part
      <4>2. L - 1 + 1 = L /\ (~(1 <= L) => L = 0) /\ \A i \in 1 .. L : 1 + i - 1 = i
        BY <1>8
      <4> QED BY <4>1, <4>2
    <3>5. g = Datagram(d)
      <4>1. ASSUME NEW j \in 1 .. L
            PROVE  g[j] = Frame(d)[2 + j]
        <5>1. PICK i \in 1 .. m : i = 2 + j /\ 1 + i - 1 = i
          <6>1. 2 + j \in 1 .. 2 + L /\ 1 + (2 + j) - 1 = 2 + j
            BY <1>8
          <6>2. m = 2 + L
            BY <3>1, <2>4
          <6> QED BY <6>1, <6>2
        <5>2. x[j] = c[2 + j]
          <6>1. j \in 1 .. Len(x)
            BY <3>1, <1>8
          <6> QED BY <6>1, <1>18, <1>22
        <5>3. q[i] = c[i] /\ q[i] = Frame(d)[i]
          <6>1. i \in 1 .. Len(c) /\ i \in 1 .. m
            BY <1>8
          <6> QED BY <6>1, <5>1, <3>2, <1>9
        <5> QED BY <5>1, <5>2, <5>3, <3>4
      <4>2. L <= Lengths[d] /\ Len(g) = L
        BY <3>4, <2>4, <1>8
      <4>3. g = SubSeq(Datagram(d), 1, L)
        BY <4>1, <4>2, <3>4, <2>4, Begun
      <4> QED BY <4>3, <2>4, AllOfIt
    <3>6. out' = Append(out, Datagram(d)) /\ UNCHANGED <<written, received, cached, glued>>
      BY <3>3, <3>5, <2>7, <1>7, <1>22
    <3>7. WholeDatagrams' /\ Len(All)' = d
      BY <3>6, <2>1, <2>3, <2>4, <1>1, <1>22, ComesOut
    <3>8. Comes(d + 1, 1)'
      BY <3>2, <1>16 DEF Comes
    <3>9. cached'.left = 0
      BY <3>6, <2>2
    <3> QED BY <3>7, <3>8, <3>9 DEF Reading
  <2> QED BY <2>6, <2>7
<1> QED BY <1>17, <1>19, <1>20, <1>21, <1>22 DEF IInv

-----------------------------------------------------------------------------
(* The theorems.                                                           *)

\* The inductive invariant.
THEOREM Invariance == Spec => []IInv
<1>1. Init => IInv
  BY Initially
<1>2. IInv /\ [Next]_vars => IInv'
  <2> SUFFICES ASSUME IInv, [Next]_vars
               PROVE  IInv'
    OBVIOUS
  <2>1. CASE Receive
    BY <2>1, ReceiveKeeps
  <2>2. CASE Read
    <3>1. PICK n \in 1 .. MaxLine : n <= Len(wire) /\ (ReadMore(n) \/ ReadFrames(n))
      BY <2>2 DEF Read
    <3> QED BY <3>1, ReadMoreKeeps, ReadFramesKeeps
  <2>3. CASE Parse
    BY <2>3, ParseKeeps
  <2>4. CASE WriteProxy
    BY <2>4, WriteProxyKeeps
  <2>5. ASSUME NEW n \in 1 .. MaxWrite, WriteNet(n)
        PROVE  IInv'
    BY <2>5, WriteNetKeeps
  <2>6. CASE UNCHANGED vars
    BY <2>6, NothingKeeps
  <2> QED BY <2>1, <2>2, <2>3, <2>4, <2>5, <2>6 DEF Next
<1> QED BY <1>1, <1>2, PTL DEF Spec

\* The buffers and counters of the tunnel keep their types, and the write offset
\* stays inside the first frame.
THEOREM TypeCorrect == Spec => []TypeOK
<1>1. IInv => TypeOK
  <2> SUFFICES ASSUME IInv
               PROVE  TypeOK
    OBVIOUS
  <2>1. Types /\ Waiting
    BY DEF IInv
  <2>2. buffer.frames # <<>> => buffer.offset \in 0 .. Len(Head(buffer.frames)) - 1
    <3> SUFFICES ASSUME buffer.frames # <<>>
                 PROVE  buffer.offset \in 0 .. Len(Head(buffer.frames)) - 1
      OBVIOUS
    <3>1. buffer.frames \in Seq(Seq(Bytes)) /\ buffer.offset \in Nat
      BY <2>1 DEF Types
    <3>2. Head(buffer.frames) \in Seq(Bytes)
      BY <3>1
    <3>3. Len(Head(buffer.frames)) \in Nat
      BY <3>2
    <3>4. buffer.offset < Len(Head(buffer.frames))
      BY <2>1 DEF Waiting
    <3> QED BY <3>1, <3>3, <3>4
  <2>3. cached.left \in Int
    BY <2>1 DEF Types
  <2> QED BY <2>1, <2>2, <2>3 DEF TypeOK, Types, Waiting
<1> QED BY <1>1, Invariance, PTL

\* For all datagrams, every MAXLINE and every way TCP cuts the stream, what comes
\* out of onRead's read_again loop are the datagrams that proxyThread read, whole
\* and in order, until a read goes past the end of a cached datagram.
THEOREM Whole == Spec => []WholeDatagrams
<1>1. IInv => WholeDatagrams
  BY DEF IInv
<1> QED BY <1>1, Invariance, PTL
=============================================================================
