------------------------------ MODULE UdpFraming -----------------------------
(***************************************************************************)
(* Datagrams through the TCP tunnel of udpServer: one process writes each  *)
(* as its length, a space and its bytes, the other reads the stream in     *)
(* whatever pieces TCP delivers and takes the frames out again.            *)
(***************************************************************************)
EXTENDS Integers, Sequences

CONSTANTS Lengths,  \* the lengths of the datagrams, in the order they arrive
          MaxLine,  \* bound for MAXLINE
          MinLeft   \* bound: how far below zero the byte count is followed

ASSUME UdpFramingAssumption == /\ Lengths \in Seq(Nat) /\ MaxLine \in Nat \ {0}
                               /\ MinLeft \in Int /\ MinLeft < 0

VARIABLES buffer,   \* netWriteBuffer of the tunnel: frames and an offset
          received, \* datagrams read so far
          wire,     \* the stream: bytes written and not read
          chunk,    \* buf: what onRead has read and not parsed
          cached,   \* cachedBytes: the start of a datagram, and bytes to come
          out,      \* proxyWriteBuffer: the datagrams that come out
          written,  \* ... and those that were handed to the socket
          aborted,  \* the assertion failed
          glued     \* history: a read went past the end of a cached datagram

vars == <<buffer, received, wire, chunk, cached, out, written, aborted, glued>>

Nothing == [bytes |-> <<>>, left |-> 0]

Init == /\ buffer = [frames |-> <<>>, offset |-> 0] /\ received = 0
        /\ wire = <<>> /\ chunk = <<>>
        /\ cached = Nothing /\ out = <<>> /\ written = <<>>
        /\ aborted = FALSE /\ glued = FALSE

\* A byte of the stream is <<kind, datagram, value>>: the digits of a length
\* are one byte, the value of a data byte is its position.
Datagram(d) == [j \in 1 .. Lengths[d] |-> <<"data", d, j>>]
Frame(d) == <<<<"length", d, Lengths[d]>>, <<"space", d, 0>>>> \o Datagram(d)

\* proxyThread's onRead.
Receive ==
    /\ received < Len(Lengths)
    /\ received' = received + 1
    /\ buffer' = [buffer EXCEPT !.frames = Append(@, Frame(received + 1))]
    /\ UNCHANGED <<wire, chunk, cached, out, written, aborted, glued>>

\* Mutant of Advanced: the offset stays where the frame ended.
AdvancedOnly(b, end) == IF end = Len(Head(b.frames))
                        THEN [frames |-> Tail(b.frames), offset |-> end]
                        ELSE [b EXCEPT !.offset = end]

\* A buffer that was written up to `end`.
Advanced(b, end) == IF end = Len(Head(b.frames))
                    THEN [frames |-> Tail(b.frames), offset |-> 0]
                    ELSE [b EXCEPT !.offset = end]

\* netThread's onWrite: n bytes of the first frame from the offset on.
WriteNet(n) ==
    /\ buffer.frames # <<>>
    /\ LET frame == Head(buffer.frames)
           end == buffer.offset + n
       IN  /\ end <= Len(frame)
           /\ wire' = wire \o SubSeq(frame, buffer.offset + 1, end)
           /\ buffer' = Advanced(buffer, end)
    /\ UNCHANGED <<received, chunk, cached, out, written, aborted, glued>>

\* netThread's onRead of n bytes while a datagram is cached: all of them are
\* taken for the rest of it, and it is done when the count is exactly zero.
ReadMore(n) ==
    /\ chunk = <<>> /\ ~aborted /\ cached.left # 0
    /\ LET bytes == cached.bytes \o SubSeq(wire, 1, n)
           left == cached.left - n
       IN  /\ out' = IF left = 0 THEN Append(out, bytes) ELSE out
           /\ cached' = IF left = 0 THEN Nothing
                        ELSE [bytes |-> bytes,
                              left |-> IF left < MinLeft THEN MinLeft ELSE left]
           /\ glued' = (glued \/ left < 0)
    /\ wire' = SubSeq(wire, n + 1, Len(wire))
    /\ UNCHANGED <<buffer, received, chunk, written, aborted>>

\* ... and of n bytes that start with a frame.
ReadFrames(n) ==
    /\ chunk = <<>> /\ ~aborted /\ cached.left = 0
    /\ chunk' = SubSeq(wire, 1, n)
    /\ wire' = SubSeq(wire, n + 1, Len(wire))
    /\ UNCHANGED <<buffer, received, cached, out, written, aborted, glued>>

Read == \E n \in 1 .. MaxLine : n <= Len(wire) /\ (ReadMore(n) \/ ReadFrames(n))

\* read_again: a length, a space, and as many bytes, or less: the rest of the
\* datagram is yet to come, or more: the next frame follows.
IsHeader(b) == Len(b) >= 2 /\ b[1][1] = "length" /\ b[2][1] = "space"

\* Mutant of First: all that was read is one datagram.
FirstAll(result, length) == result

First(result, length) == SubSeq(result, 1, length)

\* Mutant of Following: what comes behind the first frame is not looked at.
FollowingNone(b) == <<>>

Following(b) == SubSeq(b, 3 + b[1][3], Len(b))

Parse ==
    /\ chunk # <<>>
    /\ IF ~IsHeader(chunk)
       THEN aborted' = TRUE /\ UNCHANGED <<cached, out>>
       ELSE LET length == chunk[1][3]
                result == SubSeq(chunk, 3, Len(chunk))
            IN  IF Len(result) < length
                THEN /\ cached' = [bytes |-> result,
                                   left |-> length - Len(result)]
                     /\ UNCHANGED <<out, aborted>>
                ELSE /\ out' = Append(out, First(result, length))
                     /\ UNCHANGED <<cached, aborted>>
    /\ chunk' = IF IsHeader(chunk) THEN Following(chunk) ELSE <<>>
    /\ UNCHANGED <<buffer, received, wire, written, glued>>

\* proxyThread's onWrite: one datagram per write, and it is dropped whatever
\* write returns: a datagram is sent whole or not at all.
WriteProxy ==
    /\ out # <<>> /\ ~aborted
    /\ written' = Append(written, Head(out))
    /\ out' = Tail(out)
    /\ UNCHANGED <<buffer, received, wire, chunk, cached, aborted, glued>>

MaxWrite == 2 + MaxLine

Next == \/ Receive \/ Read \/ Parse \/ WriteProxy
        \/ \E n \in 1 .. MaxWrite : WriteNet(n)

Spec == Init /\ [][Next]_vars

\* Both threads run and the network delivers.
FairSpec == /\ Spec /\ WF_vars(Receive) /\ WF_vars(Read) /\ WF_vars(Parse)
            /\ WF_vars(WriteProxy)
            /\ WF_vars(\E n \in 1 .. MaxWrite : WriteNet(n))

-----------------------------------------------------------------------------
(* Properties. *)

TypeOK == /\ received \in 0 .. Len(Lengths)
          /\ Len(buffer.frames) <= received
          /\ IF buffer.frames = <<>> THEN buffer.offset = 0
             ELSE buffer.offset \in 0 .. Len(Head(buffer.frames)) - 1
          /\ cached.left \in Int /\ cached.left >= MinLeft
          /\ aborted \in BOOLEAN /\ glued \in BOOLEAN

\* However TCP cuts the stream, what comes out are the datagrams that went in,
\* whole and in order, until a read goes past the end of a datagram whose start
\* is cached.
WholeDatagrams ==
    ~glued => LET all == written \o out IN
                 /\ Len(all) <= received
                 /\ \A d \in DOMAIN all : all[d] = Datagram(d)

\* Every datagram comes out, unless a read ended inside a length or went past
\* the end of a cached datagram.
AllDelivered ==
    \A k \in 1 .. Len(Lengths) :
        received >= k ~> Len(written) >= k \/ aborted \/ glued

\* Frames that stick together in one read are taken apart: when everything
\* was read, everything came out.
TakenApart ==
    (received = Len(Lengths) /\ buffer.frames = <<>> /\ wire = <<>>
       /\ chunk = <<>> /\ ~aborted)
      => Len(written \o out) = received
==============================================================================
