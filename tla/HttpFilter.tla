------------------------------ MODULE HttpFilter ------------------------------
(***************************************************************************)
(* filter<pollDispatcher>::write with one HTTP filter in its chain, as the *)
(* relay's onWrite calls it for one descriptor number: with the front of   *)
(* the write buffer, until that chunk is said to be written.  The filter   *)
(* holds a message back until its text has the announced length; the write *)
(* may take a part of what the filter returned, and keeps the rest.        *)
(*                                                                         *)
(* The stream is made of units <<connection, message, part>>: part 1 is    *)
(* the first half of a message's head, part 2 the second, the others are   *)
(* its text.  Rewriting a message is not modelled, nor is the byte in      *)
(* front of a chunk that is offered again after an error: it becomes a     *)
(* part of the method.  The number the filter reads is the message's own   *)
(* claim: atoi of the value without its first character, which need not be *)
(* the length of the text - of a response to HEAD, or of one with 304, it  *)
(* is not, and the first character may be a digit instead of a blank.      *)
(***************************************************************************)
EXTENDS Integers, SequencesExt

CONSTANTS Texts,      \* the messages of a connection, as lengths of their text
          Lookalikes, \* units of text that may pass for the end of a head
          ContentLength, \* the number the filter reads in a head that has one,
                         \* by the unit that ends the head
          MaxChunk,   \* bound for MAXLINE: units the relay reads at once
          MaxLine,    \* bound for MAXLINE: units one write takes
          MaxConns    \* bound: connections that get the same number

ASSUME HttpFilterAssumption ==
    /\ Texts \in Seq(Nat)
    /\ \A u \in Lookalikes : /\ u[2] \in DOMAIN Texts
                            /\ u[3] \in 3 .. 2 + Texts[u[2]]
    /\ \A u \in DOMAIN ContentLength : ContentLength[u] \in Int
    /\ MaxChunk \in Nat \ {0} /\ MaxLine \in Nat \ {0} /\ MaxConns \in Nat \ {0}

VARIABLES conn,   \* the connection that has the number now
          sent,   \* how many units of its stream the relay has read
          queue,  \* the write buffer of the number: chunks
          cache,  \* filter's cache: the rest of what is being written
          held,   \* the HTTP filter's map: the message that is not complete
          out,    \* what the peer of this connection received
          dead,   \* the peer is gone: writes return -1
          stale   \* history: something of an earlier connection was left

vars == <<conn, sent, queue, cache, held, out, dead, stale>>

Init == /\ conn = 1 /\ sent = 0
        /\ queue = <<>> /\ cache = <<>> /\ held = <<>> /\ out = <<>>
        /\ dead = FALSE /\ stale = FALSE

Message(c, m) == [p \in 1 .. 2 + Texts[m] |-> <<c, m, p>>]
Stream(c) == FlattenSeq([m \in DOMAIN Texts |-> Message(c, m)])

-----------------------------------------------------------------------------
\* The relay reads n more units for this descriptor.
Receive(n) ==
    /\ sent + n <= Len(Stream(conn))
    /\ sent' = sent + n
    /\ queue' = Append(queue, SubSeq(Stream(conn), sent + 1, sent + n))
    /\ UNCHANGED <<conn, cache, held, out, dead, stale>>

PeerLeaves == /\ ~dead /\ dead' = TRUE
              /\ UNCHANGED <<conn, sent, queue, cache, held, out, stale>>

\* The number is closed and given to the next connection.  Nobody calls reset.
Reuse == /\ conn < MaxConns
         /\ conn' = conn + 1 /\ sent' = 0 /\ out' = <<>> /\ dead' = FALSE
         /\ stale' = (stale \/ queue # <<>> \/ held # <<>>)
         /\ UNCHANGED <<queue, cache, held>>

-----------------------------------------------------------------------------
(* httpRequestFilter::filter, and the response filter, which is the same.  *)

EndsHead(u) == u[3] = 2 \/ u \in Lookalikes

HasHead(c) == \E i \in DOMAIN c : EndsHead(c[i])

\* Where the head of a parsed message ends.
HeadEnd(c) == CHOOSE i \in DOMAIN c :
                 EndsHead(c[i]) /\ \A j \in 1 .. i - 1 : ~EndsHead(c[j])

\* Mutant of Lacks: a text of the announced length is waited for too.
LacksOrEqual(c) ==
    LET head == c[HeadEnd(c)] IN
    head \in DOMAIN ContentLength /\ Len(c) - HeadEnd(c) <= ContentLength[head]

\* The text is not as long as announced: shorter, or longer.
Lacks(c) ==
    LET head == c[HeadEnd(c)] IN
    head \in DOMAIN ContentLength /\ Len(c) - HeadEnd(c) # ContentLength[head]

\* parse throws for a chunk without anything like the end of a head; whether
\* it does for one that starts in the middle of a message depends on the text.
MayFail(c) == ~HasHead(c) \/ c[1][3] # 1
MayParse(c) == HasHead(c)

-----------------------------------------------------------------------------
(* filter<T>::write, and what the relay makes of the value it returns.     *)

\* Mutant of Rest: the cache keeps the content, not where the write stopped.
RestAll(content, n) == IF n < Len(content) THEN content ELSE <<>>

Rest(content, n) == SubSeq(content, n + 1, Len(content))

\* Mutant of Popped: the relay is told that all was written.
PoppedAlways(rest) == Tail(queue)

\* size is returned when nothing is left, and the relay drops the chunk; else 0.
Popped(rest) == IF rest = <<>> THEN Tail(queue) ELSE queue

\* -1: the filters are reset, and the chunk stays where it is.
WriteFails == /\ dead
              /\ cache' = <<>> /\ held' = <<>>
              /\ UNCHANGED <<queue, out>>

\* n units are written.
Write(content, stillHeld) ==
    \/ WriteFails
    \/ /\ ~dead
       /\ \E n \in 1 .. MaxLine :
             /\ n <= Len(content)
             /\ out' = out \o SubSeq(content, 1, n)
             /\ cache' = Rest(content, n)
             /\ queue' = Popped(Rest(content, n))
       /\ held' = stillHeld

\* More of what an earlier call could not write; no filter is asked.
Resume == /\ cache # <<>> /\ queue # <<>>
          /\ Write(cache, held)

\* The parser throws: the chunk goes through as it is.
PassThrough == /\ cache = <<>> /\ queue # <<>> /\ held = <<>>
               /\ MayFail(Head(queue))
               /\ Write(Head(queue), <<>>)

\* The chunk joins the message that is held back, or starts one.
Joins == /\ cache = <<>> /\ queue # <<>>
         /\ held = <<>> => MayParse(Head(queue))

\* NOTUSED: the chunk counts as written.
Hold == /\ Joins
        /\ Lacks(held \o Head(queue))
        /\ held' = held \o Head(queue)
        /\ queue' = Tail(queue)
        /\ UNCHANGED <<cache, out>>

Release == /\ Joins
           /\ ~Lacks(held \o Head(queue))
           /\ Write(held \o Head(queue), <<>>)

OnWrite == /\ Resume \/ PassThrough \/ Hold \/ Release
           /\ UNCHANGED <<conn, sent, dead, stale>>

Next == \/ \E n \in 1 .. MaxChunk : Receive(n)
        \/ PeerLeaves \/ Reuse \/ OnWrite

Spec == Init /\ [][Next]_vars

\* The relay's loop goes on calling onWrite.
FairSpec == Spec /\ WF_vars(OnWrite)

-----------------------------------------------------------------------------
(* Properties. *)

\* A message that is held has its head, and the cache is never left behind
\* alone: the chunk it came from is still the front of the buffer.
TypeOK == /\ conn \in 1 .. MaxConns /\ sent \in 0 .. Len(Stream(conn))
          /\ Len(queue) <= MaxConns * Len(Stream(conn))
          /\ \A i \in DOMAIN queue : queue[i] # <<>>
          /\ held # <<>> => HasHead(held)
          /\ cache # <<>> => queue # <<>>
          /\ Len(held) <= MaxConns * Len(Stream(conn))
          /\ dead \in BOOLEAN /\ stale \in BOOLEAN

\* However reads and writes cut the stream, everything the relay took out of
\* its buffer was written, is in the cache or is held back, in the order it was
\* read and once - unless an earlier connection with the same number left
\* something, or a write failed.
NothingLost ==
    (~stale /\ ~dead) =>
        out \o cache \o held
            \o FlattenSeq(IF cache = <<>> THEN queue ELSE Tail(queue))
          = SubSeq(Stream(conn), 1, sent)

HeldHead == held[HeadEnd(held)]

\* Text beyond the announced length is held, and with it all that follows.
Overrun == held # <<>> /\ Len(held) - HeadEnd(held) > ContentLength[HeldHead]

\* A message is held whose text never gets as long as the filter believes, or
\* that is no message but text that looks like one.
Misread == /\ held # <<>>
           /\ \/ HeldHead \in Lookalikes
              \/ ContentLength[HeldHead] # Texts[HeldHead[2]]

\* Messages that were read to their end are delivered, unless text ran into
\* the next message in one chunk, or the filter waits for the wrong length.
Delivered ==
    \A c \in 1 .. MaxConns :
       (conn = c /\ sent = Len(Stream(c)))
          ~> \/ out = Stream(c) \/ conn # c \/ dead \/ stale
             \/ Overrun \/ Misread
===============================================================================
