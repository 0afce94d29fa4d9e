------------------------------ MODULE TlsFilter ------------------------------
(***************************************************************************)
(* filter<pollDispatcher>::write with the TLS filters in its chain: a user *)
(* of the TLS service speaks to the server half of an SSLManager, the      *)
(* client half speaks to the service, and the text passes an HTTP filter   *)
(* in between.  httpsProxyFilter is called for the tunnel, with what the   *)
(* user sent; httpsClientFilter for the user, with what the service sent.  *)
(*                                                                         *)
(* A stream is made of units <<flight, part>> of a TLS 1.2 handshake (1:   *)
(* ClientHello, 2: ServerHello to Done, 3: key exchange and Finished, 4:   *)
(* Finished) and <<Data, <<connection, message, part>>>>.  A message is    *)
(* one HTTP request or response.  Alerts and the end of a connection are   *)
(* not followed; HttpFilter has what a failed write does to a filter.      *)
(***************************************************************************)
EXTENDS Integers, SequencesExt

CONSTANTS UserFds, TunnelFds, \* the numbers connections get
          Parts,    \* bound: units of a flight
          MsgLen,   \* bound: units of a message
          Rounds,   \* bound: requests of a connection
          ContentLength, \* what the HTTP filter reads in messages that have one,
                    \* by <<side, connection, message>>: the length of all
          MaxLine,  \* bound for MAXLINE: units one read or write takes
          MaxConns  \* bound: connections, one after the other

ASSUME TlsFilterAssumption ==
    /\ Parts \in Nat \ {0} /\ MsgLen \in Nat \ {0} /\ Rounds \in Nat
    /\ MaxLine \in Nat \ {0} /\ MaxConns \in Nat \ {0}
    /\ DOMAIN ContentLength \subseteq
          {"net", "proxy"} \X (1 .. MaxConns) \X (1 .. Rounds)
    /\ \A h \in DOMAIN ContentLength : ContentLength[h] \in Int

VARIABLES conn, fds,      \* the connection, and its numbers <<user, tunnel>>
          user, service,  \* the TLS ends: what they received, what is to read
          asked, answered,\* messages each has sent
          queue,  \* netWriteBuffer and proxyWriteBuffer: chunks
          rest,   \* filter's cache: the rest of what is being written
          managerMap, cache, \* by user, and httpsProxyFilter's, by tunnel
          held,   \* the HTTP filters' maps, by user
          seen    \* history: what happened so far

peers == <<user, service, asked, answered>>
vars == <<conn, fds, peers, queue, rest, managerMap, cache, held, seen>>

Sides == {"net", "proxy"}
Data == 5
Message(c, m) == [p \in 1 .. MsgLen |-> <<c, m, p>>]
Texts(c, n) == FlattenSeq([m \in 1 .. n |-> Message(c, m)])

-----------------------------------------------------------------------------
(* OpenSSL: a connection that reads from a memory BIO and writes to one.   *)

Flight(n) == [p \in 1 .. Parts |-> <<n, p>>]

NewSsl(role, out) == [role |-> role, done |-> 0, in |-> <<>>, out |-> out,
                      bad |-> FALSE]
Accepting == NewSsl("server", <<>>)          \* after SSL_accept
Connecting == NewSsl("client", Flight(1))    \* after SSL_connect
NewManager == [server |-> Accepting, client |-> Connecting]

\* What a side of the handshake has to read, and what it has said after n
\* units of it.
Script(role) == IF role = "server" THEN Flight(1) \o Flight(3)
                ELSE Flight(2) \o Flight(4)
Said(role, n) ==
    CASE n < Parts -> <<>>
      [] role = "client" /\ n >= Parts -> Flight(3)
      [] role = "server" /\ n \in Parts .. 2 * Parts - 1 -> Flight(2)
      [] role = "server" /\ n >= 2 * Parts -> Flight(2) \o Flight(4)

IsFinished(e) == e.done = 2 * Parts

\* How many of the units go on with the handshake.
Accepted(e, units) ==
    LET script == SubSeq(Script(e.role), e.done + 1, 2 * Parts)
    IN  CHOOSE n \in 0 .. Len(units) :
           /\ IsPrefix(SubSeq(units, 1, n), script)
           /\ n < Len(units) =>
                 ~IsPrefix(SubSeq(units, 1, n + 1), script)

\* BIO_write, and SSL_read until there is no more: a handshake goes on when a
\* flight is complete, and text comes behind it.
SslRead(e, units) ==
    LET n == Accepted(e, units)
        done == e.done + n
        text == SubSeq(units, n + 1, Len(units))
        bad == text # <<>> /\ (done < 2 * Parts \/ text[1][1] # Data)
    IN  IF e.bad THEN e
        ELSE [e EXCEPT !.done = done, !.bad = bad,
                       !.in = IF bad THEN @
                              ELSE @ \o [i \in DOMAIN text |-> text[i][2]],
                       !.out = @ \o SubSeq(Said(e.role, done),
                                           Len(Said(e.role, e.done)) + 1,
                                           Len(Said(e.role, done)))]

\* Mutant of Emptied: the text is read a second time.
EmptiedNot(e) == e

\* SSL_read, and BIO_read, until there is no more.
Emptied(e) == [e EXCEPT !.in = <<>>]
Drained(e) == [e EXCEPT !.out = <<>>]

Records(text) == [i \in DOMAIN text |-> <<Data, text[i]>>]

\* Nothing is written before the handshake is finished.
SslWrite(e, text) ==
    IF IsFinished(e) /\ ~e.bad
    THEN [e EXCEPT !.out = @ \o Records(text)]
    ELSE e

-----------------------------------------------------------------------------
(* The ends of the connection, which take what the relay writes at once.   *)

\* (One pair of numbers is like another.)
Init ==
    /\ conn = 1 /\ fds = CHOOSE pair \in UserFds \X TunnelFds : TRUE
    /\ user = Connecting /\ service = Accepting
    /\ asked = 0 /\ answered = 0
    /\ queue = [s \in Sides |-> <<>>] /\ rest = [s \in Sides |-> <<>>]
    /\ managerMap = [u \in UserFds |-> NewManager]
    /\ cache = [t \in TunnelFds |-> 0]
    /\ held = [s \in Sides |-> [u \in UserFds |-> <<>>]]
    /\ seen = {}

\* The user sends its next request when it has the last response; the first
\* one perhaps right behind its flight 3, as on a resumed session.
UserTakes(units) ==
    /\ \E e \in {SslRead(user, units)} :
          LET mayAsk == asked < Rounds /\ Len(e.in) = asked * MsgLen
              asking == e.out \o Records(Message(conn, asked + 1))
          IN  \/ /\ mayAsk
                 /\ IsFinished(e) \/ (user.done < Parts /\ e.done >= Parts)
                 /\ user' = [e EXCEPT !.out = asking] /\ asked' = asked + 1
              \/ ~(mayAsk /\ IsFinished(e)) /\ user' = e /\ UNCHANGED asked
    /\ UNCHANGED <<service, answered>>

ServiceTakes(units) ==
    /\ \E e \in {SslRead(service, units)} :
          IF Len(e.in) >= (answered + 1) * MsgLen
          THEN /\ service' = SslWrite(e, Message(conn, answered + 1))
               /\ answered' = answered + 1
          ELSE service' = e /\ UNCHANGED answered
    /\ UNCHANGED <<user, asked>>

\* The relay reads n units; one flight or message may be cut.
ReadUser(n) ==
    /\ n <= Len(user.out)
    /\ queue' = [queue EXCEPT !["net"] = Append(@, SubSeq(user.out, 1, n))]
    /\ user' = [user EXCEPT !.out = SubSeq(@, n + 1, Len(@))]
    /\ seen' = seen \cup {m \in {"cut"} :
                  user.out[n][1] # Data /\ user.out[n][2] < Parts}
    /\ UNCHANGED <<conn, fds, service, asked, answered, rest, managerMap, cache,
                   held>>

ReadService(n) ==
    /\ n <= Len(service.out)
    /\ queue' = [queue EXCEPT !["proxy"] = Append(@, SubSeq(service.out, 1, n))]
    /\ service' = [service EXCEPT !.out = SubSeq(@, n + 1, Len(@))]
    /\ UNCHANGED <<conn, fds, user, asked, answered, rest, managerMap, cache,
                   held, seen>>

\* The connection is closed and another one opened: with the same two numbers
\* httpsProxyFilter takes it for the old one.
NextConnection ==
    /\ conn < MaxConns
    /\ \A s \in Sides : queue[s] = <<>> /\ rest[s] = <<>>
    /\ conn' = conn + 1
    /\ \E u \in UserFds, t \in TunnelFds :
          /\ fds' = <<u, t>>
          /\ seen' = seen \cup {m \in {"stale"} :
                        cache[t] = u \/ \E s \in Sides : held[s][u] # <<>>}
    /\ user' = Connecting /\ service' = Accepting
    /\ asked' = 0 /\ answered' = 0
    /\ UNCHANGED <<queue, rest, managerMap, cache, held>>

-----------------------------------------------------------------------------
(* filter<T>::write, when the filters have returned content.               *)

\* write takes the first n units, perhaps less than it was offered.
Taken(content, n) ==
    IF content = <<>> THEN n = 0 ELSE n \in 1 .. MaxLine /\ n <= Len(content)

Takes(s, units) == IF s = "net" THEN ServiceTakes(units) ELSE UserTakes(units)

Pop(s) == queue' = [queue EXCEPT ![s] = Tail(@)]

\* NONE: the chunk is done when all of the content is written.
Write(s, content, marks) ==
    \E n \in 0 .. Len(content) :
       /\ Taken(content, n)
       /\ Takes(s, SubSeq(content, 1, n))
       /\ rest' = [rest EXCEPT ![s] = SubSeq(content, n + 1, Len(content))]
       /\ IF n = Len(content) THEN Pop(s) ELSE UNCHANGED queue
       /\ seen' = seen \cup marks

Lost(content, n) == {m \in {"lost"} : n < Len(content)}

\* NOTUSED: the chunk is done, whatever was written.
WriteNotUsed(s, content) ==
    \E n \in 0 .. Len(content) :
       /\ Taken(content, n)
       /\ Takes(s, SubSeq(content, 1, n))
       /\ Pop(s) /\ UNCHANGED rest
       /\ seen' = seen \cup Lost(content, n)

\* An earlier call could not write it all; no filter is asked.
Resume(s) == /\ queue[s] # <<>> /\ rest[s] # <<>>
             /\ Write(s, rest[s], {})
             /\ UNCHANGED <<conn, fds, managerMap, cache, held>>

\* The message that a text begins, on its way to side s.
HeadOf(s, text) == <<s, text[1][1], text[1][2]>>

\* The HTTP filter: a message without as much text as it announces is held back.
IsHeld(s, text) == /\ text # <<>> /\ text[1][3] = 1
                   /\ HeadOf(s, text) \in DOMAIN ContentLength
                   /\ Len(text) # ContentLength[HeadOf(s, text)]

\* Text that came out of one half of a manager goes through the filter and
\* into the other half: what this becomes, what the filter's map has then,
\* and whether the text is held back.
Filtered(s, e, in) ==
    LET heldText == held[s][fds[1]]
        text == heldText \o in
        hold == in # <<>> /\ IsHeld(s, text)
    IN  [ssl |-> IF in = <<>> \/ hold THEN e ELSE SslWrite(e, text),
         held |-> IF hold THEN text ELSE IF in = <<>> THEN heldText ELSE <<>>,
         hold |-> hold]

-----------------------------------------------------------------------------
(* httpsProxyFilter::filter and SSLManager::writeProxy.                    *)

\* Another user of the tunnel's number gets a new manager.
Manager == IF cache[fds[2]] # fds[1] THEN NewManager ELSE managerMap[fds[1]]

Keep(m) == /\ managerMap' = [managerMap EXCEPT ![fds[1]] = m]
           /\ cache' = [cache EXCEPT ![fds[2]] = fds[1]]

ClientLate == IsFinished(Manager.server) /\ ~IsFinished(Manager.client)

Asks == queue["net"] # <<>> /\ rest["net"] = <<>>

\* Mutant of AfterReused: the chunk counts as written.
AfterReusedDone == Pop("net")

\* REUSED: write returns 0, and the chunk will be offered again.
AfterReused == UNCHANGED queue

\* Only the user's handshake is finished: what the client half has to say is
\* written, and what does not go out is lost.
WriteReused ==
    /\ Asks /\ ClientLate
    /\ LET out == Manager.client.out
           k == IF Len(out) < MaxLine THEN Len(out) ELSE MaxLine
           content == SubSeq(out, 1, k)
       IN  \E n \in 0 .. k :
              /\ Taken(content, n)
              /\ ServiceTakes(SubSeq(content, 1, n))
              /\ Keep([Manager EXCEPT
                         !.client.out = SubSeq(out, k + 1, Len(out))])
              /\ seen' = seen \cup Lost(content, n)
    /\ AfterReused
    /\ UNCHANGED <<conn, fds, rest, held>>

\* Mutant of Fails: waiting for more is an error too.
FailsWaiting(server) == ~IsFinished(server)

Fails(server) == server.bad /\ ~IsFinished(server)

\* SSL_accept fails: a new manager, and write says that the chunk is written.
Reset(server) ==
    /\ Fails(server)
    /\ Keep(NewManager) /\ Pop("net")
    /\ seen' = seen \cup {"reset"}
    /\ UNCHANGED <<peers, rest, held>>

\* The text of the chunk goes to the client half, which must be ready for it,
\* and all this half has to say goes out.
PassOn(server) ==
    /\ ~Fails(server)
    /\ \E f \in {Filtered("net", Manager.client, server.in)} :
       LET early == {m \in {"early"} : server.in # <<>> /\ ~IsFinished(f.ssl)}
       IN  /\ Keep([server |-> Emptied(server), client |-> Drained(f.ssl)])
           /\ held' = [held EXCEPT !["net"][fds[1]] = f.held]
           /\ IF f.hold THEN WriteNotUsed("net", f.ssl.out)
              ELSE Write("net", f.ssl.out, early)

WriteProxy == /\ Asks /\ ~ClientLate
              /\ \E server \in {SslRead(Manager.server, Head(queue["net"]))} :
                    Reset(server) \/ PassOn(server)
              /\ UNCHANGED <<conn, fds>>

-----------------------------------------------------------------------------
(* httpsClientFilter::filter and SSLManager::writeClient.                  *)

WriteClient ==
    /\ queue["proxy"] # <<>> /\ rest["proxy"] = <<>>
    /\ \E client \in {SslRead(managerMap[fds[1]].client,
                             Head(queue["proxy"]))} :
       \E f \in {Filtered("proxy", managerMap[fds[1]].server, client.in)} :
           /\ managerMap' = [managerMap EXCEPT
                 ![fds[1]] = [server |-> Drained(f.ssl),
                              client |-> Emptied(client)]]
           /\ held' = [held EXCEPT !["proxy"][fds[1]] = f.held]
           /\ IF f.hold THEN WriteNotUsed("proxy", f.ssl.out)
              ELSE Write("proxy", f.ssl.out, {})
    /\ UNCHANGED <<conn, fds, cache>>

-----------------------------------------------------------------------------
OnRead == \E n \in 1 .. MaxLine : ReadUser(n) \/ ReadService(n)

OnWriteNet == Resume("net") \/ WriteReused \/ WriteProxy
OnWriteProxy == Resume("proxy") \/ WriteClient

Next == OnRead \/ OnWriteNet \/ OnWriteProxy \/ NextConnection

Spec == Init /\ [][Next]_vars

\* Both threads go on reading and writing.
FairSpec == /\ Spec /\ WF_vars(OnRead)
            /\ WF_vars(OnWriteNet) /\ WF_vars(OnWriteProxy)

-----------------------------------------------------------------------------
(* Properties. *)

TypeOK == /\ conn \in 1 .. MaxConns /\ fds \in UserFds \X TunnelFds
          /\ asked \in 0 .. Rounds /\ answered \in 0 .. Rounds
          /\ cache \in [TunnelFds -> UserFds \cup {0}]
          /\ \A u \in UserFds : \A half \in {"server", "client"} :
                /\ managerMap[u][half].done \in 0 .. 2 * Parts
                /\ managerMap[u][half].in = <<>>

\* What the service decrypts is the start of what the user sent, and the other
\* way round, however chunks are cut, offered again and held back - unless a
\* text came before the client half was ready, or the connection got numbers
\* that were used before.
NoGaps ==
    seen \cap {"early", "stale"} = {} =>
       /\ IsPrefix(service.in, Texts(conn, asked))
       /\ IsPrefix(user.in, Texts(conn, answered))

\* A handshake that goes well is not given up: only that with the manager of
\* an earlier connection is.
NoReset == "reset" \in seen => "stale" \in seen

\* A message of this connection is held that will never have the length the
\* filter waits for.
Misread == \E s \in Sides : LET text == held[s][fds[1]] IN
              text # <<>> /\ ContentLength[HeadOf(s, text)] # MsgLen

\* A user of a service gets all its responses, whether the halves of the
\* manager finish one before the other or not - unless its own flights were
\* cut, one of the above, or the filter waits for the wrong length.
Served ==
    \A c \in 1 .. MaxConns :
       conn = c ~> \/ conn # c \/ Len(user.in) = Rounds * MsgLen
                   \/ seen \cap {"cut", "lost", "early", "stale"} # {}
                   \/ Misread
==============================================================================
