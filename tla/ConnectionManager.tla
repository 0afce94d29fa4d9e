-------------------------- MODULE ConnectionManager --------------------------
(***************************************************************************)
(* How the two processes find each other: connectionManager::doManage in   *)
(* the server process, clientConnectionManager::doManage in the client     *)
(* process.  One control connection carries, after a challenge, a CONNECT  *)
(* per request of the server's proxyThread; the client answers with a      *)
(* token and dials a data connection, to the same port, that starts with   *)
(* the same token; the server hands that connection to proxyThread.        *)
(*                                                                         *)
(* Messages are pairs <<kind, number>>.  A read returns some of the        *)
(* messages that have arrived, at least one, and never part of one: they   *)
(* are a few bytes long and written by one call.                           *)
(***************************************************************************)
EXTENDS Integers, Sequences

CONSTANTS MaxAsk,      \* bound: users that ask for a tunnel
          MaxConns,    \* bound: connections ever made to the server's port
          MayQuit,     \* somebody types quit at the client
          MaxFault,    \* bound: crashes of either process, and connections
                       \* other than a control connection that fail
          MaxBreak     \* bound: control connections the network fails

ASSUME ConnectionManagerAssumption ==
    /\ {MaxAsk, MaxConns, MaxFault, MaxBreak} \subseteq Nat
    /\ MayQuit \in BOOLEAN

VARIABLES
    conn,     \* the connections, by number: what is in flight and each end
    backlog,  \* the server's listening socket
    server,   \* connectionManager's thread
    sockfds,  \* the queue of promises (requests, by number)
    answer,   \* per request: outstanding, gone, -1, or its data connection
    client,   \* clientConnectionManager's thread and its process
    quit,     \* *quitPtr
    wake,     \* main is connecting to the server's public port to wake it
    faults    \* history: crashes, restarts, broken control connections and
              \* handshakes; the tunnels' connections that failed or were
              \* broken, and the wake-up's; did the local service speak first

vars == <<conn, backlog, server, sockfds, answer, client, quit, wake, faults>>

Pending == 0
Gone == -2      \* the server process ended, and the user's connection with it
NoConnection == 0
IsAsking == answer # <<>> /\ answer[Len(answer)] = Pending

NewServer == [pc |-> "accept", conn |-> NoConnection, req |-> 0, res |-> <<>>,
              fd |-> NoConnection]
NewClient == [pc |-> "connect", conn |-> NoConnection, fd |-> NoConnection,
              req |-> 0, rand |-> 0, pushed |-> {}]

Init == /\ conn = <<>> /\ backlog = <<>>
        /\ server = NewServer
        /\ sockfds = <<>> /\ answer = <<>>
        /\ client = NewClient
        /\ quit = FALSE /\ wake = FALSE
        /\ faults = [crash |-> 0, restart |-> 0, break |-> 0, handshake |-> 0,
                     dial |-> 0, reset |-> 0, wake |-> 0, spoke |-> FALSE]

-----------------------------------------------------------------------------
(* Connections.  s and c are what the server's and the client's end would  *)
(* see after reading what is in flight: open (a read blocks), fin (it      *)
(* returns 0; one more write succeeds), gone (0; writes fail), broken      *)
(* (reads and writes return -1).                                           *)

NewConn(kind, req, data) ==
    [kind |-> kind, req |-> req, toS |-> data, toC |-> <<>>,
     s |-> "open", c |-> "open"]

Prefixes(q) == {SubSeq(q, 1, n) : n \in 1 .. Len(q)}
Rest(q, m) == SubSeq(q, Len(m) + 1, Len(q))

\* What ::read can return to an end: messages, <<>> at the end, or Error.
Error == <<<<"error", 0>>>>
Results(q, end) == IF q # <<>> THEN Prefixes(q)
                   ELSE CASE end \in {"fin", "gone"} -> {<<>>}
                          [] end = "broken"          -> {Error}
                          [] end = "open"            -> {}

Fails(end) == end \in {"gone", "broken"}
AfterWrite(end) == IF end = "fin" THEN "gone" ELSE end

\* Connection x after one end wrote m: lost unless both ends are there.
ServerWrote(x, m) ==
    [x EXCEPT !.toC = IF x.s = "open" /\ x.c # "broken"
                      THEN Append(@, m) ELSE @,
              !.s = AfterWrite(@)]
ClientWrote(x, m) ==
    [x EXCEPT !.toS = IF x.c = "open" /\ x.s # "broken"
                      THEN Append(@, m) ELSE @,
              !.c = AfterWrite(@)]

\* Connection x after close by one end, unless that end was broken already:
\* with unread data that is a reset.
Left(end, own, unread) == IF end # "open" \/ own = "broken" THEN end
                          ELSE IF unread = <<>> THEN "fin" ELSE "broken"
ServerClosed(x) == [x EXCEPT !.c = Left(@, x.s, x.toS)]
ClientClosed(x) == [x EXCEPT !.s = Left(@, x.c, x.toC)]

Close(i, Closed(_)) == conn' = [conn EXCEPT ![i] = Closed(@)]
ProcessEnds(Closed(_)) == conn' = [i \in DOMAIN conn |-> Closed(conn[i])]

Dial(kind, req, data) ==
    /\ Len(conn) < MaxConns
    /\ conn' = Append(conn, NewConn(kind, req, data))
    /\ backlog' = Append(backlog, Len(conn) + 1)

-----------------------------------------------------------------------------
(* Users, the relay of the client process, and what goes wrong.            *)

\* proxyThread pushes a promise and waits for it: one at a time.
Ask == /\ ~IsAsking /\ server.pc # "dead"
       /\ wake \/ Len(answer) < MaxAsk
       /\ wake' = FALSE
       /\ answer' = Append(answer, Pending)
       /\ sockfds' = Append(sockfds, Len(answer) + 1)
       /\ UNCHANGED <<conn, backlog, server, client, quit, faults>>

MayFault == faults.crash + faults.restart
               + faults.dial + faults.reset + faults.wake < MaxFault

\* The relay forwards what the local service says before it is sent anything.
Payload(i) ==
    /\ i \in client.pushed
    /\ conn' = [conn EXCEPT ![i] = ClientWrote(@, <<"payload", 0>>)]
    /\ client' = [client EXCEPT !.pushed = @ \ {i}]
    /\ faults' = [faults EXCEPT !.spoke = TRUE]
    /\ UNCHANGED <<backlog, server, sockfds, answer, quit, wake>>

\* Without a server the connection of the quit command fails, or the network
\* lets it fail.
WakeFails == /\ wake
             /\ wake' = FALSE
             /\ \/ server.pc = "dead" /\ UNCHANGED faults
                \/ /\ server.pc # "dead" /\ MayFault
                   /\ faults' = [faults EXCEPT !.wake = @ + 1]
             /\ UNCHANGED <<conn, backlog, server, sockfds, answer, client,
                            quit>>

Quit == /\ MayQuit /\ ~quit /\ client.pc \notin {"down", "exited"}
        /\ quit' = TRUE /\ wake' = TRUE
        /\ UNCHANGED <<conn, backlog, server, sockfds, answer, client, faults>>

Crash ==
    /\ MayFault /\ client.pc \notin {"down", "exited"}
    /\ faults' = [faults EXCEPT !.crash = @ + 1]
    /\ ProcessEnds(ClientClosed)
    /\ client' = [NewClient EXCEPT !.pc = "down"]
    /\ quit' = FALSE
    /\ UNCHANGED <<backlog, server, sockfds, answer, wake>>

Restart == /\ client.pc = "down"
           /\ client' = NewClient
           /\ UNCHANGED <<conn, backlog, server, sockfds, answer, quit, wake,
                          faults>>

\* The network breaks a connection: what was in flight is lost from some point
\* on, and one end learns of it, by keepalive or by a reset ...
NetworkBreaks(i) ==
    LET x == conn[i] IN
    /\ x.s = "open" /\ x.c = "open"
    /\ \E S \in {<<>>} \cup Prefixes(x.toS), C \in {<<>>} \cup Prefixes(x.toC),
          atServer \in BOOLEAN :
          conn' = [conn EXCEPT ![i] = [x EXCEPT
             !.toS = S, !.toC = C,
             !.s = IF atServer THEN "broken" ELSE @,
             !.c = IF atServer THEN @ ELSE "broken"]]
    /\ UNCHANGED <<backlog, server, sockfds, answer, client, quit, wake>>

\* ... the control connection, in its handshake or after it ...
Break ==
    /\ faults.break < MaxBreak /\ client.conn # NoConnection
    /\ NetworkBreaks(client.conn)
    /\ faults' = [faults EXCEPT !.break = @ + 1,
          !.handshake = IF client.pc \in {"challenge", "result"}
                        THEN @ + 1 ELSE @]

\* ... or a tunnel's, while the client dials it, in the backlog, or before the
\* server reads its token.
Reset ==
    /\ MayFault
    /\ \E i \in DOMAIN conn :
          /\ conn[i].kind = "data"
          /\ \/ i \in {client.fd, server.fd, server.conn}
             \/ \E k \in DOMAIN backlog : backlog[k] = i
          /\ NetworkBreaks(i)
    /\ faults' = [faults EXCEPT !.reset = @ + 1]

\* Keepalive is set where a control connection is made and where it is accepted
\* as one: the other end learns of the break, unless it is the server's and the
\* server took the connection for a tunnel's.
KeepAlive ==
    /\ \E i \in DOMAIN conn :
          /\ conn[i].kind = "control"
          /\ {conn[i].s, conn[i].c} = {"open", "broken"}
          /\ i = server.fd => conn[i].c = "open"
          /\ conn' = [conn EXCEPT ![i].s = "broken", ![i].c = "broken"]
    /\ UNCHANGED <<backlog, server, sockfds, answer, client, quit, wake,
                   faults>>

-----------------------------------------------------------------------------
(* connectionManager::doManage.                                            *)

serverKeeps == <<client, quit, wake, faults>>

Answer(v) == answer' = [answer EXCEPT ![server.req] = v]

\* An uncaught std::length_error of std::string(buf, -1) ends the process.
ServerDies == /\ server' = [server EXCEPT !.pc = "dead"]
              /\ ProcessEnds(ServerClosed)

\* The server process crashes, its users' connections and listeners with it ...
ServerCrash ==
    /\ MayFault /\ server.pc # "dead"
    /\ ServerDies
    /\ faults' = [faults EXCEPT !.restart = @ + 1]
    /\ UNCHANGED <<backlog, sockfds, answer, client, quit, wake>>

\* ... and is started again, as it is after an exception.
ServerRestart ==
    /\ server.pc = "dead"
    /\ server' = NewServer
    /\ backlog' = <<>> /\ sockfds' = <<>>
    /\ answer' = [r \in DOMAIN answer |->
                     IF answer[r] = Pending THEN Gone ELSE answer[r]]
    /\ UNCHANGED <<conn, serverKeeps>>

\* accept and the challenge.
ServerAccept ==
    /\ server.pc = "accept" /\ backlog # <<>>
    /\ backlog' = Tail(backlog)
    /\ conn' = [conn EXCEPT ![Head(backlog)] =
                  ServerWrote(@, <<"challenge", 0>>)]
    /\ server' = [server EXCEPT !.pc = "answer", !.conn = Head(backlog)]
    /\ UNCHANGED <<sockfds, answer, serverKeeps>>

\* The answer: success, or close and accept the next.
ServerAnswer ==
    /\ server.pc = "answer"
    /\ \E m \in Results(conn[server.conn].toS, conn[server.conn].s) :
          LET read == [conn[server.conn] EXCEPT !.toS = Rest(@, m)] IN
          CASE m = Error -> ServerDies
            [] m # Error /\ m # <<>> /\ m[1] = <<"answer", 0>> ->
                  /\ conn' = [conn EXCEPT ![server.conn] =
                                ServerWrote(read, <<"success", 0>>)]
                  /\ server' = [server EXCEPT !.pc = "ready"]
            [] OTHER ->
                  /\ conn' = [conn EXCEPT ![server.conn] = ServerClosed(read)]
                  /\ server' = [server EXCEPT !.pc = "accept"]
    /\ UNCHANGED <<backlog, sockfds, answer, serverKeeps>>

\* "ready": what read returns is not looked at.
ServerReady ==
    /\ server.pc = "ready"
    /\ \E m \in Results(conn[server.conn].toS, conn[server.conn].s) :
          conn' = [conn EXCEPT ![server.conn].toS = Rest(@, m)]
    /\ server' = [server EXCEPT !.pc = "pop"]
    /\ UNCHANGED <<backlog, sockfds, answer, serverKeeps>>

ServerPop ==
    /\ server.pc = "pop" /\ sockfds # <<>>
    /\ sockfds' = Tail(sockfds)
    /\ server' = [server EXCEPT !.pc = "send", !.req = Head(sockfds)]
    /\ UNCHANGED <<conn, backlog, answer, serverKeeps>>

\* Mutants of BrokenPipe: the promise is dropped, or put back without being
\* moved; the exception of std::string(buffer, -1); an error is a reply.
BrokenPipeDropping ==
    /\ Close(server.conn, ServerClosed)
    /\ server' = [server EXCEPT !.pc = "accept", !.req = 0]
    /\ UNCHANGED sockfds
BrokenPipeKeeping ==
    /\ Close(server.conn, ServerClosed)
    /\ sockfds' = Append(sockfds, server.req)
    /\ server' = [server EXCEPT !.pc = "accept"]
BrokenPipeThrows == ServerDies /\ UNCHANGED sockfds
BrokenPipeReplies == /\ server' = [server EXCEPT !.pc = "data", !.res = <<>>]
                     /\ UNCHANGED <<conn, sockfds>>

\* brokenPipe: close, put the promise back, accept a new control connection.
BrokenPipe ==
    /\ Close(server.conn, ServerClosed)
    /\ sockfds' = Append(sockfds, server.req)
    /\ server' = [server EXCEPT !.pc = "accept", !.req = 0]

ServerSend ==
    /\ server.pc = "send"
    /\ IF Fails(conn[server.conn].s)
       THEN BrokenPipe
       ELSE /\ conn' = [conn EXCEPT ![server.conn] =
                          ServerWrote(@, <<"CONNECT", server.req>>)]
            /\ server' = [server EXCEPT !.pc = "reply"]
            /\ UNCHANGED sockfds
    /\ UNCHANGED <<backlog, answer, serverKeeps>>

\* The reply: only -1 is an error, the end of the stream is an empty token.
ServerReply ==
    /\ server.pc = "reply"
    /\ \E m \in Results(conn[server.conn].toS, conn[server.conn].s) :
          IF m = Error THEN BrokenPipe /\ UNCHANGED answer
          ELSE /\ conn' = [conn EXCEPT ![server.conn].toS = Rest(@, m)]
               /\ UNCHANGED sockfds
               /\ IF m # <<>> /\ m[1] = <<"logout", 0>>
                  THEN /\ Answer(-1)
                       /\ server' = [server EXCEPT !.pc = "accept", !.req = 0]
                  ELSE /\ server' = [server EXCEPT !.pc = "data", !.res = m]
                       /\ UNCHANGED answer
    /\ UNCHANGED <<backlog, serverKeeps>>

\* The next connection to the port is taken for the data connection.
ServerData ==
    /\ server.pc = "data" /\ backlog # <<>>
    /\ backlog' = Tail(backlog)
    /\ server' = [server EXCEPT !.pc = "token", !.fd = Head(backlog)]
    /\ UNCHANGED <<conn, sockfds, answer, serverKeeps>>

\* Mutant of Tunnel: connfd for fd.
TunnelControl == server.conn

\* The descriptor the promise is set to.
Tunnel == server.fd

ServerToken ==
    /\ server.pc = "token"
    /\ \E m \in Results(conn[server.fd].toS, conn[server.fd].s) :
          IF m = Error THEN ServerDies /\ UNCHANGED answer
          ELSE /\ conn' = [conn EXCEPT ![server.fd].toS = Rest(@, m)]
               /\ Answer(IF m = server.res THEN Tunnel ELSE -1)
               /\ server' = [server EXCEPT
                     !.pc = IF m = server.res THEN "pop" ELSE "accept",
                     !.req = 0, !.res = <<>>, !.fd = NoConnection]
    /\ UNCHANGED <<backlog, sockfds, serverKeeps>>

Server == \/ ServerAccept \/ ServerAnswer \/ ServerReady \/ ServerPop
          \/ ServerSend \/ ServerReply \/ ServerData \/ ServerToken

-----------------------------------------------------------------------------
(* clientConnectionManager::doManage.                                      *)

clientKeeps == <<server, sockfds, answer, quit, wake>>

\* An uncaught exception, or the end of main, ends the client process.
ClientEnds(how) == /\ ProcessEnds(ClientClosed)
                   /\ client' = [NewClient EXCEPT !.pc = how]

\* connect; without a server, or over a network that is still down, the
\* handshake fails and the process dies.
ClientConnect ==
    /\ client.pc = "connect"
    /\ \/ /\ server.pc # "dead"
          /\ Dial("control", 0, <<>>)
          /\ client' = [client EXCEPT !.pc = "challenge",
                                      !.conn = Len(conn) + 1]
          /\ UNCHANGED faults
       \/ /\ server.pc = "dead"
          /\ ClientEnds("exited") /\ UNCHANGED <<backlog, faults>>
       \/ /\ server.pc # "dead" /\ faults.break < MaxBreak
          /\ ClientEnds("exited") /\ UNCHANGED backlog
          /\ faults' = [faults EXCEPT !.break = @ + 1, !.handshake = @ + 1]
    /\ UNCHANGED clientKeeps

\* Whatever was read is taken for the challenge.
ClientChallenge ==
    /\ client.pc = "challenge"
    /\ \E m \in Results(conn[client.conn].toC, conn[client.conn].c) :
          LET x == [conn[client.conn] EXCEPT !.toC = Rest(@, m)]
              right == m # <<>> /\ m[1] = <<"challenge", 0>>
          IN  conn' = [conn EXCEPT ![client.conn] =
                         ClientWrote(x, <<"answer", IF right THEN 0 ELSE 1>>)]
    /\ client' = [client EXCEPT !.pc = "result"]
    /\ UNCHANGED <<backlog, clientKeeps, faults>>

ClientResult ==
    /\ client.pc = "result"
    /\ \E m \in Results(conn[client.conn].toC, conn[client.conn].c) :
          LET x == [conn[client.conn] EXCEPT !.toC = Rest(@, m)] IN
          IF m # <<>> /\ m[1] = <<"success", 0>>
          THEN /\ conn' = [conn EXCEPT ![client.conn] =
                             ClientWrote(x, <<"ready", 0>>)]
               /\ client' = [client EXCEPT !.pc = "read", !.rand = @ + 1]
          ELSE ClientEnds("exited")
    /\ UNCHANGED <<backlog, clientKeeps, faults>>

\* close and goto reconnect.
Reconnect == /\ Close(client.conn, ClientClosed)
             /\ client' = [client EXCEPT !.pc = "connect",
                                         !.conn = NoConnection]

\* Anything but -1, the end of the stream too, is taken for a CONNECT.
ClientRead ==
    /\ client.pc = "read"
    /\ \E m \in Results(conn[client.conn].toC, conn[client.conn].c) :
          IF m = Error THEN Reconnect
          ELSE /\ conn' = [conn EXCEPT ![client.conn].toC = Rest(@, m)]
               /\ client' = [client EXCEPT !.pc = "check",
                     !.req = IF m = <<>> THEN 0 ELSE m[1][2]]
    /\ UNCHANGED <<backlog, clientKeeps, faults>>

\* Mutant of QuitSeen: *quitPtr is not looked at.
QuitUnseen == FALSE

QuitSeen == quit

\* Log out, or send the token.
ClientCheck ==
    /\ client.pc = "check"
    /\ LET x == conn[client.conn] IN
       \/ /\ QuitSeen
          /\ conn' = [conn EXCEPT ![client.conn] =
                        ClientWrote(x, <<"logout", 0>>)]
          /\ client' = [client EXCEPT !.pc = "leave"]
       \/ /\ ~QuitSeen /\ ~Fails(x.c)
          /\ conn' = [conn EXCEPT ![client.conn] =
                        ClientWrote(x, <<"token", client.rand>>)]
          /\ client' = [client EXCEPT !.pc = "dial"]
       \/ ~QuitSeen /\ Fails(x.c) /\ Reconnect
    /\ UNCHANGED <<backlog, clientKeeps, faults>>

\* The data connection; without a server, or when the network lets it fail,
\* back to reading: the server that was sent the token is not told.
ClientDial ==
    /\ client.pc = "dial"
    /\ \/ /\ server.pc # "dead"
          /\ Dial("data", client.req, <<>>)
          /\ client' = [client EXCEPT !.pc = "token", !.fd = Len(conn) + 1]
          /\ UNCHANGED faults
       \/ /\ client' = [client EXCEPT !.pc = "read", !.rand = @ + 1]
          /\ UNCHANGED <<conn, backlog>>
          /\ \/ server.pc = "dead" /\ UNCHANGED faults
             \/ /\ server.pc # "dead" /\ MayFault
                /\ faults' = [faults EXCEPT !.dial = @ + 1]
    /\ UNCHANGED clientKeeps

\* Mutant of DataToken: a new number instead of the one that was sent.
DataTokenNew == <<"token", client.rand + 1>>

DataToken == <<"token", client.rand>>

\* The token again, then the relay gets the connection.
ClientToken ==
    /\ client.pc = "token"
    /\ conn' = [conn EXCEPT ![client.fd] =
                  ClientWrote(@, DataToken)]
    /\ client' = [client EXCEPT !.pc = "read", !.rand = @ + 1,
                     !.fd = NoConnection, !.pushed = @ \cup {client.fd}]
    /\ UNCHANGED <<backlog, clientKeeps, faults>>

\* manageThread has ended and main ends.
ClientLeave == /\ client.pc = "leave"
               /\ ClientEnds("exited")
               /\ UNCHANGED <<backlog, clientKeeps, faults>>

Client == \/ ClientConnect \/ ClientChallenge \/ ClientResult \/ ClientRead
          \/ ClientCheck \/ ClientDial \/ ClientToken \/ ClientLeave

-----------------------------------------------------------------------------
Next == \/ Ask \/ WakeFails \/ Quit
        \/ Crash \/ Restart \/ ServerCrash \/ ServerRestart
        \/ Break \/ Reset \/ KeepAlive
        \/ \E i \in DOMAIN conn : Payload(i)
        \/ Server \/ Client

Spec == Init /\ [][Next]_vars

\* Both managers run, keepalive finds a dead connection, a client that crashed
\* is started again, and so is a server, and the quit command makes its connection
\* or finds no server.  No fault has to happen.
FairSpec == /\ Spec
            /\ WF_vars(Server) /\ WF_vars(Client) /\ WF_vars(Restart)
            /\ WF_vars(KeepAlive)
            /\ WF_vars(wake /\ Ask) /\ WF_vars(server.pc = "dead" /\ WakeFails)
            /\ WF_vars(ServerRestart)

-----------------------------------------------------------------------------
(* Properties. *)

Ids == 0 .. MaxConns

ProcessesStay == faults.crash = 0 /\ faults.restart = 0

TypeOK ==
    /\ Len(conn) <= MaxConns
    /\ \A i \in DOMAIN conn : {conn[i].s, conn[i].c} \subseteq
                                {"open", "fin", "gone", "broken"}
    /\ \A i \in DOMAIN backlog : backlog[i] \in Ids \ {0}
    /\ server.pc \in {"accept", "answer", "ready", "pop", "send", "reply",
                      "data", "token", "dead"}
    /\ server.conn \in Ids /\ server.fd \in Ids
    /\ \/ server.pc = "dead"
       \/ /\ server.req # 0 <=> server.pc \in {"send", "reply", "data", "token"}
          /\ server.fd # NoConnection <=> server.pc = "token"
    /\ client.pc \in {"connect", "challenge", "result", "read", "check",
                      "dial", "token", "leave", "down", "exited"}
    /\ client.conn \in Ids /\ client.fd \in Ids
    /\ \A r \in DOMAIN answer : answer[r] \in {-1, Gone} \cup Ids
    /\ quit \in BOOLEAN /\ wake \in BOOLEAN

\* A promise that is not fulfilled is in the queue or in the manager's hand,
\* once: neither a broken control connection nor a failed handshake drops it.
RequestKept ==
    server.pc # "dead" =>
        LET held == IF server.req = 0 THEN <<>> ELSE <<server.req>> IN
        sockfds \o held = IF IsAsking THEN <<Len(answer)>> ELSE <<>>

\* The tunnel a user gets is a data connection that was dialled for this
\* user's request, and nobody else has it.  A restart of either process does
\* not change that: not the client's tokens that start over, nor the tunnel a
\* client dials for the end of its stream, which a restarted server takes for
\* a control connection.  After a second restart of the client the server can
\* compare two ends of streams as tokens.
RightTunnel ==
    \A r \in DOMAIN answer :
        (answer[r] > 0 /\ faults.crash <= 1) =>
           /\ conn[answer[r]].kind = "data"
           /\ conn[answer[r]].req = r
           /\ \A q \in DOMAIN answer \ {r} : answer[q] # answer[r]

\* While the client process stays up and the tunnels it dials connect, the two
\* managers never wait for each other, a restarted server and connections that
\* break included: the server for a token on a connection where the client
\* waits for the challenge.  After a dial that failed they do: the server is
\* left in accept, and the client's next control connection is what it gets.
NoMutualWait ==
    (faults.crash = 0 /\ faults.dial = 0) =>
        ~ /\ server.pc = "token" /\ client.pc = "challenge"
          /\ server.fd = client.conn

\* A control connection that breaks ends neither process, once its handshake is
\* over, nor does a tunnel or a wake-up that cannot be dialled.  What does is a
\* reconnect that fails and a tunnel's connection that is reset before its token
\* was read; crashes of the processes themselves are another matter.
Survives == (server.pc = "dead" \/ client.pc = "exited") =>
               quit \/ faults.handshake > 0 \/ faults.reset > 0 \/ ~ProcessesStay

\* A user whose connection is made while the client is there gets a tunnel: -1
\* only after quit, after a crash of the client, and for a service that speaks
\* first.  A restart of the server refuses nobody.
Refused == \E r \in DOMAIN answer : answer[r] = -1
RefusedOnlyAfterQuit == Refused => quit \/ faults.spoke \/ faults.crash > 0

\* Every user gets an answer while the client runs, also when the control
\* connection breaks on the way or the server was started again; a client that
\* finds no server to reconnect to ends.  A tunnel that could not be dialled or
\* was reset leaves the server in accept, or in read, with the promise in hand.
Answered == IsAsking ~> \/ ~IsAsking \/ quit \/ client.pc = "exited"
                       \/ faults.handshake > 0 \/ faults.spoke
                       \/ faults.dial > 0 \/ faults.reset > 0
                       \/ faults.crash > 0

\* quit ends the client process, while the server stays: a server that restarts
\* in the same moment misses the connection that would wake the client.  So does
\* one that waits for a tunnel that could not be dialled or was reset, and the
\* network can fail the connection of the quit command itself.
QuitEnds == quit ~> \/ client.pc = "exited" \/ faults.spoke \/ ~ProcessesStay
                    \/ faults.dial > 0 \/ faults.reset > 0 \/ faults.wake > 0

\* The port of the local service is mapped: users get tunnels.
PortMapped == \A r \in 1 .. MaxAsk :
                 Len(answer) = r ~> (r \in DOMAIN answer /\ answer[r] > 0)
==============================================================================
