------------------------------ MODULE UdpServer ------------------------------
(***************************************************************************)
(* The relay of udpServer::doProxy.  "proxy" is the side of the users' UDP *)
(* sockets (in the server process) or of those to the local service (in    *)
(* the client process), "net" the side of the TCP tunnels.  A step is a    *)
(* call of onRead, onWrite or onDispatch for a descriptor that is ready,   *)
(* in any order; how doDispatch comes to the call is modelled in TcpServer *)
(* and how frames are cut out of a tunnel in UdpFraming.  Only a new user  *)
(* and a new tunnel take several steps.                                    *)
(***************************************************************************)
EXTENDS PollTable, Sequences

CONSTANTS Types,       \* the roles to model, of {"SERVER", "CLIENT"}
          Listen,      \* the listening socket; lower numbers are taken
          Sends,       \* bound: how many datagrams each peer sends
          MaxTunnels,  \* bound: tunnels ever made
          MaxReply,    \* bound: frames the other process sends on a tunnel
          Faults       \* what goes wrong: "absent", "empty", "refused", "ends"

ASSUME UdpServerAssumption ==
    /\ Types \subseteq {"SERVER", "CLIENT"}
    /\ Slots \cup {Listen} \subseteq Fds /\ Listen # 0
    /\ Sends \in Seq(Nat) /\ Len(Sends) <= MaxTunnels
    /\ MaxTunnels \in Nat /\ MaxReply \in Nat

Sides == {"proxy", "net"}
Peers == DOMAIN Sends    \* users; or the service, as one peer for each tunnel
Tunnels == 1 .. MaxTunnels

VARIABLES
    type,      \* the role of this process: rigid
    sock,      \* kernel: what a descriptor is open on, what waits to be read,
               \* a pending error, and whether its stream has ended
    sent, got, \* datagrams each peer sent, and received
    asked, out,\* frames each tunnel brought, -1 before it is made, and took
    table,     \* the two dispatchers
    pc, cur, msg,  \* proxyThread, the socket it sets up, the first datagram
    tunnels,   \* tunnels on their way from the connection manager
    actualfds, \* tunnels on their way to netThread
    partner,   \* proxy2actualMap and actual2proxyMap, by side of the key;
               \* NoFd: no such key
    buffer,    \* proxyWriteBuffer and netWriteBuffer
    inserted,  \* history: descriptors each table was given
    seen       \* history: what went wrong so far

world == <<type, sent, got, asked, out>>
setup == <<pc, cur, msg, tunnels>>
maps == <<partner, actualfds>>
vars == <<world, sock, table, setup, maps, buffer, inserted, seen>>

NewSock(what) == [on |-> what, inbox |-> <<>>, err |-> FALSE, down |-> FALSE]
Closed == NewSock(<<"closed", 0>>)
Misc == NewSock(<<"misc", 0>>)
Listening == NewSock(<<"listening", 0>>)
Bound == NewSock(<<"bound", 0>>)
Nothing == <<0, 0, 0>>

Init ==
    /\ type \in Types
    /\ sock = [f \in Fds |-> IF f = Listen THEN Listening
                             ELSE IF f < Listen THEN Misc ELSE Closed]
    /\ sent = [u \in Peers |-> 0] /\ got = [u \in Peers |-> <<>>]
    /\ asked = [t \in Tunnels |-> -1] /\ out = [t \in Tunnels |-> <<>>]
    /\ table = [s \in Sides |-> NewTable(NoFd)]
    /\ pc = "start" /\ cur = NoFd /\ msg = Nothing
    /\ tunnels = <<>> /\ actualfds = <<>>
    /\ partner = [s \in Sides |-> [f \in Fds |-> NoFd]]
    /\ buffer = [s \in Sides |-> [f \in Fds |-> <<>>]]
    /\ inserted = [s \in Sides |-> {}]
    /\ seen = {}

-----------------------------------------------------------------------------
(* The kernel, the peers and the other process.                            *)

On(f) == sock[f].on

IsLowestFree(f) == sock[f] = Closed /\ \A g \in Fds : sock[g] = Closed => f <= g

\* Something of what had the number before is left: data, or a partner.
Stale(f) == {m \in {"stale"} :
    \E s \in Sides : \/ buffer[s][f] # <<>>
                    \/ \E g \in Fds : sock[g] # Closed /\ partner[s][g] = f}

\* A datagram <<peer, number, length>> arrives at a socket that is connected
\* to its sender, otherwise at one of those that only have the port.  The
\* service speaks to a socket it has heard from.
Arrive(u) ==
    /\ sent[u] < Sends[u]
    /\ type = "CLIENT" => got[u] # <<>>
    /\ sent' = [sent EXCEPT ![u] = @ + 1]
    /\ LET connected == {f \in Fds : On(f) = <<"peer", u>>}
           listening == {f \in Fds : On(f) \in {Listening.on, Bound.on}}
           sockets == IF connected = {} /\ type = "SERVER"
                      THEN listening ELSE connected
       IN  \E n \in {1} \cup {0 : e \in Faults \cap {"empty"}} :
              \/ \E f \in sockets :
                    /\ sock' = [sock EXCEPT
                          ![f].inbox = Append(@, <<u, sent[u] + 1, n>>)]
                    /\ seen' = seen \cup {m \in {"stolen"} :
                                          On(f) = Bound.on /\ u # msg[1]}
              \/ sockets = {} /\ UNCHANGED <<sock, seen>>
    /\ UNCHANGED <<type, got, asked, out, table, setup, maps, buffer, inserted>>

\* The next tunnel, from the connection manager of this process: for the
\* promise of a server, or as the client dials it.
Tunnel ==
    /\ IF type = "SERVER" THEN pc = "await" /\ tunnels = <<>> ELSE TRUE
    /\ \E t \in Tunnels, f \in Fds :
          /\ type = "CLIENT" => t \in Peers
          /\ asked[t] = -1 /\ \A j \in 1 .. t - 1 : asked[j] # -1
          /\ IsLowestFree(f)
          /\ sock' = [sock EXCEPT ![f] = NewSock(<<"tunnel", t>>)]
          /\ asked' = [asked EXCEPT ![t] = 0]
          /\ tunnels' = Append(tunnels, f)
          /\ seen' = seen \cup Stale(f)
    /\ UNCHANGED <<type, sent, got, out, table, pc, cur, msg, maps, buffer,
                   inserted>>

\* The promise is set to -1: there is no client.
NoClient ==
    /\ type = "SERVER" /\ "absent" \in Faults
    /\ pc = "await" /\ tunnels = <<>>
    /\ tunnels' = <<NoFd>>
    /\ seen' = seen \cup {"absent"}
    /\ UNCHANGED <<world, sock, table, pc, cur, msg, maps, buffer, inserted>>

\* The other process sends a frame, or ends: a server gets frames only for
\* what it sent.
Frame(f) ==
    /\ On(f)[1] = "tunnel" /\ ~sock[f].down
    /\ LET t == On(f)[2] IN
          \/ /\ asked[t] < MaxReply
             /\ type = "SERVER" => out[t] # <<>>
             /\ asked' = [asked EXCEPT ![t] = @ + 1]
             /\ sock' = [sock EXCEPT ![f].inbox =
                           Append(@, <<t, asked[t] + 1>>)]
             /\ UNCHANGED seen
          \/ /\ "ends" \in Faults
             /\ sock' = [sock EXCEPT ![f].down = TRUE]
             /\ seen' = seen \cup {"ends"}
             /\ UNCHANGED asked
    /\ UNCHANGED <<type, sent, got, out, table, setup, maps, buffer, inserted>>

-----------------------------------------------------------------------------
(* proxyThread: new users, and new tunnels at the client.                  *)

\* insert, on a descriptor whose socket is about to become x.
InsertInto(s, f, x) ==
    /\ inserted' = [inserted EXCEPT ![s] = @ \cup {f}]
    /\ IF IsFull(table[s])
       THEN /\ sock' = [sock EXCEPT ![f] = Closed]
            /\ seen' = seen \cup {s}
            /\ UNCHANGED table
       ELSE /\ sock' = [sock EXCEPT ![f] = x]
            /\ \E i \in Slots :
                  /\ IsFirstFree(table[s], i)
                  /\ table' = [table EXCEPT ![s] = InsertAt(@, i, f)]
            /\ UNCHANGED seen

Start ==
    /\ pc = "start"
    /\ InsertInto("proxy", Listen, sock[Listen])
    /\ pc' = "loop"
    /\ UNCHANGED <<world, cur, msg, tunnels, maps, buffer>>

\* recvfrom on the listening socket, and bindNewAddr: until connect the new
\* socket has the port to itself like the listening one.
Receive ==
    /\ pc = "loop" /\ Listen \in Registered(table["proxy"])
    /\ sock[Listen].inbox # <<>> /\ ~sock[Listen].err
    /\ msg' = Head(sock[Listen].inbox)
    /\ \E f \in Fds :
          /\ IsLowestFree(f)
          /\ sock' = [sock EXCEPT ![Listen].inbox = Tail(@), ![f] = Bound]
          /\ cur' = f
          /\ seen' = seen \cup Stale(f)
                \cup {m \in {"stale"} : type = "CLIENT" /\ partner["proxy"][f] # NoFd}
    /\ pc' = "bound"
    /\ UNCHANGED <<world, table, tunnels, maps, buffer, inserted>>

\* connect to the datagram's sender, and insert; a server's onConnect asks for
\* a tunnel.  (A client comes here when the number of its listening socket was
\* given to another socket.)
ConnectUser ==
    /\ pc = "bound"
    /\ InsertInto("proxy", cur, [sock[cur] EXCEPT !.on = <<"peer", msg[1]>>])
    /\ pc' = IF type = "SERVER" THEN "await" ELSE "push"
    /\ UNCHANGED <<world, cur, msg, tunnels, maps, buffer>>

\* Mutants of Couple: one map is not written; the tunnel is not passed on.
CoupleOneWay(f, g) ==
    /\ partner' = [partner EXCEPT !["proxy"][f] = g]
    /\ actualfds' = Append(actualfds, g)
CoupleAlone(f, g) ==
    /\ partner' = [partner EXCEPT !["proxy"][f] = g, !["net"][g] = f]
    /\ UNCHANGED actualfds

Couple(f, g) ==
    /\ partner' = [partner EXCEPT !["proxy"][f] = g, !["net"][g] = f]
    /\ actualfds' = Append(actualfds, g)

\* Mutant of ShutDown: close.
ShutDownClosing(x) == Closed

\* What shutdown makes of a socket: the number stays in use.
ShutDown(x) == [x EXCEPT !.down = TRUE]

\* The promise: couple, or shut down all that the map mentions.
TakePromise ==
    /\ pc = "await" /\ tunnels # <<>>
    /\ tunnels' = Tail(tunnels)
    /\ IF Head(tunnels) # NoFd
       THEN Couple(cur, Head(tunnels)) /\ UNCHANGED <<sock, seen>>
       ELSE /\ LET keys == {f \in Fds : partner["proxy"][f] # NoFd}
                   shut == keys \cup {partner["proxy"][f] : f \in keys}
               IN  /\ sock' = [f \in Fds |->
                        IF f \in shut /\ On(f)[1] \in {"peer", "tunnel"}
                        THEN ShutDown(sock[f]) ELSE sock[f]]
                   /\ seen' = seen \cup {m \in {"stale"} : cur \in keys}
            /\ UNCHANGED maps
    /\ pc' = "push"
    /\ UNCHANGED <<world, table, cur, msg, buffer, inserted>>

\* The first datagram goes where the map says now; operator[] of the map
\* makes a partner of 0 where there is none.
Push ==
    /\ pc = "push"
    /\ partner' = [partner EXCEPT !["proxy"][cur] = IF @ = NoFd THEN 0 ELSE @]
    /\ buffer' = [buffer EXCEPT !["net"][partner'["proxy"][cur]] =
                     Append(@, msg)]
    /\ pc' = "loop" /\ cur' = NoFd /\ msg' = Nothing
    /\ UNCHANGED <<world, sock, table, tunnels, actualfds, inserted, seen>>

\* The client's onDispatch: a socket to the local service for a new tunnel;
\* without a route both stay open for ever.
Dispatch ==
    /\ type = "CLIENT" /\ pc = "loop" /\ tunnels # <<>>
    /\ tunnels' = Tail(tunnels)
    /\ \E f \in Fds :
          /\ IsLowestFree(f)
          /\ \/ /\ sock' = [sock EXCEPT ![f] =
                              NewSock(<<"peer", On(Head(tunnels))[2]>>)]
                /\ Couple(f, Head(tunnels))
                /\ pc' = "insert" /\ cur' = f
                /\ seen' = seen \cup Stale(f)
             \/ /\ "absent" \in Faults
                /\ sock' = [sock EXCEPT ![f] = Misc]
                /\ seen' = seen \cup {"absent"}
                /\ UNCHANGED <<pc, cur, maps>>
    /\ UNCHANGED <<world, table, msg, buffer, inserted>>

InsertPeer ==
    /\ pc = "insert"
    /\ InsertInto("proxy", cur, sock[cur])
    /\ pc' = "loop" /\ cur' = NoFd
    /\ UNCHANGED <<world, msg, tunnels, maps, buffer>>

\* netThread's onDispatch.
TakeTunnel ==
    /\ actualfds # <<>>
    /\ actualfds' = Tail(actualfds)
    /\ InsertInto("net", Head(actualfds), sock[Head(actualfds)])
    /\ UNCHANGED <<world, setup, partner, buffer>>

-----------------------------------------------------------------------------
(* onRead and onWrite of the descriptor in slot i.                         *)

\* What remove is called with when a read returns 0 or -1: the slot's number.
Removed(s, i) == i

\* The socket in slot i has become x, and what remove finds is closed.
ReadFails(s, i, x) ==
    LET f == table[s].fd[i]
        victim == Victim(table[s], Removed(s, i))
    IN  /\ table' = [table EXCEPT ![s] = Vacate(@, Removed(s, i))]
        /\ sock' = [g \in Fds |-> IF g = victim THEN Closed
                                  ELSE IF g = f THEN x ELSE sock[g]]
        /\ seen' = seen \cup {"removed"}
        /\ UNCHANGED buffer

Kept == UNCHANGED <<table, seen>>

\* Mutant of Destination: the last tunnel made.
DestinationNewest(s, f) ==
    CHOOSE g \in Fds : /\ \E h \in Fds : partner[s][h] = g
                       /\ \A h \in Fds : partner[s][h] <= g

\* The other side's write buffer.
Destination(s, f) == partner[s][f]

\* A UDP socket: one datagram, an error, or the 0 of an empty datagram or of a
\* shut down socket.
ReadPeer(i) ==
    /\ pc = "loop"
    /\ LET f == table["proxy"].fd[i]
           x == sock[f]
       IN  /\ f \notin {NoFd, Listen} /\ (x.inbox # <<>> \/ x.down)
           /\ IF x.err \/ x.inbox = <<>>
              THEN ReadFails("proxy", i, [x EXCEPT !.err = FALSE])
              ELSE IF Head(x.inbox)[3] = 0
              THEN ReadFails("proxy", i, [x EXCEPT !.inbox = Tail(@)])
              ELSE /\ sock' = [sock EXCEPT ![f].inbox = Tail(@)]
                   /\ buffer' = [buffer EXCEPT
                         !["net"][Destination("proxy", f)] =
                             Append(@, Head(x.inbox))]
                   /\ Kept
    /\ UNCHANGED <<world, setup, maps, inserted>>

\* A tunnel: some of the frames that have come, or the end.
ReadTunnel(i) ==
    /\ LET g == table["net"].fd[i]
           x == sock[g]
       IN  /\ g # NoFd
           /\ \/ \E n \in 1 .. Len(x.inbox) :
                    /\ sock' = [sock EXCEPT
                          ![g].inbox = SubSeq(@, n + 1, Len(@))]
                    /\ buffer' = [buffer EXCEPT
                          !["proxy"][Destination("net", g)] =
                              @ \o SubSeq(x.inbox, 1, n)]
                    /\ Kept
              \/ x.inbox = <<>> /\ x.down /\ ReadFails("net", i, x)
    /\ UNCHANGED <<world, setup, maps, inserted>>

\* Mutant of Pop: the front stays where it is.
PopKept(s, f) == UNCHANGED buffer

Pop(s, f) == buffer' = [buffer EXCEPT ![s][f] = Tail(@)]

\* A datagram to the peer, who may be away: then an error comes back.  The
\* datagram at the front is gone whether write returned -1 or not.
WritePeer(i) ==
    /\ pc = "loop"
    /\ LET f == table["proxy"].fd[i]
           x == sock[f]
       IN  /\ f # NoFd /\ buffer["proxy"][f] # <<>>
           /\ \/ /\ ~x.err /\ ~x.down /\ x.on[1] = "peer"
                 /\ Pop("proxy", f)
                 /\ got' = [got EXCEPT ![x.on[2]] =
                              Append(@, Head(buffer["proxy"][f]))]
                 /\ \E e \in BOOLEAN : /\ e => "refused" \in Faults
                                       /\ sock' = [sock EXCEPT ![f].err = e]
                 /\ UNCHANGED seen
              \/ /\ x.err \/ x.down \/ x.on[1] # "peer"
                 /\ Pop("proxy", f)
                 /\ sock' = [sock EXCEPT ![f].err = FALSE]
                 /\ seen' = seen \cup {"dropped"}
                 /\ UNCHANGED got
    /\ UNCHANGED <<type, sent, asked, out, table, setup, maps, inserted>>

\* A frame to the tunnel; after the other process has ended it is lost, and
\* once write returns -1 what is left stays for ever.
WriteTunnel(i) ==
    /\ LET g == table["net"].fd[i] IN
           /\ g # NoFd /\ buffer["net"][g] # <<>>
           /\ \/ /\ Pop("net", g)
                 /\ IF sock[g].down THEN UNCHANGED out
                    ELSE out' = [out EXCEPT ![On(g)[2]] =
                                   Append(@, Head(buffer["net"][g]))]
              \/ sock[g].down /\ UNCHANGED <<buffer, out>>
    /\ UNCHANGED <<type, sent, got, asked, sock, table, setup, maps, inserted,
                   seen>>

-----------------------------------------------------------------------------
ProxyThread == \/ Start \/ Receive \/ ConnectUser \/ TakePromise \/ Push
               \/ Dispatch \/ InsertPeer
               \/ \E i \in Slots : ReadPeer(i) \/ WritePeer(i)

NetThread == TakeTunnel \/ \E i \in Slots : ReadTunnel(i) \/ WriteTunnel(i)

Next == \/ \E u \in Peers : Arrive(u)
        \/ Tunnel \/ NoClient \/ \E f \in Fds : Frame(f)
        \/ ProxyThread \/ NetThread

Spec == Init /\ [][Next]_vars

\* Both threads run, and a server's promise is fulfilled.
FairSpec == /\ Spec
            /\ WF_vars(type = "SERVER" /\ Tunnel)
            /\ WF_vars(ProxyThread) /\ WF_vars(NetThread)

-----------------------------------------------------------------------------
(* Properties. *)

TypeOK == /\ type \in Types
          /\ \A s \in Sides : table[s] \in Tables
          /\ partner \in [Sides -> [Fds -> Fds \cup {NoFd}]]
          /\ cur \in Fds \cup {NoFd}
          /\ \A i \in DOMAIN tunnels : tunnels[i] \in Fds \cup {NoFd}
          /\ \A i \in DOMAIN actualfds : actualfds[i] \in Fds
          /\ \A t \in Tunnels : asked[t] \in -1 .. MaxReply

\* Whom a tunnel is for: at a server the first user whose datagram it took.
Owner(t) == IF type = "CLIENT" THEN t ELSE out[t][1][1]

\* A tunnel takes the datagrams of one peer, and that peer alone gets the
\* replies of the tunnel, while remove closes the sockets of others - until a
\* number that the relay still has data or a partner for is in use again, or
\* a new socket got another user's datagram before it was connected.
NoMixing ==
    seen \cap {"stale", "stolen"} = {} =>
       /\ \A t \in Tunnels : \A i \in DOMAIN out[t] : out[t][i][1] = Owner(t)
       /\ \A u \in Peers : \A i \in DOMAIN got[u] : Owner(got[u][i][1]) = u

InOrder(q) == \A i, j \in DOMAIN q :
                 i < j /\ q[i][1] = q[j][1] => q[i][2] < q[j][2]

Once(q) == \A a, b \in DOMAIN q : \A i \in DOMAIN q[a], j \in DOMAIN q[b] :
              q[a][i] = q[b][j] => a = b /\ i = j

\* No datagram goes out twice, not even by two tunnels of the same user, and no
\* reply comes twice.  Each tunnel and each peer takes those of one sender in the
\* order they came, until a number that the relay still has data or a partner
\* for is in use again: two sockets of one user then may share a tunnel.
OnceInOrder ==
    /\ Once(out) /\ Once(got)
    /\ "stale" \notin seen => /\ \A t \in Tunnels : InOrder(out[t])
                              /\ \A u \in Peers : InOrder(got[u])

\* The table of each dispatcher goes through the steps of pollDispatcher, with
\* what remove is called with here: no descriptor is closed twice, none is
\* closed that the table does not hold.
OpenFds == {f \in Fds : sock[f] # Closed}
Users == INSTANCE PollDispatcher
            WITH Listeners <- {NoFd}, listener <- NoFd, open <- OpenFds,
                 table <- table["proxy"], known <- inserted["proxy"],
                 refused <- "proxy" \in seen
Net == INSTANCE PollDispatcher
          WITH Listeners <- {NoFd}, listener <- NoFd, open <- OpenFds,
               table <- table["net"], known <- inserted["net"],
               refused <- "net" \in seen
ImplementsTables == Users!Spec /\ Net!Spec

Excused(faults) == seen \cap faults # {}

\* Every datagram of a peer goes into a tunnel, though it arrived before its
\* socket existed and though the users' table be full - unless the client is
\* absent, a tunnel ended or was refused, or a read failed.  (Peers send a
\* bounded number of them: again and again nothing is missing.)
Sent(u, k) == \E t \in Tunnels : \E i \in DOMAIN out[t] :
                 out[t][i][1] = u /\ out[t][i][2] = k
Forwarded ==
    []<>(\/ \A u \in Peers : \A k \in 1 .. sent[u] : Sent(u, k)
         \/ Excused({"absent", "ends", "net", "removed"}))

\* Every datagram from a tunnel goes to a peer, unless besides that the peer
\* could not be reached or had no place in the table.
Received(t, k) == \E u \in Peers : \E i \in DOMAIN got[u] : got[u][i] = <<t, k>>
Replied ==
    []<>(\/ \A t \in Tunnels : \A k \in 1 .. asked[t] : Received(t, k)
         \/ Excused({"absent", "ends", "net", "removed", "dropped", "proxy"}))
==============================================================================
