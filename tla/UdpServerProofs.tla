--------------------------- MODULE UdpServerProofs ---------------------------
(***************************************************************************)
(* Proofs about UdpServer, for every number of peers, tunnels, datagrams,  *)
(* descriptors and slots, in both roles.                                   *)
(***************************************************************************)
EXTENDS UdpServer, PollTableProofs, SequenceTheorems

Datagrams == Peers \X Nat \X {0, 1}
Frames == Tunnels \X Nat
Units == Datagrams \cup Frames
Marks == {"stale", "stolen", "absent", "ends", "removed", "dropped"} \cup Sides

Kind(x) == x.on[1]

\* What a descriptor can be open on, and what can wait there.
Whats == ({"closed", "misc", "listening", "bound"} \X {0})
            \cup ({"peer"} \X Peers) \cup ({"tunnel"} \X Tunnels)
Socks == {x \in [on : Whats, inbox : Seq(Units), err : BOOLEAN, down : BOOLEAN] :
             /\ x.inbox \in Seq(IF Kind(x) = "tunnel" THEN Frames ELSE Datagrams)
             /\ Kind(x) = "closed" => x = Closed}

Typed ==
    /\ type \in Types
    /\ sock \in [Fds -> Socks]
    /\ sent \in [Peers -> Nat] /\ got \in [Peers -> Seq(Frames)]
    /\ asked \in [Tunnels -> -1 .. MaxReply] /\ out \in [Tunnels -> Seq(Datagrams)]
    /\ table \in [Sides -> Tables] /\ \A s \in Sides : TableOK(table[s])
    /\ pc \in {"start", "loop", "bound", "await", "push", "insert"}
    /\ cur \in Fds \cup {NoFd} /\ msg \in Datagrams \cup {Nothing}
    /\ tunnels \in Seq(Fds \cup {NoFd}) /\ actualfds \in Seq(Fds)
    /\ partner \in [Sides -> [Fds -> Fds \cup {NoFd}]]
    /\ buffer \in [Sides -> [Fds -> Seq(Units)]]
    /\ \A f \in Fds : /\ buffer["net"][f] \in Seq(Datagrams)
                      /\ buffer["proxy"][f] \in Seq(Frames)
    /\ inserted \in [Sides -> SUBSET Fds]
    /\ seen \in SUBSET Marks

\* Each table holds sockets of its own kind; standard input is never closed.
Kinds ==
    /\ Kind(sock[0]) = "misc"
    /\ \A f \in Fds : /\ Kind(sock[f]) = "listening" => f = Listen
                      /\ Kind(sock[f]) = "bound" => pc = "bound" /\ f = cur
    /\ \A f \in Registered(table["proxy"]) : Kind(sock[f]) \in {"listening", "peer"}
    /\ \A f \in Registered(table["net"]) : Kind(sock[f]) = "tunnel"

\* What proxyThread has in its hand, by where it is.
Hands ==
    /\ pc = "start" => /\ Kind(sock[Listen]) = "listening"
                       /\ Listen \notin Registered(table["proxy"])
    /\ pc \in {"bound", "await", "push", "insert"} => cur \in Fds
    /\ pc \in {"bound", "await", "push"} => msg \in Datagrams
    /\ pc = "bound" => Kind(sock[cur]) = "bound"
    /\ pc = "await" => type = "SERVER"
    /\ pc = "insert" => /\ type = "CLIENT" /\ Kind(sock[cur]) = "peer"
                        /\ cur \notin Registered(table["proxy"])

\* Tunnels between the connection manager and netThread's table.
Waiting ==
    /\ \A i \in DOMAIN tunnels :
          /\ tunnels[i] = NoFd => type = "SERVER"
          /\ tunnels[i] # NoFd =>
                /\ Kind(sock[tunnels[i]]) = "tunnel"
                /\ tunnels[i] \notin Registered(table["net"])
                /\ \A j \in DOMAIN tunnels : tunnels[j] = tunnels[i] => i = j
                /\ \A j \in DOMAIN actualfds : actualfds[j] # tunnels[i]
    /\ \A i \in DOMAIN actualfds :
          /\ Kind(sock[actualfds[i]]) = "tunnel"
          /\ actualfds[i] \notin Registered(table["net"])
          /\ \A j \in DOMAIN actualfds : actualfds[j] = actualfds[i] => i = j
    /\ type = "CLIENT" => \A f \in Fds : Kind(sock[f]) = "tunnel" => On(f)[2] \in Peers

\* Tunnels and their descriptors: one for each, none before it is made.
OneEach ==
    \A t \in Tunnels :
       /\ \A f, g \in Fds : On(f) = <<"tunnel", t>> /\ On(g) = <<"tunnel", t>> => f = g
       /\ asked[t] = -1 => out[t] = <<>> /\ \A f \in Fds : On(f) # <<"tunnel", t>>

Base == Typed /\ Kinds /\ Hands /\ Waiting /\ OneEach

-----------------------------------------------------------------------------
(* Whose datagrams are where.                                              *)

Clean == seen \cap {"stale", "stolen"} = {}

From(q, u) == \A i \in DOMAIN q : q[i][1] = u

\* The sockets onRead reads from, and the tunnels whose frames have a way back.
Linked == {f \in Fds : /\ Kind(sock[f]) = "peer"
                       /\ \/ f \in Registered(table["proxy"]) /\ ~(pc = "await" /\ f = cur)
                          \/ pc = "insert" /\ f = cur}
Fed == Registered(table["net"]) \cup {actualfds[i] : i \in DOMAIN actualfds}

\* The one peer of the tunnel on descriptor g.
IsFor(g, u) ==
    LET t == On(g)[2] IN
    /\ From(out[t], u) /\ From(buffer["net"][g], u)
    /\ \A f \in Linked : partner["proxy"][f] = g => On(f)[2] = u
    /\ g \in Fed /\ partner["net"][g] \in Fds /\ Kind(sock[partner["net"][g]]) = "peer" =>
          On(partner["net"][g])[2] = u
    /\ pc = "push" /\ partner["proxy"][cur] = g => msg[1] = u
    /\ type = "CLIENT" => u = t

\* A reply knows its peer.
IsReplyTo(e, u) == /\ type = "SERVER" => out[e[1]] # <<>>
                   /\ Owner(e[1]) = u

Inboxes ==
    /\ \A f \in Fds : Kind(sock[f]) = "peer" => From(sock[f].inbox, On(f)[2])
    /\ pc = "bound" => From(sock[cur].inbox, msg[1])
    /\ \A g \in Fds : Kind(sock[g]) = "tunnel" =>
          /\ From(sock[g].inbox, On(g)[2])
          /\ type = "SERVER" /\ sock[g].inbox # <<>> => out[On(g)[2]] # <<>>

\* The user that waits for its tunnel, and the tunnels that wait for theirs.
Setup ==
    /\ pc \in {"bound", "await"} => \A g \in Fed : partner["net"][g] # cur
    /\ pc = "bound" => buffer["proxy"][cur] = <<>>
    /\ pc = "bound" /\ type = "CLIENT" => partner["proxy"][cur] = NoFd
    /\ pc = "push" /\ type = "CLIENT" => partner["proxy"][cur] = NoFd
    /\ pc \in {"await", "push"} /\ Kind(sock[cur]) = "peer" => On(cur)[2] = msg[1]
    /\ \A i \in DOMAIN tunnels : LET g == tunnels[i] IN g # NoFd =>
          /\ out[On(g)[2]] = <<>> /\ buffer["net"][g] = <<>>
          /\ \A f \in Linked : partner["proxy"][f] # g
          /\ pc = "push" => partner["proxy"][cur] # g

Routed ==
    /\ \A g \in Fds : Kind(sock[g]) = "tunnel" => \E u \in Peers : IsFor(g, u)
    /\ \A t \in Tunnels : \A i \in DOMAIN out[t] : out[t][i][1] = Owner(t)

Replies ==
    /\ \A f \in Fds : Kind(sock[f]) = "peer" =>
          \A i \in DOMAIN buffer["proxy"][f] : IsReplyTo(buffer["proxy"][f][i], On(f)[2])
    /\ \A u \in Peers : \A i \in DOMAIN got[u] : IsReplyTo(got[u][i], u)

Apart == Inboxes /\ Setup /\ Routed /\ Replies

IInv == Base /\ (Clean => Apart)
-----------------------------------------------------------------------------
(* Sockets.                                                                *)

\* The numbers that are always descriptors.
LEMMA Constants ==
  /\ Fds \subseteq Nat /\ 0 \in Fds /\ Listen \in Fds /\ Listen > 0
  /\ NoFd \notin Fds /\ NoFd = -1 /\ Slots \subseteq Fds
  /\ MaxTunnels \in Nat /\ Peers \subseteq Tunnels /\ Peers \subseteq Nat
  /\ \A u \in Peers : Sends[u] \in Nat
  /\ Types \subseteq {"SERVER", "CLIENT"} /\ MaxReply \in Nat
<1>1. Peers = 1 .. Len(Sends) /\ Len(Sends) \in Nat /\ \A u \in Peers : Sends[u] \in Nat
  BY UdpServerAssumption DEF Peers
<1>2. /\ Len(Sends) <= MaxTunnels /\ MaxTunnels \in Nat /\ MaxReply \in Nat
      /\ Types \subseteq {"SERVER", "CLIENT"}
      /\ Slots \subseteq Fds /\ Listen \in Fds /\ Listen # 0
  BY UdpServerAssumption
<1>3. Peers \subseteq Tunnels /\ Peers \subseteq Nat
  BY <1>1, <1>2 DEF Tunnels
<1>4. Fds \subseteq Nat /\ 0 \in Fds /\ NoFd \notin Fds /\ NoFd = -1 /\ Listen > 0
  BY <1>2, FdsAssumption, SlotsAndFds DEF NoFd
<1> QED BY <1>1, <1>2, <1>3, <1>4

\* What a descriptor is open on, taken apart.
LEMMA WhatFields ==
  ASSUME NEW w \in Whats
  PROVE  /\ w = <<w[1], w[2]>>
         /\ w[1] \in {"closed", "misc", "listening", "bound", "peer", "tunnel"}
         /\ w[1] = "peer" => w[2] \in Peers
         /\ w[1] = "tunnel" => w[2] \in Tunnels
         /\ w[1] \notin {"peer", "tunnel"} => w[2] = 0
  BY DEF Whats

\* The sequences that can wait on a socket open on w.
InboxesOf(w) == Seq(IF w[1] = "tunnel" THEN Frames ELSE Datagrams)

\* Both kinds of sequences are sequences of units.
LEMMA UnitSeqs ==
  /\ Seq(Frames) \subseteq Seq(Units) /\ Seq(Datagrams) \subseteq Seq(Units)
  /\ \A w : InboxesOf(w) \subseteq Seq(Units)
  /\ \A w : <<>> \in InboxesOf(w)
  BY DEF Units, InboxesOf

\* A socket, taken apart.
LEMMA SockFields ==
  ASSUME NEW x \in Socks
  PROVE  /\ x.on \in Whats /\ x.inbox \in InboxesOf(x.on)
         /\ x.err \in BOOLEAN /\ x.down \in BOOLEAN
         /\ Kind(x) = "closed" => x = Closed
         /\ x = [on |-> x.on, inbox |-> x.inbox, err |-> x.err, down |-> x.down]
  BY DEF Socks, InboxesOf, Kind

\* A socket, put together.
LEMMA SockMade ==
  ASSUME NEW w \in Whats, w[1] # "closed", NEW q \in InboxesOf(w),
         NEW e \in BOOLEAN, NEW d \in BOOLEAN
  PROVE  /\ [on |-> w, inbox |-> q, err |-> e, down |-> d] \in Socks
  BY UnitSeqs DEF Socks, InboxesOf, Kind

\* A new socket.
LEMMA NewSocks ==
  /\ \A w \in Whats : NewSock(w) \in Socks /\ NewSock(w).on = w /\ NewSock(w).inbox = <<>>
  /\ Closed \in Socks /\ Closed.on = <<"closed", 0>> /\ Kind(Closed) = "closed"
  /\ Misc \in Socks /\ Misc.on = <<"misc", 0>> /\ Kind(Misc) = "misc"
  /\ Listening \in Socks /\ Listening.on = <<"listening", 0>> /\ Kind(Listening) = "listening"
  /\ Bound \in Socks /\ Bound.on = <<"bound", 0>> /\ Kind(Bound) = "bound"
<1>1. ASSUME NEW w \in Whats
      PROVE  NewSock(w) \in Socks /\ NewSock(w).on = w /\ NewSock(w).inbox = <<>>
  <2>1. w[1] = "closed" => w = <<"closed", 0>>
    BY WhatFields
  <2>2. <<>> \in InboxesOf(w) /\ <<>> \in Seq(Units)
    BY UnitSeqs
  <2> QED BY <2>1, <2>2 DEF NewSock, Socks, InboxesOf, Closed, Kind
<1>2. /\ <<"closed", 0>> \in Whats /\ <<"misc", 0>> \in Whats
      /\ <<"listening", 0>> \in Whats /\ <<"bound", 0>> \in Whats
  BY DEF Whats
<1> QED BY <1>1, <1>2 DEF Closed, Misc, Listening, Bound, Kind

\* A socket with another inbox, error or end is open on the same thing.
LEMMA SockChanged ==
  ASSUME NEW x \in Socks, Kind(x) # "closed"
  PROVE  /\ \A q \in InboxesOf(x.on) :
               [x EXCEPT !.inbox = q] \in Socks /\ [x EXCEPT !.inbox = q].on = x.on
         /\ \A e \in BOOLEAN :
               [x EXCEPT !.err = e] \in Socks /\ [x EXCEPT !.err = e].on = x.on
         /\ ShutDown(x) \in Socks /\ ShutDown(x).on = x.on
<1>1. /\ x.on \in Whats /\ x.inbox \in InboxesOf(x.on)
      /\ x.err \in BOOLEAN /\ x.down \in BOOLEAN /\ x.on[1] # "closed"
      /\ x = [on |-> x.on, inbox |-> x.inbox, err |-> x.err, down |-> x.down]
  BY SockFields DEF Kind
<1>2. ASSUME NEW q \in InboxesOf(x.on)
      PROVE  [x EXCEPT !.inbox = q] \in Socks /\ [x EXCEPT !.inbox = q].on = x.on
  <2>1. [x EXCEPT !.inbox = q] = [on |-> x.on, inbox |-> q, err |-> x.err, down |-> x.down]
    BY <1>1
  <2> QED BY <1>1, <2>1, SockMade
<1>3. ASSUME NEW e \in BOOLEAN
      PROVE  [x EXCEPT !.err = e] \in Socks /\ [x EXCEPT !.err = e].on = x.on
  <2>1. [x EXCEPT !.err = e] = [on |-> x.on, inbox |-> x.inbox, err |-> e, down |-> x.down]
    BY <1>1
  <2> QED BY <1>1, <2>1, SockMade
<1>4. ShutDown(x) \in Socks /\ ShutDown(x).on = x.on
  <2>1. \A d \in BOOLEAN : [x EXCEPT !.down = d]
                   = [on |-> x.on, inbox |-> x.inbox, err |-> x.err, down |-> d]
    BY <1>1
  <2>2. PICK d \in BOOLEAN : d = TRUE
    OBVIOUS
  <2>3. ShutDown(x) = [x EXCEPT !.down = d]
    BY <2>2, Zenon DEF ShutDown
  <2> QED BY <1>1, <2>1, <2>3, SockMade
<1> QED BY <1>2, <1>3, <1>4

-----------------------------------------------------------------------------
(* The base of the invariant.                                              *)

\* The base holds at the start.
LEMMA InitBase == Init => Base
<1> SUFFICES ASSUME Init PROVE Base
  OBVIOUS
<1>0. /\ NewTable(NoFd) \in Tables /\ TableOK(NewTable(NoFd))
      /\ Registered(NewTable(NoFd)) = {}
  <2>1. NoFd \in Fds \cup {NoFd}
    OBVIOUS
  <2>2. /\ TableOK(NewTable(NoFd))
        /\ Registered(NewTable(NoFd)) = {NoFd} \ {NoFd}
    BY <2>1, NewTableOK
  <2> QED BY <2>2 DEF TableOK
<1>1. /\ \A f \in Fds : sock[f] \in Socks
      /\ \A f \in Fds : On(f) = IF f = Listen THEN <<"listening", 0>>
                         ELSE IF f < Listen THEN <<"misc", 0>> ELSE <<"closed", 0>>
  BY NewSocks DEF Init, On
<1>2. Typed
  BY <1>0, <1>1, Constants DEF Init, Typed, Sides, Marks, Nothing
<1>3. Kinds
  <2>1. \A s \in Sides : Registered(table[s]) = {}
    BY <1>0 DEF Init
  <2>2. 0 < Listen /\ 0 # Listen /\ 0 \in Fds
    BY Constants
  <2>3. /\ \A f \in Fds : Kind(sock[f]) \in {"listening", "misc", "closed"}
        /\ \A f \in Fds : Kind(sock[f]) = "listening" => f = Listen
        /\ Kind(sock[0]) = "misc"
    BY <1>1, <2>2 DEF Kind, On
  <2> QED BY <2>1, <2>3 DEF Kinds, Sides
<1>4. Hands
  BY <1>0, <1>1, Constants DEF Init, Hands, Kind, On, Sides
<1>5. Waiting
  BY <1>0, <1>1, Constants DEF Init, Waiting, Kind, On
<1>6. OneEach
  BY <1>0, <1>1, Constants DEF Init, OneEach, On
<1> QED BY <1>2, <1>3, <1>4, <1>5, <1>6 DEF Base

\* A step that changes neither what descriptors are open on nor the tables.
LEMMA SameBase ==
  ASSUME Base, Typed', type' = type, pc' = pc, cur' = cur, msg' = msg,
         tunnels' = tunnels, actualfds' = actualfds, table' = table,
         \A f \in Fds : sock'[f].on = sock[f].on,
         \A t \in Tunnels : asked'[t] = -1 => asked[t] = -1 /\ out'[t] = out[t]
  PROVE  Base'
<1>0. /\ \A f \in Fds : Kind(sock'[f]) = Kind(sock[f])
      /\ cur \in Fds \cup {NoFd}
      /\ \A i \in DOMAIN tunnels : tunnels[i] \in Fds \cup {NoFd}
      /\ \A i \in DOMAIN actualfds : actualfds[i] \in Fds
      /\ \A s \in Sides : Registered(table[s]) \subseteq Fds
  BY TableFields DEF Base, Typed, Kind
<1>1. Kinds'
  BY <1>0, Constants DEF Base, Kinds, Sides
<1>2. Hands'
  BY <1>0, Constants DEF Base, Hands
<1>3. Waiting'
  BY <1>0, Constants, ZenonT(40) DEF Base, Waiting, On
<1>4. OneEach'
  BY DEF Base, OneEach, On
<1> QED BY <1>1, <1>2, <1>3, <1>4 DEF Base

\* The kinds of sockets that a table may hold.
KindsOf(s) == IF s = "proxy" THEN {"listening", "peer"} ELSE {"tunnel"}

\* What the tables hold: sockets of their kinds.
LEMMA Holds ==
  ASSUME Base
  PROVE  /\ \A s \in Sides : /\ Registered(table[s]) \subseteq Fds
                             /\ \A f \in Registered(table[s]) : Kind(sock[f]) \in KindsOf(s)
         /\ \A s \in Sides : \A i \in Slots :
               table[s].fd[i] # NoFd => table[s].fd[i] \in Registered(table[s])
         /\ \A f \in Fds : sock[f] \in Socks
         /\ \A f \in Fds : Kind(sock[f]) = "closed" => sock[f] = Closed
         /\ cur \in Fds \cup {NoFd}
         /\ \A i \in DOMAIN tunnels : tunnels[i] \in Fds \cup {NoFd}
         /\ \A i \in DOMAIN actualfds : actualfds[i] \in Fds
<1>1. \A s \in Sides : Registered(table[s]) \subseteq Fds
  BY TableFields DEF Base, Typed
<1>2. \A s \in Sides : \A f \in Registered(table[s]) : Kind(sock[f]) \in KindsOf(s)
  BY DEF Base, Kinds, Sides, KindsOf
<1>3. \A s \in Sides : \A i \in Slots :
               table[s].fd[i] # NoFd => table[s].fd[i] \in Registered(table[s])
  BY DEF Registered
<1>4. /\ \A f \in Fds : sock[f] \in Socks
      /\ \A f \in Fds : Kind(sock[f]) = "closed" => sock[f] = Closed
  BY SockFields DEF Base, Typed
<1>5. /\ cur \in Fds \cup {NoFd}
      /\ \A i \in DOMAIN tunnels : tunnels[i] \in Fds \cup {NoFd}
      /\ \A i \in DOMAIN actualfds : actualfds[i] \in Fds
  BY DEF Base, Typed
<1> QED BY <1>1, <1>2, <1>3, <1>4, <1>5

\* What a failed read does.
Failed(s, i, x) ==
    LET v == Victim(table[s], i) IN
    /\ Registered(table'[s]) = Registered(table[s]) \ {v}
    /\ \A r \in Sides : r # s => table'[r] = table[r]
    /\ table' \in [Sides -> Tables] /\ \A r \in Sides : TableOK(table'[r])
    /\ sock' \in [Fds -> Socks]
    /\ \A g \in Fds : IF g = v THEN sock'[g] = Closed
                            ELSE sock'[g].on = sock[g].on
    /\ \A g \in Fds : g # v /\ g # table[s].fd[i] => sock'[g] = sock[g]
    /\ v # table[s].fd[i] => sock'[table[s].fd[i]] = x
    /\ seen' = seen \cup {"removed"} /\ buffer' = buffer

\* A failed read: at most one descriptor of that table is closed, and the one
\* that was read stays open on the same thing if it is another.
LEMMA Failing ==
  ASSUME Base, NEW s \in Sides, NEW i \in Slots, table[s].fd[i] # NoFd,
         NEW x \in Socks, x.on = sock[table[s].fd[i]].on, ReadFails(s, i, x)
  PROVE  Victim(table[s], i) \in Registered(table[s]) \cup {NoFd} /\ Failed(s, i, x)
<1> DEFINE v == Victim(table[s], i)
           f == table[s].fd[i]
<1>1. /\ table \in [Sides -> Tables] /\ \A r \in Sides : TableOK(table[r])
      /\ sock \in [Fds -> Socks]
  BY DEF Base, Typed
<1>2. i \in Fds
  BY Constants
<1>3. /\ TableOK(Vacate(table[s], i)) /\ v \in Registered(table[s]) \cup {NoFd}
      /\ Registered(Vacate(table[s], i)) = Registered(table[s]) \ {v}
  BY <1>1, <1>2, VacateOK
<1>4. /\ table' = [table EXCEPT ![s] = Vacate(@, i)]
      /\ sock' = [g \in Fds |-> IF g = v THEN Closed
                                ELSE IF g = f THEN x ELSE sock[g]]
      /\ seen' = seen \cup {"removed"} /\ buffer' = buffer
  BY DEF ReadFails, Removed
<1>5. table'[s] = Vacate(table[s], i) /\ \A r \in Sides : r # s => table'[r] = table[r]
  BY <1>1, <1>4
<1>6. Vacate(table[s], i) \in Tables
  BY <1>3 DEF TableOK
<1>7. table' \in [Sides -> Tables] /\ \A r \in Sides : TableOK(table'[r])
  BY <1>1, <1>3, <1>4, <1>5, <1>6
<1>8. /\ sock' \in [Fds -> Socks]
      /\ \A g \in Fds : g = v => sock'[g] = Closed
      /\ \A g \in Fds : g # v /\ g = f => sock'[g] = x
      /\ \A g \in Fds : g # v /\ g # f => sock'[g] = sock[g]
      /\ f \in Fds
  <2>1. f \in Fds
    BY <1>1, TableFields
  <2>2. Closed \in Socks
    BY NewSocks
  <2> HIDE DEF v, f
  <2> QED BY <2>1, <2>2, <1>1, <1>4
<1>9. v \in Registered(table[s]) \cup {NoFd} /\ Registered(table'[s]) = Registered(table[s]) \ {v}
  BY <1>3, <1>5
<1> QED BY <1>4, <1>5, <1>7, <1>8, <1>9 DEF Failed

\* A failed read keeps the base.
LEMMA FailingBase ==
  ASSUME Base, Typed', NEW s \in Sides, NEW i \in Slots, table[s].fd[i] # NoFd,
         NEW x \in Socks, x.on = sock[table[s].fd[i]].on, ReadFails(s, i, x),
         UNCHANGED <<world, setup, maps, inserted>>
  PROVE  Base'
<1>1. PICK v \in Registered(table[s]) \cup {NoFd} :
            /\ Registered(table'[s]) = Registered(table[s]) \ {v}
            /\ \A r \in Sides : r # s => table'[r] = table[r]
            /\ \A g \in Fds : IF g = v THEN sock'[g] = Closed
                                       ELSE sock'[g].on = sock[g].on
  <2>1. Victim(table[s], i) \in Registered(table[s]) \cup {NoFd} /\ Failed(s, i, x)
    BY Failing
  <2> QED BY <2>1 DEF Failed
<1>2. /\ v \in Fds => Kind(sock[v]) \in KindsOf(s)
      /\ \A g \in Fds : g # v => Kind(sock'[g]) = Kind(sock[g])
      /\ v \in Fds => Kind(sock'[v]) = "closed"
      /\ \A r \in Sides : Registered(table'[r]) \subseteq Registered(table[r])
      /\ v \notin Registered(table'[s])
      /\ v \in Registered(table[s]) \/ v \notin Fds
  <2>1. NoFd \notin Fds /\ Kind(Closed) = "closed"
    BY Constants, NewSocks
  <2> QED BY <1>1, <2>1, Holds DEF Kind
<1>3. \A r \in Sides : \A f \in Registered(table'[r]) : f # v
  <2>1. \A r \in Sides : r # s => KindsOf(r) \cap KindsOf(s) = {}
    BY DEF KindsOf, Sides
  <2> QED BY <2>1, <1>2, Holds
<1>4. Kinds'
  <2>1. v # 0 /\ 0 \in Fds
    BY <1>2, Constants DEF KindsOf, Base, Kinds
  <2>2. \A r \in Sides : \A f \in Registered(table'[r]) : Kind(sock'[f]) \in KindsOf(r)
    BY <1>2, <1>3, Holds
  <2>3. \A f \in Fds : /\ Kind(sock'[f]) = "listening" => f = Listen
                       /\ Kind(sock'[f]) = "bound" => pc = "bound" /\ f = cur
    BY <1>2 DEF Base, Kinds
  <2> QED BY <2>1, <2>2, <2>3, <1>2 DEF Base, Kinds, Sides, KindsOf, setup
<1>5. Hands'
  <2>1. pc = "start" => Listen # v
    BY <1>2, Constants DEF Base, Hands, KindsOf, Sides, Kinds
  <2>2. pc = "bound" => cur # v
    BY <1>2 DEF Base, Hands, KindsOf
  <2>3. pc = "insert" => cur # v
    BY <1>2 DEF Base, Hands, KindsOf, Sides
  <2> QED BY <2>1, <2>2, <2>3, <1>2, Constants DEF Base, Hands, Sides, setup, world
<1>6. Waiting'
  <2>1. \A j \in DOMAIN tunnels : tunnels[j] # NoFd => tunnels[j] # v /\ tunnels[j] \in Fds
    BY <1>2, Holds DEF Base, Waiting, KindsOf, Sides
  <2>2. \A j \in DOMAIN actualfds : actualfds[j] # v /\ actualfds[j] \in Fds
    BY <1>2, Holds DEF Base, Waiting, KindsOf, Sides
  <2>3. "net" \in Sides
    BY DEF Sides
  <2>4. \A f \in Fds : Kind(sock'[f]) = "tunnel" => Kind(sock[f]) = "tunnel" /\ On(f)' = On(f)
    BY <1>1, <1>2 DEF On, Kind
  <2> QED BY <2>1, <2>2, <2>3, <2>4, <1>2 DEF Base, Waiting, setup, world, maps
<1>7. OneEach'
  <2>1. \A f \in Fds : sock'[f].on \in {sock[f].on, <<"closed", 0>>}
    BY <1>1, NewSocks
  <2>2. \A f \in Fds, t \in Tunnels : sock'[f].on = <<"tunnel", t>> => sock[f].on = <<"tunnel", t>>
    BY <2>1
  <2> QED BY <2>2 DEF Base, OneEach, On, world
<1> QED BY <1>4, <1>5, <1>6, <1>7 DEF Base

\* insert of a descriptor in no table: afterwards it is in the table, or it is
\* closed.
LEMMA Inserting ==
  ASSUME Base, NEW s \in Sides, NEW f \in Fds, NEW x \in Socks, InsertInto(s, f, x),
         f \notin Registered(table[s])
  PROVE  /\ table' \in [Sides -> Tables] /\ \A r \in Sides : TableOK(table'[r])
         /\ sock' \in [Fds -> Socks]
         /\ \A g \in Fds : g # f => sock'[g] = sock[g]
         /\ \A r \in Sides : r # s => table'[r] = table[r]
         /\ \/ /\ sock'[f] = x /\ Registered(table'[s]) = Registered(table[s]) \cup {f}
               /\ UNCHANGED seen
            \/ /\ sock'[f] = Closed /\ Registered(table'[s]) = Registered(table[s])
               /\ seen' = seen \cup {s}
         /\ inserted' \in [Sides -> SUBSET Fds]
<1>1. /\ table \in [Sides -> Tables] /\ \A r \in Sides : TableOK(table[r])
      /\ sock \in [Fds -> Socks] /\ inserted \in [Sides -> SUBSET Fds]
  BY DEF Base, Typed
<1>2. inserted' \in [Sides -> SUBSET Fds]
  BY <1>1 DEF InsertInto
<1>3. CASE IsFull(table[s])
  <2>1. /\ sock' = [sock EXCEPT ![f] = Closed] /\ seen' = seen \cup {s} /\ table' = table
    BY <1>3 DEF InsertInto
  <2>2. Closed \in Socks
    BY NewSocks
  <2> QED BY <2>1, <2>2, <1>1, <1>2
<1>4. CASE ~IsFull(table[s])
  <2>1. PICK i \in Slots : /\ IsFirstFree(table[s], i)
                           /\ table' = [table EXCEPT ![s] = InsertAt(@, i, f)]
                           /\ sock' = [sock EXCEPT ![f] = x] /\ UNCHANGED seen
    BY <1>4 DEF InsertInto
  <2>2. /\ TableOK(InsertAt(table[s], i, f))
        /\ Registered(InsertAt(table[s], i, f)) = Registered(table[s]) \cup {f}
    BY <1>1, <2>1, InsertOK
  <2>3. InsertAt(table[s], i, f) \in Tables
    BY <2>2 DEF TableOK
  <2>4. table'[s] = InsertAt(table[s], i, f) /\ \A r \in Sides : r # s => table'[r] = table[r]
    BY <2>1, <1>1
  <2>5. table' \in [Sides -> Tables] /\ \A r \in Sides : TableOK(table'[r])
    BY <2>1, <2>2, <2>3, <2>4, <1>1
  <2> QED BY <2>1, <2>2, <2>4, <2>5, <1>1, <1>2
<1> QED BY <1>3, <1>4

\* A free number is in nobody's hands, though a map may still mention it.
LEMMA Free ==
  ASSUME Base, NEW f \in Fds, IsLowestFree(f)
  PROVE  /\ sock[f] = Closed /\ Kind(sock[f]) = "closed" /\ f # 0
         /\ \A s \in Sides : f \notin Registered(table[s])
         /\ \A i \in DOMAIN tunnels : tunnels[i] # f
         /\ \A i \in DOMAIN actualfds : actualfds[i] # f
         /\ pc \in {"bound", "insert"} => f # cur
         /\ pc = "start" => f # Listen
<1>1. sock[f] = Closed /\ Kind(sock[f]) = "closed"
  BY NewSocks DEF IsLowestFree
<1>2. f # 0 /\ \A s \in Sides : f \notin Registered(table[s])
  BY <1>1, Holds DEF Base, Kinds, KindsOf
<1>3. /\ \A i \in DOMAIN tunnels : tunnels[i] # f
      /\ \A i \in DOMAIN actualfds : actualfds[i] # f
  BY <1>1, Constants DEF Base, Waiting
<1>4. /\ pc \in {"bound", "insert"} => f # cur
      /\ pc = "start" => f # Listen
  BY <1>1 DEF Base, Hands
<1> QED BY <1>1, <1>2, <1>3, <1>4

\* A sequence grows by one at the end.
LEMMA AppendFields ==
  ASSUME NEW S, NEW q \in Seq(S), NEW e \in S
  PROVE  /\ Append(q, e) \in Seq(S) /\ Len(q) \in Nat
         /\ DOMAIN Append(q, e) = DOMAIN q \cup {Len(q) + 1}
         /\ \A i \in DOMAIN q : Append(q, e)[i] = q[i]
         /\ Append(q, e)[Len(q) + 1] = e /\ Len(q) + 1 \notin DOMAIN q
         /\ \A i \in DOMAIN Append(q, e) : Append(q, e)[i] = IF i \in DOMAIN q THEN q[i] ELSE e
  OBVIOUS

\* A sequence loses its head.
LEMMA TailFields ==
  ASSUME NEW S, NEW q \in Seq(S), q # <<>>
  PROVE  /\ Head(q) \in S /\ Head(q) = q[1] /\ 1 \in DOMAIN q
         /\ Tail(q) \in Seq(S)
         /\ \A i \in DOMAIN Tail(q) : i + 1 \in DOMAIN q /\ Tail(q)[i] = q[i + 1] /\ i + 1 # 1 /\ i \in Nat
  OBVIOUS

\* One more unit waits at a socket of the right kind.
LEMMA OneMore ==
  ASSUME Base, NEW f \in Fds, Kind(sock[f]) # "closed",
         NEW e \in IF Kind(sock[f]) = "tunnel" THEN Frames ELSE Datagrams,
         sock' = [sock EXCEPT ![f].inbox = Append(@, e)]
  PROVE  /\ sock' \in [Fds -> Socks]
         /\ \A g \in Fds : sock'[g].on = sock[g].on
         /\ sock'[f].inbox = Append(sock[f].inbox, e)
         /\ \A g \in Fds : g # f => sock'[g] = sock[g]
<1>1. sock \in [Fds -> Socks] /\ sock[f] \in Socks
  BY DEF Base, Typed
<1>2. Append(sock[f].inbox, e) \in InboxesOf(sock[f].on)
  <2>1. PICK S : S = IF Kind(sock[f]) = "tunnel" THEN Frames ELSE Datagrams
    OBVIOUS
  <2>2. InboxesOf(sock[f].on) = Seq(S) /\ sock[f].inbox \in Seq(S) /\ e \in S
    BY <1>1, <2>1, SockFields DEF InboxesOf, Kind
  <2> QED BY <2>2, AppendFields
<1>3. PICK q \in InboxesOf(sock[f].on) : q = Append(sock[f].inbox, e)
  BY <1>2
<1>4. PICK x \in Socks : x = [sock[f] EXCEPT !.inbox = q] /\ x.on = sock[f].on
  BY <1>1, SockChanged
<1>5. sock' = [sock EXCEPT ![f] = x]
  BY <1>3, <1>4
<1>6. x.inbox = q
  BY <1>1, <1>4, SockFields
<1> QED BY <1>1, <1>3, <1>4, <1>5, <1>6

\* A datagram arrives.
LEMMA ArriveBase ==
  ASSUME Base, NEW u \in Peers, Arrive(u)
  PROVE  Base'
<1>1. sent' = [sent EXCEPT ![u] = @ + 1] /\ sent[u] \in Nat
  BY DEF Arrive, Base, Typed
<1>2. UNCHANGED <<type, got, asked, out, table, setup, maps, buffer, inserted>>
  BY DEF Arrive
<1>3. \/ \E n \in {0, 1} : \E f \in Fds :
           /\ On(f) \in {<<"peer", u>>, Listening.on, Bound.on}
           /\ sock' = [sock EXCEPT ![f].inbox = Append(@, <<u, sent[u] + 1, n>>)]
           /\ seen' \in SUBSET (seen \cup {"stolen"})
      \/ UNCHANGED <<sock, seen>>
  BY DEF Arrive
<1>4. sock' \in [Fds -> Socks] /\ (\A g \in Fds : sock'[g].on = sock[g].on)
      /\ seen' \in SUBSET Marks
  <2>1. CASE UNCHANGED <<sock, seen>>
    BY <2>1 DEF Base, Typed
  <2>2. CASE \E n \in {0, 1} : \E f \in Fds :
           /\ On(f) \in {<<"peer", u>>, Listening.on, Bound.on}
           /\ sock' = [sock EXCEPT ![f].inbox = Append(@, <<u, sent[u] + 1, n>>)]
           /\ seen' \in SUBSET (seen \cup {"stolen"})
    <3>1. PICK n \in {0, 1}, f \in Fds :
           /\ On(f) \in {<<"peer", u>>, Listening.on, Bound.on}
           /\ sock' = [sock EXCEPT ![f].inbox = Append(@, <<u, sent[u] + 1, n>>)]
           /\ seen' \in SUBSET (seen \cup {"stolen"})
      BY <2>2
    <3>2. Kind(sock[f]) # "closed" /\ Kind(sock[f]) # "tunnel"
      BY <3>1, NewSocks DEF On, Kind
    <3>3. <<u, sent[u] + 1, n>> \in Datagrams
      BY <1>1 DEF Datagrams
    <3>4. sock' \in [Fds -> Socks] /\ \A g \in Fds : sock'[g].on = sock[g].on
      BY <3>1, <3>2, <3>3, OneMore
    <3>5. seen' \in SUBSET Marks
      BY <3>1 DEF Base, Typed, Marks
    <3> QED BY <3>4, <3>5
  <2> QED BY <1>3, <2>1, <2>2
<1>5. Typed'
  BY <1>1, <1>2, <1>4 DEF Base, Typed, setup, maps
<1> QED BY <1>2, <1>4, <1>5, SameBase DEF setup, maps

\* A frame arrives, or a tunnel ends.
LEMMA FrameBase ==
  ASSUME Base, NEW f \in Fds, Frame(f)
  PROVE  Base'
<1> DEFINE t == On(f)[2]
<1>1. /\ On(f)[1] = "tunnel" /\ t \in Tunnels /\ Kind(sock[f]) = "tunnel" /\ On(f) = <<"tunnel", t>>
      /\ sock[f] \in Socks
  BY WhatFields, SockFields, Holds DEF Frame, On, Kind
<1>2. UNCHANGED <<type, sent, got, out, table, setup, maps, buffer, inserted>>
  BY DEF Frame
<1>3. asked[t] # -1 /\ asked[t] \in -1 .. MaxReply /\ MaxReply \in Nat
  BY <1>1, Constants DEF Base, Typed, OneEach
<1> HIDE DEF t
<1>4. CASE /\ asked[t] < MaxReply
           /\ asked' = [asked EXCEPT ![t] = @ + 1]
           /\ sock' = [sock EXCEPT ![f].inbox = Append(@, <<t, asked[t] + 1>>)]
           /\ UNCHANGED seen
  <2>1. <<t, asked[t] + 1>> \in Frames
    BY <1>1, <1>3 DEF Frames
  <2>2. sock' \in [Fds -> Socks] /\ \A g \in Fds : sock'[g].on = sock[g].on
    BY <1>1, <1>4, <2>1, OneMore
  <2>3. asked' \in [Tunnels -> -1 .. MaxReply] /\ \A r \in Tunnels : asked'[r] = -1 => asked[r] = -1
    BY <1>1, <1>3, <1>4 DEF Base, Typed
  <2>4. Typed'
    BY <1>2, <1>4, <2>2, <2>3 DEF Base, Typed, setup, maps
  <2> QED BY <1>2, <2>2, <2>3, <2>4, SameBase DEF setup, maps
<1>5. CASE /\ sock' = [sock EXCEPT ![f].down = TRUE]
           /\ seen' = seen \cup {"ends"}
           /\ UNCHANGED asked
  <2>1. PICK x \in Socks : x = ShutDown(sock[f]) /\ x.on = sock[f].on
    BY <1>1, SockChanged
  <2>2. sock' = [sock EXCEPT ![f] = x]
    BY <1>5, <2>1 DEF ShutDown
  <2>3. sock' \in [Fds -> Socks] /\ \A g \in Fds : sock'[g].on = sock[g].on
    BY <2>1, <2>2 DEF Base, Typed
  <2>4. Typed'
    BY <1>2, <1>5, <2>3 DEF Base, Typed, setup, maps, Marks
  <2> QED BY <1>2, <1>5, <2>3, <2>4, SameBase DEF setup, maps
<1> QED BY <1>4, <1>5 DEF Frame, t

\* A new tunnel.
LEMMA TunnelBase ==
  ASSUME Base, Tunnel
  PROVE  Base'
<1>1. PICK t \in Tunnels, f \in Fds :
          /\ type = "CLIENT" => t \in Peers
          /\ asked[t] = -1
          /\ IsLowestFree(f)
          /\ sock' = [sock EXCEPT ![f] = NewSock(<<"tunnel", t>>)]
          /\ asked' = [asked EXCEPT ![t] = 0]
          /\ tunnels' = Append(tunnels, f)
          /\ seen' = seen \cup Stale(f)
  BY DEF Tunnel
<1>2. UNCHANGED <<type, sent, got, out, table, pc, cur, msg, maps, buffer, inserted>>
  BY DEF Tunnel
<1>3. PICK x \in Socks : x = NewSock(<<"tunnel", t>>) /\ x.on = <<"tunnel", t>>
  BY NewSocks DEF Whats
<1>4. /\ sock' \in [Fds -> Socks] /\ sock'[f] = x /\ Kind(sock'[f]) = "tunnel"
      /\ \A g \in Fds : g # f => sock'[g] = sock[g]
  <2>1. sock \in [Fds -> Socks] /\ sock' = [sock EXCEPT ![f] = x]
    BY <1>1, <1>3 DEF Base, Typed
  <2>2. Kind(x) = "tunnel"
    BY <1>3 DEF Kind
  <2> QED BY <2>1, <2>2
<1>5. asked' \in [Tunnels -> -1 .. MaxReply] /\ asked'[t] = 0 /\ \A r \in Tunnels : r # t => asked'[r] = asked[r]
  BY <1>1, Constants DEF Base, Typed
<1>t. tunnels \in Seq(Fds \cup {NoFd})
  BY DEF Base, Typed
<1>6. /\ tunnels' \in Seq(Fds \cup {NoFd})
      /\ DOMAIN tunnels' = DOMAIN tunnels \cup {Len(tunnels) + 1}
      /\ \A i \in DOMAIN tunnels : tunnels'[i] = tunnels[i]
      /\ tunnels'[Len(tunnels) + 1] = f /\ Len(tunnels) + 1 \notin DOMAIN tunnels
  BY <1>1, <1>t, AppendFields
<1>7. seen' \in SUBSET Marks
  BY <1>1 DEF Base, Typed, Marks, Stale
<1>8. Typed'
  BY <1>2, <1>4, <1>5, <1>6, <1>7 DEF Base, Typed, maps
<1>9. /\ f # 0 /\ f # NoFd /\ \A s \in Sides : f \notin Registered(table[s])
      /\ \A i \in DOMAIN tunnels : tunnels[i] # f
      /\ \A i \in DOMAIN actualfds : actualfds[i] # f
      /\ pc \in {"bound", "insert"} => f # cur
      /\ pc = "start" => f # Listen
      /\ cur \in Fds \cup {NoFd}
  BY <1>1, Free, Holds, Constants
<1>10. \A g \in Fds : IF g = f THEN Kind(sock'[g]) = "tunnel" ELSE Kind(sock'[g]) = Kind(sock[g])
  BY <1>4
<1>11. Kinds'
  BY <1>2, <1>9, <1>10, Holds, Constants DEF Base, Kinds, Sides
<1>12. Hands'
  BY <1>2, <1>9, <1>10, Constants DEF Base, Hands
<1>13. Waiting'
  <2>1. ASSUME NEW i \in DOMAIN tunnels'
        PROVE
          /\ tunnels'[i] = NoFd => type = "SERVER"
          /\ tunnels'[i] # NoFd =>
                /\ Kind(sock'[tunnels'[i]]) = "tunnel"
                /\ tunnels'[i] \notin Registered(table["net"])
                /\ \A j \in DOMAIN tunnels' : tunnels'[j] = tunnels'[i] => i = j
                /\ \A j \in DOMAIN actualfds : actualfds[j] # tunnels'[i]
    <3>1. CASE i \in DOMAIN tunnels
      BY <3>1, <1>6, <1>9, <1>10, Holds DEF Base, Waiting
    <3>2. CASE i = Len(tunnels) + 1
      BY <3>2, <1>6, <1>9, <1>10, Holds DEF Base, Waiting, Sides
    <3> QED BY <3>1, <3>2, <1>6
  <2>2. \A i \in DOMAIN actualfds :
          /\ Kind(sock'[actualfds[i]]) = "tunnel"
          /\ actualfds[i] \notin Registered(table["net"])
          /\ \A j \in DOMAIN actualfds : actualfds[j] = actualfds[i] => i = j
    BY <1>9, <1>10, Holds DEF Base, Waiting
  <2>3. type = "CLIENT" => \A g \in Fds : Kind(sock'[g]) = "tunnel" => sock'[g].on[2] \in Peers
    <3>1. ASSUME type = "CLIENT", NEW g \in Fds, Kind(sock'[g]) = "tunnel"
          PROVE  sock'[g].on[2] \in Peers
      <4>1. CASE g = f
        BY <1>1, <1>3, <1>4, <3>1, <4>1
      <4>2. CASE g # f
        BY <1>4, <3>1, <4>2 DEF Base, Waiting, On
      <4> QED BY <4>1, <4>2
    <3> QED BY <3>1
  <2> QED BY <2>1, <2>2, <2>3, <1>2 DEF Waiting, On, maps
<1>14. OneEach'
  <2>1. \A g \in Fds : sock[g].on # <<"tunnel", t>>
    BY <1>1 DEF Base, OneEach, On
  <2>2. \A g \in Fds, r \in Tunnels : r # t /\ sock'[g].on = <<"tunnel", r>> => g # f /\ sock[g].on = <<"tunnel", r>>
    BY <1>3, <1>4
  <2>3. \A g \in Fds : sock'[g].on = <<"tunnel", t>> => g = f
    BY <2>1, <1>4
  <2> QED BY <2>2, <2>3, <1>2, <1>5 DEF Base, OneEach, On
<1> QED BY <1>8, <1>11, <1>12, <1>13, <1>14 DEF Base

\* There is no client: the promise is -1.
LEMMA NoClientBase ==
  ASSUME Base, NoClient
  PROVE  Base'
<1>1. /\ type = "SERVER" /\ tunnels = <<>> /\ tunnels' = <<NoFd>>
      /\ seen' = seen \cup {"absent"}
      /\ UNCHANGED <<type, sent, got, asked, out, sock, table, pc, cur, msg, partner, actualfds, buffer, inserted>>
  BY DEF NoClient, world, maps
<1>2. Typed'
  BY <1>1 DEF Base, Typed, Marks
<1>3. Kinds' /\ Hands' /\ OneEach'
  BY <1>1 DEF Base, Kinds, Hands, OneEach, On
<1>4. Waiting'
  BY <1>1 DEF Base, Waiting, On
<1> QED BY <1>2, <1>3, <1>4 DEF Base

\* The listening socket goes into the users' table.
LEMMA StartBase ==
  ASSUME Base, Start
  PROVE  Base'
<1>1. /\ pc = "start" /\ pc' = "loop" /\ InsertInto("proxy", Listen, sock[Listen])
      /\ UNCHANGED <<world, cur, msg, tunnels, maps, buffer>>
  BY DEF Start
<1>2. /\ "proxy" \in Sides /\ Listen \in Fds /\ Listen # 0 /\ sock[Listen] \in Socks
      /\ Kind(sock[Listen]) = "listening" /\ Listen \notin Registered(table["proxy"])
  BY <1>1, Constants DEF Base, Hands, Typed, Sides
<1>3. /\ table' \in [Sides -> Tables] /\ \A r \in Sides : TableOK(table'[r])
      /\ sock' \in [Fds -> Socks] /\ inserted' \in [Sides -> SUBSET Fds]
      /\ \A g \in Fds : g # Listen => sock'[g] = sock[g]
      /\ sock'[Listen] \in {sock[Listen], Closed}
      /\ Registered(table'["proxy"]) \subseteq Registered(table["proxy"]) \cup {Listen}
      /\ Listen \in Registered(table'["proxy"]) => sock'[Listen] = sock[Listen]
      /\ table'["net"] = table["net"]
      /\ seen' \subseteq seen \cup {"proxy"}
  BY <1>1, <1>2, Inserting DEF Sides
<1>4. Typed'
  BY <1>1, <1>3 DEF Base, Typed, world, maps, Marks, Sides
<1>5. /\ \A g \in Fds : Kind(sock'[g]) \in {Kind(sock[g]), "closed"}
      /\ \A g \in Fds : g # Listen => Kind(sock'[g]) = Kind(sock[g])
      /\ \A g \in Fds : sock'[g].on \in {sock[g].on, <<"closed", 0>>}
      /\ Kind(sock[Listen]) # "tunnel" /\ Kind(sock'[Listen]) # "tunnel"
  BY <1>2, <1>3, NewSocks
<1>6. Kinds'
  <2>1. 0 \in Fds /\ 0 # Listen
    BY <1>2, Constants
  <2>2. Kind(sock'[0]) = "misc"
    BY <1>5, <2>1 DEF Base, Kinds
  <2>3. \A f \in Fds : /\ Kind(sock'[f]) = "listening" => f = Listen
                       /\ Kind(sock'[f]) # "bound"
    BY <1>1, <1>5 DEF Base, Kinds
  <2>4. \A f \in Registered(table'["proxy"]) : Kind(sock'[f]) \in {"listening", "peer"}
    <3>1. \A f \in Registered(table["proxy"]) : f # Listen /\ f \in Fds
                 /\ Kind(sock[f]) \in {"listening", "peer"}
      BY <1>2, Holds DEF Base, Kinds
    <3> QED BY <1>2, <1>3, <1>5, <3>1
  <2>5. \A f \in Registered(table'["net"]) : Kind(sock'[f]) = "tunnel"
    BY <1>2, <1>3, <1>5, Holds DEF Base, Kinds, Sides
  <2> QED BY <2>2, <2>3, <2>4, <2>5 DEF Kinds
<1>7. Hands'
  BY <1>1, <1>3, <1>5 DEF Base, Hands
<1>8. Waiting'
  <2>1. \A g \in Fds : Kind(sock'[g]) = "tunnel" <=> Kind(sock[g]) = "tunnel"
    BY <1>2, <1>5
  <2>2. \A g \in Fds : Kind(sock[g]) = "tunnel" => sock'[g].on = sock[g].on
    BY <1>2, <1>3
  <2> QED BY <1>1, <1>3, <2>1, <2>2, Holds DEF Base, Waiting, On, world, maps
<1>9. OneEach'
  <2>1. \A g \in Fds, t \in Tunnels : sock'[g].on = <<"tunnel", t>> => sock[g].on = <<"tunnel", t>>
    BY <1>5
  <2> QED BY <1>1, <2>1 DEF Base, OneEach, On, world
<1> QED BY <1>4, <1>6, <1>7, <1>8, <1>9 DEF Base

\* A datagram from the listening socket, and the new socket for its sender.
LEMMA ReceiveBase ==
  ASSUME Base, Receive
  PROVE  Base'
<1>1. /\ pc = "loop" /\ Listen \in Registered(table["proxy"])
      /\ sock[Listen].inbox # <<>> /\ msg' = Head(sock[Listen].inbox) /\ pc' = "bound"
      /\ UNCHANGED <<world, table, tunnels, maps, buffer, inserted>>
  BY DEF Receive
<1>2. PICK f \in Fds :
          /\ IsLowestFree(f)
          /\ sock' = [sock EXCEPT ![Listen].inbox = Tail(@), ![f] = Bound]
          /\ cur' = f /\ seen' \subseteq seen \cup {"stale"}
  BY DEF Receive, Stale
<1>3. /\ sock \in [Fds -> Socks] /\ Listen \in Fds /\ sock[Listen] \in Socks
      /\ Kind(sock[Listen]) \in {"listening", "peer"} /\ f # Listen
  <2>1. sock \in [Fds -> Socks] /\ Listen \in Fds
    BY Constants DEF Base, Typed
  <2>2. Kind(sock[Listen]) \in {"listening", "peer"}
    BY <1>1, Holds DEF KindsOf, Sides
  <2>3. Kind(sock[f]) = "closed"
    BY <1>2, Free
  <2> QED BY <2>1, <2>2, <2>3
<1>4. sock[Listen].inbox \in Seq(Datagrams) /\ InboxesOf(sock[Listen].on) = Seq(Datagrams)
  BY <1>3, SockFields DEF InboxesOf, Kind
<1>5. msg' \in Datagrams /\ Tail(sock[Listen].inbox) \in Seq(Datagrams)
  BY <1>1, <1>4, TailFields
<1>6. PICK x \in Socks : x = [sock[Listen] EXCEPT !.inbox = Tail(sock[Listen].inbox)] /\ x.on = sock[Listen].on
  <2>1. PICK q \in InboxesOf(sock[Listen].on) : q = Tail(sock[Listen].inbox)
    BY <1>4, <1>5
  <2> QED BY <1>3, <2>1, SockChanged
<1>7. /\ sock' \in [Fds -> Socks] /\ sock'[f] = Bound
      /\ \A g \in Fds : g # f => sock'[g].on = sock[g].on
  <2>1. sock' = [[sock EXCEPT ![Listen] = x] EXCEPT ![f] = Bound]
    BY <1>2, <1>6
  <2>2. Bound \in Socks
    BY NewSocks
  <2> QED BY <2>1, <2>2, <1>3, <1>6
<1>8. Typed'
  BY <1>1, <1>2, <1>5, <1>7 DEF Base, Typed, world, maps, Marks
<1>9. /\ f # 0 /\ \A s \in Sides : f \notin Registered(table[s])
      /\ \A i \in DOMAIN tunnels : tunnels[i] # f
      /\ \A i \in DOMAIN actualfds : actualfds[i] # f
  BY <1>2, Free
<1>10. /\ Kind(sock'[f]) = "bound" /\ \A g \in Fds : g # f => Kind(sock'[g]) = Kind(sock[g])
  BY <1>7, NewSocks DEF Kind
<1>11. Kinds'
  BY <1>1, <1>2, <1>9, <1>10, Holds, Constants, Zenon DEF Base, Kinds, Sides
<1>12. Hands'
  BY <1>1, <1>2, <1>5, <1>10 DEF Base, Hands
<1>13. Waiting'
  <2>1. \A g \in Fds : Kind(sock'[g]) = "tunnel" => g # f /\ sock'[g].on = sock[g].on /\ Kind(sock[g]) = "tunnel"
    BY <1>7, <1>10
  <2> QED BY <1>1, <1>9, <1>10, <2>1, Holds DEF Base, Waiting, On, world, maps
<1>14. OneEach'
  <2>1. \A g \in Fds, t \in Tunnels : sock'[g].on = <<"tunnel", t>> => sock[g].on = <<"tunnel", t>>
    <3>1. sock'[f].on = <<"bound", 0>>
      BY <1>7, NewSocks
    <3> QED BY <3>1, <1>7
  <2> QED BY <1>1, <2>1 DEF Base, OneEach, On, world
<1> QED BY <1>8, <1>11, <1>12, <1>13, <1>14 DEF Base

\* A descriptor that no table and no list holds is registered: what waits for
\* netThread is left alone.
LEMMA InsertWaiting ==
  ASSUME Base, NEW f \in Fds,
         UNCHANGED <<type, tunnels, actualfds>>,
         table'["net"] = table["net"],
         Kind(sock[f]) # "tunnel", Kind(sock'[f]) # "tunnel",
         \A g \in Fds : g # f => sock'[g] = sock[g]
  PROVE  Waiting'
<1>1. \A g \in Fds : Kind(sock'[g]) = "tunnel" <=> Kind(sock[g]) = "tunnel"
  OBVIOUS
<1>2. \A g \in Fds : Kind(sock[g]) = "tunnel" => sock'[g] = sock[g]
  OBVIOUS
<1> QED BY <1>1, <1>2, Holds DEF Base, Waiting, On

\* connect and insert for a new user.
LEMMA ConnectUserBase ==
  ASSUME Base, ConnectUser
  PROVE  Base'
<1>x. PICK x : x = [sock[cur] EXCEPT !.on = <<"peer", msg[1]>>]
  OBVIOUS
<1>1. /\ pc = "bound" /\ InsertInto("proxy", cur, x)
      /\ pc' = IF type = "SERVER" THEN "await" ELSE "push"
      /\ UNCHANGED <<world, cur, msg, tunnels, maps, buffer>>
  BY <1>x DEF ConnectUser
<1>2. /\ "proxy" \in Sides /\ cur \in Fds /\ sock[cur] \in Socks /\ msg \in Datagrams
      /\ Kind(sock[cur]) = "bound" /\ \A s \in Sides : cur \notin Registered(table[s])
      /\ cur # 0 /\ Types \subseteq {"SERVER", "CLIENT"} /\ type \in Types
  <2>1. /\ cur \in Fds /\ msg \in Datagrams /\ Kind(sock[cur]) = "bound" /\ type \in Types
    BY <1>1 DEF Base, Hands, Typed
  <2>2. \A s \in Sides : cur \notin Registered(table[s])
    BY <2>1, Holds DEF KindsOf
  <2> QED BY <2>1, <2>2, Holds, Constants DEF Base, Kinds, Sides
<1>3. x \in Socks /\ x.on = <<"peer", msg[1]>> /\ Kind(x) = "peer"
  <2>1. <<"peer", msg[1]>> \in Whats
    BY <1>2 DEF Datagrams, Whats
  <2>2. PICK w \in Whats : w = <<"peer", msg[1]>>
    BY <2>1
  <2>3. sock[cur].inbox \in InboxesOf(w)
    BY <1>2, <2>2, SockFields DEF InboxesOf, Kind
  <2>4. sock[cur] = [on |-> sock[cur].on, inbox |-> sock[cur].inbox,
                     err |-> sock[cur].err, down |-> sock[cur].down]
        /\ sock[cur].err \in BOOLEAN /\ sock[cur].down \in BOOLEAN
    BY <1>2, SockFields
  <2>5. x = [on |-> w, inbox |-> sock[cur].inbox, err |-> sock[cur].err, down |-> sock[cur].down]
    BY <1>x, <2>2, <2>4
  <2>6. x \in Socks /\ x.on = w
    BY <2>2, <2>3, <2>4, <2>5, SockMade
  <2> QED BY <2>2, <2>6 DEF Kind
<1>4. /\ table' \in [Sides -> Tables] /\ \A r \in Sides : TableOK(table'[r])
      /\ sock' \in [Fds -> Socks] /\ inserted' \in [Sides -> SUBSET Fds]
      /\ \A g \in Fds : g # cur => sock'[g] = sock[g]
      /\ sock'[cur] \in {x, Closed}
      /\ Registered(table'["proxy"]) \subseteq Registered(table["proxy"]) \cup {cur}
      /\ cur \in Registered(table'["proxy"]) => sock'[cur] = x
      /\ table'["net"] = table["net"]
      /\ seen' \subseteq seen \cup {"proxy"}
  BY <1>1, <1>2, <1>3, Inserting DEF Sides
<1>5. Typed'
  BY <1>1, <1>2, <1>4 DEF Base, Typed, world, maps, Marks, Sides
<1>6. /\ \A g \in Fds : g # cur => Kind(sock'[g]) = Kind(sock[g])
      /\ Kind(sock'[cur]) \in {"peer", "closed"}
      /\ cur \in Registered(table'["proxy"]) => Kind(sock'[cur]) = "peer"
      /\ sock'[cur].on[1] # "tunnel"
  BY <1>3, <1>4, NewSocks DEF Kind
<1>7. Kinds'
  BY <1>1, <1>2, <1>4, <1>6, Holds, Constants DEF Base, Kinds, Sides
<1>8. Hands'
  BY <1>1, <1>2, <1>4, <1>6 DEF Base, Hands, world
<1>9. Waiting'
  BY <1>1, <1>2, <1>4, <1>6, InsertWaiting DEF world, maps
<1>10. OneEach'
  <2>1. \A g \in Fds, t \in Tunnels : sock'[g].on = <<"tunnel", t>> => sock[g].on = <<"tunnel", t>>
    BY <1>4, <1>6
  <2> QED BY <1>1, <2>1 DEF Base, OneEach, On, world
<1> QED BY <1>5, <1>7, <1>8, <1>9, <1>10 DEF Base

\* A client's socket to the service is registered.
LEMMA InsertPeerBase ==
  ASSUME Base, InsertPeer
  PROVE  Base'
<1>1. /\ pc = "insert" /\ InsertInto("proxy", cur, sock[cur])
      /\ pc' = "loop" /\ cur' = NoFd
      /\ UNCHANGED <<world, msg, tunnels, maps, buffer>>
  BY DEF InsertPeer
<1>2. /\ "proxy" \in Sides /\ cur \in Fds /\ sock[cur] \in Socks
      /\ Kind(sock[cur]) = "peer" /\ cur \notin Registered(table["proxy"]) /\ cur # 0
  BY <1>1 DEF Base, Hands, Typed, Kinds, Sides
<1>4. /\ table' \in [Sides -> Tables] /\ \A r \in Sides : TableOK(table'[r])
      /\ sock' \in [Fds -> Socks] /\ inserted' \in [Sides -> SUBSET Fds]
      /\ \A g \in Fds : g # cur => sock'[g] = sock[g]
      /\ sock'[cur] \in {sock[cur], Closed}
      /\ Registered(table'["proxy"]) \subseteq Registered(table["proxy"]) \cup {cur}
      /\ cur \in Registered(table'["proxy"]) => sock'[cur] = sock[cur]
      /\ table'["net"] = table["net"]
      /\ seen' \subseteq seen \cup {"proxy"}
  BY <1>1, <1>2, Inserting DEF Sides
<1>5. Typed'
  BY <1>1, <1>2, <1>4 DEF Base, Typed, world, maps, Marks, Sides
<1>6. /\ \A g \in Fds : g # cur => Kind(sock'[g]) = Kind(sock[g])
      /\ Kind(sock'[cur]) \in {"peer", "closed"}
      /\ cur \in Registered(table'["proxy"]) => Kind(sock'[cur]) = "peer"
      /\ sock'[cur].on[1] # "tunnel"
  BY <1>2, <1>4, NewSocks DEF Kind
<1>7. Kinds'
  BY <1>1, <1>2, <1>4, <1>6, Holds, Constants DEF Base, Kinds, Sides
<1>8. Hands'
  BY <1>1 DEF Base, Hands
<1>9. Waiting'
  BY <1>1, <1>2, <1>4, <1>6, InsertWaiting DEF world, maps
<1>10. OneEach'
  <2>1. \A g \in Fds, t \in Tunnels : sock'[g].on = <<"tunnel", t>> => sock[g].on = <<"tunnel", t>>
    BY <1>4, <1>6
  <2> QED BY <1>1, <2>1 DEF Base, OneEach, On, world
<1> QED BY <1>5, <1>7, <1>8, <1>9, <1>10 DEF Base

\* The tunnel at the head of the list has left it; if it went on to netThread,
\* it waits there.
LEMMA HeadTaken ==
  ASSUME Base, tunnels # <<>>, tunnels' = Tail(tunnels), type' = type,
         table' = table,
         \/ actualfds' = actualfds
         \/ Head(tunnels) # NoFd /\ actualfds' = Append(actualfds, Head(tunnels)),
         \A f \in Fds : Kind(sock[f]) = "tunnel" => Kind(sock'[f]) = "tunnel",
         \A f \in Fds : Kind(sock'[f]) = "tunnel" =>
            Kind(sock[f]) = "tunnel" /\ sock'[f].on = sock[f].on
  PROVE  Waiting' /\ tunnels' \in Seq(Fds \cup {NoFd}) /\ actualfds' \in Seq(Fds)
<1>1. tunnels \in Seq(Fds \cup {NoFd}) /\ actualfds \in Seq(Fds)
  BY DEF Base, Typed
<1>2. PICK h : h = Head(tunnels)
  OBVIOUS
<1>3. /\ h \in Fds \cup {NoFd} /\ h = tunnels[1] /\ 1 \in DOMAIN tunnels
      /\ tunnels' \in Seq(Fds \cup {NoFd})
      /\ \A i \in DOMAIN tunnels' : i + 1 \in DOMAIN tunnels /\ tunnels'[i] = tunnels[i + 1]
                                    /\ i + 1 # 1 /\ i \in Nat
  BY <1>1, <1>2, TailFields
<1>4. CASE actualfds' = actualfds
  <2>1. ASSUME NEW i \in DOMAIN tunnels'
        PROVE
          /\ tunnels'[i] = NoFd => type = "SERVER"
          /\ tunnels'[i] # NoFd =>
                /\ Kind(sock'[tunnels'[i]]) = "tunnel"
                /\ tunnels'[i] \notin Registered(table["net"])
                /\ \A j \in DOMAIN tunnels' : tunnels'[j] = tunnels'[i] => i = j
                /\ \A j \in DOMAIN actualfds : actualfds[j] # tunnels'[i]
    <3>1. i + 1 \in DOMAIN tunnels /\ tunnels'[i] = tunnels[i + 1] /\ tunnels'[i] \in Fds \cup {NoFd}
      BY <1>1, <1>3, <2>1
    <3>2. \A j \in DOMAIN tunnels' : tunnels'[j] = tunnels'[i] /\ tunnels'[i] # NoFd => i = j
      <4>1. ASSUME NEW j \in DOMAIN tunnels', tunnels'[j] = tunnels'[i], tunnels'[i] # NoFd
            PROVE  i = j
        <5>1. j + 1 = i + 1
          BY <1>3, <3>1, <4>1 DEF Base, Waiting
        <5> QED BY <5>1, <1>3, <2>1
      <4> QED BY <4>1
    <3> QED BY <3>1, <3>2 DEF Base, Waiting
  <2>2. \A i \in DOMAIN actualfds :
          /\ Kind(sock'[actualfds[i]]) = "tunnel"
          /\ actualfds[i] \notin Registered(table["net"])
          /\ \A j \in DOMAIN actualfds : actualfds[j] = actualfds[i] => i = j
    BY Holds DEF Base, Waiting
  <2>3. type = "CLIENT" => \A g \in Fds : Kind(sock'[g]) = "tunnel" => sock'[g].on[2] \in Peers
    BY DEF Base, Waiting, On
  <2> QED BY <1>1, <1>3, <1>4, <2>1, <2>2, <2>3 DEF Waiting, On
<1>5. CASE h # NoFd /\ actualfds' = Append(actualfds, h)
  <2>0. /\ actualfds' \in Seq(Fds)
        /\ DOMAIN actualfds' = DOMAIN actualfds \cup {Len(actualfds) + 1}
        /\ \A i \in DOMAIN actualfds : actualfds'[i] = actualfds[i]
        /\ actualfds'[Len(actualfds) + 1] = h /\ Len(actualfds) + 1 \notin DOMAIN actualfds
    BY <1>1, <1>3, <1>5, AppendFields
  <2>h. /\ h \in Fds /\ Kind(sock'[h]) = "tunnel" /\ h \notin Registered(table["net"])
        /\ \A j \in DOMAIN tunnels : tunnels[j] = h => j = 1
        /\ \A j \in DOMAIN actualfds : actualfds[j] # h
    BY <1>3, <1>5 DEF Base, Waiting
  <2>1. ASSUME NEW i \in DOMAIN tunnels'
        PROVE
          /\ tunnels'[i] = NoFd => type = "SERVER"
          /\ tunnels'[i] # NoFd =>
                /\ Kind(sock'[tunnels'[i]]) = "tunnel"
                /\ tunnels'[i] \notin Registered(table["net"])
                /\ \A j \in DOMAIN tunnels' : tunnels'[j] = tunnels'[i] => i = j
                /\ \A j \in DOMAIN actualfds' : actualfds'[j] # tunnels'[i]
    <3>1. i + 1 \in DOMAIN tunnels /\ tunnels'[i] = tunnels[i + 1] /\ tunnels'[i] \in Fds \cup {NoFd}
          /\ tunnels'[i] # h
      BY <1>1, <1>3, <2>1, <2>h
    <3>2. \A j \in DOMAIN tunnels' : tunnels'[j] = tunnels'[i] /\ tunnels'[i] # NoFd => i = j
      <4>1. ASSUME NEW j \in DOMAIN tunnels', tunnels'[j] = tunnels'[i], tunnels'[i] # NoFd
            PROVE  i = j
        <5>1. j + 1 = i + 1
          BY <1>3, <3>1, <4>1 DEF Base, Waiting
        <5> QED BY <5>1, <1>3, <2>1
      <4> QED BY <4>1
    <3> QED BY <2>0, <3>1, <3>2 DEF Base, Waiting
  <2>2. ASSUME NEW i \in DOMAIN actualfds'
        PROVE
          /\ Kind(sock'[actualfds'[i]]) = "tunnel"
          /\ actualfds'[i] \notin Registered(table["net"])
          /\ \A j \in DOMAIN actualfds' : actualfds'[j] = actualfds'[i] => i = j
    <3>1. CASE i = Len(actualfds) + 1
      BY <3>1, <2>0, <2>h
    <3>2. CASE i \in DOMAIN actualfds
      BY <3>2, <2>0, <2>h, Holds DEF Base, Waiting
    <3> QED BY <3>1, <3>2, <2>0
  <2>3. type = "CLIENT" => \A g \in Fds : Kind(sock'[g]) = "tunnel" => sock'[g].on[2] \in Peers
    BY DEF Base, Waiting, On
  <2> QED BY <1>3, <2>0, <2>1, <2>2, <2>3 DEF Waiting, On
<1> QED BY <1>2, <1>4, <1>5

\* What Couple does to the maps and the list of netThread.
Coupled(f, g) ==
    /\ partner' \in [Sides -> [Fds -> Fds \cup {NoFd}]]
    /\ partner'["proxy"][f] = g /\ partner'["net"][g] = f
    /\ \A h \in Fds : h # f => partner'["proxy"][h] = partner["proxy"][h]
    /\ \A h \in Fds : h # g => partner'["net"][h] = partner["net"][h]
    /\ actualfds' = Append(actualfds, g)

\* The maps after Couple.
LEMMA CoupleFields ==
  ASSUME Base, NEW f \in Fds, NEW g \in Fds, Couple(f, g)
  PROVE  Coupled(f, g)
<1>1. partner \in [Sides -> [Fds -> Fds \cup {NoFd}]] /\ "proxy" \in Sides /\ "net" \in Sides
  BY DEF Base, Typed, Sides
<1>2. partner' = [partner EXCEPT !["proxy"][f] = g, !["net"][g] = f]
  BY DEF Couple
<1>3. /\ partner'["proxy"] = [partner["proxy"] EXCEPT ![f] = g]
      /\ partner'["net"] = [partner["net"] EXCEPT ![g] = f]
  BY <1>1, <1>2
<1>4. partner' \in [Sides -> [Fds -> Fds \cup {NoFd}]]
  BY <1>1, <1>2 DEF Sides
<1>5. actualfds' = Append(actualfds, g)
  BY DEF Couple
<1> QED BY <1>1, <1>3, <1>4, <1>5 DEF Coupled

\* The answer to the promise.
LEMMA TakePromiseBase ==
  ASSUME Base, TakePromise
  PROVE  Base'
<1>1. /\ pc = "await" /\ tunnels # <<>> /\ tunnels' = Tail(tunnels) /\ pc' = "push"
      /\ UNCHANGED <<world, table, cur, msg, buffer, inserted>>
  BY DEF TakePromise
<1>h. PICK h : h = Head(tunnels)
  OBVIOUS
<1>2. cur \in Fds /\ msg \in Datagrams
  BY <1>1 DEF Base, Hands
<1>3. h \in Fds \cup {NoFd}
  BY <1>1, <1>h, TailFields DEF Base, Typed
<1>4. CASE h # NoFd
  <2>1. Couple(cur, h) /\ UNCHANGED <<sock, seen>> /\ h \in Fds
    BY <1>3, <1>4, <1>h DEF TakePromise
  <2>2. /\ partner' \in [Sides -> [Fds -> Fds \cup {NoFd}]]
        /\ actualfds' = Append(actualfds, h)
    BY <1>2, <2>1, CoupleFields DEF Coupled
  <2>3. Waiting' /\ tunnels' \in Seq(Fds \cup {NoFd}) /\ actualfds' \in Seq(Fds)
    BY <1>1, <1>4, <1>h, <2>1, <2>2, HeadTaken DEF world
  <2>4. Typed'
    BY <1>1, <2>1, <2>2, <2>3 DEF Base, Typed, world
  <2>5. Kinds'
    BY <1>1, <2>1 DEF Base, Kinds
  <2>6. Hands'
    BY <1>1, <1>2, <2>1 DEF Base, Hands, world
  <2>7. OneEach'
    BY <1>1, <2>1 DEF Base, OneEach, On, world
  <2> QED BY <2>3, <2>4, <2>5, <2>6, <2>7 DEF Base
<1>5. CASE h = NoFd
  <2>1. PICK shut :
           /\ sock' = [f \in Fds |-> IF f \in shut /\ On(f)[1] \in {"peer", "tunnel"}
                                     THEN ShutDown(sock[f]) ELSE sock[f]]
           /\ seen' \in SUBSET (seen \cup {"stale"})
           /\ UNCHANGED maps
    BY <1>5, <1>h DEF TakePromise
  <2>2. /\ sock' \in [Fds -> Socks] /\ \A f \in Fds : sock'[f].on = sock[f].on
    <3>1. ASSUME NEW f \in Fds
          PROVE  sock'[f] \in Socks /\ sock'[f].on = sock[f].on
      <4>1. sock[f] \in Socks /\ (On(f)[1] \in {"peer", "tunnel"} => Kind(sock[f]) # "closed")
        BY Holds DEF On, Kind
      <4>2. On(f)[1] \in {"peer", "tunnel"} => ShutDown(sock[f]) \in Socks /\ ShutDown(sock[f]).on = sock[f].on
        BY <4>1, SockChanged
      <4> QED BY <2>1, <4>1, <4>2
    <3> QED BY <2>1, <3>1
  <2>3. \A f \in Fds : Kind(sock'[f]) = Kind(sock[f])
    BY <2>2 DEF Kind
  <2>4. Waiting' /\ tunnels' \in Seq(Fds \cup {NoFd}) /\ actualfds' \in Seq(Fds)
    BY <1>1, <2>1, <2>2, <2>3, HeadTaken DEF world, maps
  <2>5. Typed'
    BY <1>1, <2>1, <2>2, <2>4 DEF Base, Typed, world, maps, Marks
  <2>6. Kinds'
    BY <1>1, <2>3, Holds, Constants DEF Base, Kinds, Sides
  <2>7. Hands'
    BY <1>1, <1>2, <2>3 DEF Base, Hands, world
  <2>8. OneEach'
    BY <1>1, <2>2 DEF Base, OneEach, On, world
  <2> QED BY <2>4, <2>5, <2>6, <2>7, <2>8 DEF Base
<1> QED BY <1>4, <1>5

\* The first datagram goes where the map says.
LEMMA PushBase ==
  ASSUME Base, Push
  PROVE  Base'
<1>1. /\ pc = "push" /\ pc' = "loop" /\ cur' = NoFd /\ msg' = Nothing
      /\ partner' = [partner EXCEPT !["proxy"][cur] = IF @ = NoFd THEN 0 ELSE @]
      /\ UNCHANGED <<world, sock, table, tunnels, actualfds, inserted, seen>>
  BY DEF Push
<1>2. cur \in Fds /\ msg \in Datagrams /\ 0 \in Fds
  BY <1>1, Constants DEF Base, Hands
<1>3. partner' \in [Sides -> [Fds -> Fds \cup {NoFd}]]
  BY <1>1, <1>2 DEF Base, Typed, Sides
<1>4. PICK d : d = partner'["proxy"][cur]
  OBVIOUS
<1>5. buffer' = [buffer EXCEPT !["net"][d] = Append(@, msg)]
  BY <1>4 DEF Push
<1>6. /\ buffer' \in [Sides -> [Fds -> Seq(Units)]]
      /\ \A f \in Fds : buffer'["net"][f] \in Seq(Datagrams) /\ buffer'["proxy"][f] \in Seq(Frames)
  <2>1. /\ buffer \in [Sides -> [Fds -> Seq(Units)]] /\ "net" \in Sides /\ "proxy" \in Sides
        /\ \A f \in Fds : buffer["net"][f] \in Seq(Datagrams) /\ buffer["proxy"][f] \in Seq(Frames)
    BY DEF Base, Typed, Sides
  <2>2. \A f \in Fds : Append(buffer["net"][f], msg) \in Seq(Datagrams)
    BY <1>2, <2>1, AppendFields
  <2>3. Seq(Datagrams) \subseteq Seq(Units)
    BY UnitSeqs
  <2>4. /\ buffer'["proxy"] = buffer["proxy"]
        /\ \A f \in Fds : buffer'["net"][f] = IF f = d THEN Append(buffer["net"][f], msg) ELSE buffer["net"][f]
        /\ buffer' = [buffer EXCEPT !["net"] = [buffer["net"] EXCEPT ![d] = Append(@, msg)]]
    BY <1>5, <2>1
  <2>5. [buffer["net"] EXCEPT ![d] = Append(@, msg)] \in [Fds -> Seq(Units)]
    BY <2>1, <2>2, <2>3
  <2>6. buffer' \in [Sides -> [Fds -> Seq(Units)]]
    BY <2>1, <2>4, <2>5
  <2> QED BY <2>1, <2>2, <2>4, <2>6
<1>7. Typed'
  BY <1>1, <1>3, <1>6 DEF Base, Typed, world
<1>8. Kinds' /\ Hands' /\ Waiting' /\ OneEach'
  BY <1>1 DEF Base, Kinds, Hands, Waiting, OneEach, On, world
<1> QED BY <1>7, <1>8 DEF Base

\* A socket to the service for a new tunnel, or none.
LEMMA DispatchBase ==
  ASSUME Base, Dispatch
  PROVE  Base'
<1>1. /\ type = "CLIENT" /\ pc = "loop" /\ tunnels # <<>> /\ tunnels' = Tail(tunnels)
      /\ UNCHANGED <<world, table, msg, buffer, inserted>>
  BY DEF Dispatch
<1>h. PICK h : h = Head(tunnels)
  OBVIOUS
<1>2. PICK f \in Fds :
          /\ IsLowestFree(f)
          /\ \/ /\ sock' = [sock EXCEPT ![f] = NewSock(<<"peer", On(h)[2]>>)]
                /\ Couple(f, h)
                /\ pc' = "insert" /\ cur' = f
                /\ seen' = seen \cup Stale(f)
             \/ /\ sock' = [sock EXCEPT ![f] = Misc]
                /\ seen' = seen \cup {"absent"}
                /\ UNCHANGED <<pc, cur, maps>>
  BY <1>h DEF Dispatch
<1>3. h = tunnels[1] /\ 1 \in DOMAIN tunnels
  BY <1>1, <1>h, TailFields DEF Base, Typed
<1>4. h \in Fds /\ Kind(sock[h]) = "tunnel" /\ On(h)[2] \in Peers /\ h # NoFd
  BY <1>1, <1>3, Holds DEF Base, Waiting
<1>5. PICK x \in Socks : x = NewSock(<<"peer", On(h)[2]>>) /\ x.on = <<"peer", On(h)[2]>>
  BY <1>4, NewSocks DEF Whats
<1>6. PICK y \in {x, Misc} : sock' = [sock EXCEPT ![f] = y] /\ (y = x \/ pc' = pc)
  BY <1>2, <1>5
<1>7. /\ sock' \in [Fds -> Socks] /\ sock'[f] = y /\ Kind(sock'[f]) \in {"peer", "misc"}
      /\ y = x => Kind(sock'[f]) = "peer"
      /\ \A g \in Fds : g # f => sock'[g] = sock[g]
  <2>1. sock \in [Fds -> Socks] /\ y \in Socks
    BY <1>5, NewSocks DEF Base, Typed
  <2>2. Kind(y) \in {"peer", "misc"} /\ (y = x => Kind(y) = "peer")
    BY <1>5, NewSocks DEF Kind
  <2> QED BY <2>1, <2>2, <1>6
<1>8. /\ f # 0 /\ \A s \in Sides : f \notin Registered(table[s])
      /\ \A i \in DOMAIN tunnels : tunnels[i] # f
      /\ \A i \in DOMAIN actualfds : actualfds[i] # f
      /\ sock[f] = Closed /\ Kind(sock[f]) = "closed"
  BY <1>2, Free
<1>9. \A g \in Fds : /\ Kind(sock[g]) = "tunnel" => sock'[g] = sock[g]
                     /\ Kind(sock'[g]) = "tunnel" => sock'[g] = sock[g]
  BY <1>7, <1>8
<1>10. /\ partner' \in [Sides -> [Fds -> Fds \cup {NoFd}]]
       /\ actualfds' = actualfds \/ actualfds' = Append(actualfds, h)
  <2>1. CASE Couple(f, h)
    BY <2>1, <1>4, CoupleFields DEF Coupled
  <2>2. CASE UNCHANGED maps
    BY <2>2 DEF Base, Typed, maps
  <2> QED BY <1>2, <2>1, <2>2
<1>11. Waiting' /\ tunnels' \in Seq(Fds \cup {NoFd}) /\ actualfds' \in Seq(Fds)
  BY <1>1, <1>4, <1>h, <1>9, <1>10, HeadTaken DEF world
<1>12. Typed'
  <2>1. seen' \in SUBSET Marks
    BY <1>2 DEF Base, Typed, Marks, Stale
  <2>2. pc' \in {"loop", "insert"} /\ cur' \in Fds \cup {NoFd}
    BY <1>1, <1>2, Holds
  <2> QED BY <1>1, <1>7, <1>10, <1>11, <2>1, <2>2 DEF Base, Typed, world
<1>13. Kinds'
  <2>1. \A g \in Fds : /\ Kind(sock'[g]) # "bound"
                       /\ Kind(sock'[g]) = "listening" => g = Listen
    BY <1>1, <1>7 DEF Base, Kinds
  <2>2. Kind(sock'[0]) = "misc"
    BY <1>7, <1>8, Constants DEF Base, Kinds
  <2>3. \A s \in Sides : \A g \in Registered(table[s]) : sock'[g] = sock[g]
    BY <1>7, <1>8, Holds
  <2> QED BY <1>1, <2>1, <2>2, <2>3 DEF Base, Kinds, Sides
<1>14. Hands'
  <2>1. CASE Couple(f, h) /\ pc' = "insert" /\ cur' = f /\ y = x
    BY <2>1, <1>1, <1>5, <1>7, <1>8 DEF Hands, Kind, world, Sides
  <2>2. CASE UNCHANGED <<pc, cur>>
    BY <2>2, <1>1 DEF Base, Hands
  <2>3. ASSUME pc' = "insert" /\ cur' = f
        PROVE  Kind(sock'[f]) = "peer"
    BY <2>3, <1>1, <1>6, <1>7
  <2> QED BY <2>2, <2>3, <1>1, <1>2, <1>8 DEF Hands, world, Sides
<1>15. OneEach'
  <2>1. \A g \in Fds, t \in Tunnels : sock'[g].on = <<"tunnel", t>> => sock[g].on = <<"tunnel", t>>
    BY <1>7, <1>9 DEF Kind
  <2> QED BY <1>1, <2>1 DEF Base, OneEach, On, world
<1> QED BY <1>11, <1>12, <1>13, <1>14, <1>15 DEF Base

\* netThread registers the next tunnel.
LEMMA TakeTunnelBase ==
  ASSUME Base, TakeTunnel
  PROVE  Base'
<1>h. PICK h : h = Head(actualfds)
  OBVIOUS
<1>1. /\ actualfds # <<>> /\ actualfds' = Tail(actualfds)
      /\ InsertInto("net", h, sock[h])
      /\ UNCHANGED <<world, setup, partner, buffer>>
  BY <1>h DEF TakeTunnel
<1>2. /\ h \in Fds /\ h = actualfds[1] /\ 1 \in DOMAIN actualfds
      /\ actualfds' \in Seq(Fds)
      /\ \A i \in DOMAIN actualfds' : i + 1 \in DOMAIN actualfds /\ actualfds'[i] = actualfds[i + 1]
                                    /\ i + 1 # 1 /\ i \in Nat
  BY <1>1, <1>h, TailFields DEF Base, Typed
<1>3. /\ Kind(sock[h]) = "tunnel" /\ h \notin Registered(table["net"]) /\ sock[h] \in Socks
      /\ \A i \in DOMAIN actualfds' : actualfds'[i] # h
      /\ \A i \in DOMAIN tunnels : tunnels[i] # h
      /\ "net" \in Sides
  BY <1>2, Holds, Constants DEF Base, Waiting, Sides
<1>4. /\ table' \in [Sides -> Tables] /\ \A r \in Sides : TableOK(table'[r])
      /\ sock' \in [Fds -> Socks] /\ inserted' \in [Sides -> SUBSET Fds]
      /\ \A g \in Fds : g # h => sock'[g] = sock[g]
      /\ sock'[h] \in {sock[h], Closed}
      /\ Registered(table'["net"]) \subseteq Registered(table["net"]) \cup {h}
      /\ h \in Registered(table'["net"]) => sock'[h] = sock[h]
      /\ table'["proxy"] = table["proxy"]
      /\ seen' \subseteq seen \cup {"net"}
  BY <1>1, <1>2, <1>3, Inserting DEF Sides
<1>5. Typed'
  BY <1>1, <1>2, <1>4 DEF Base, Typed, world, setup, Marks, Sides
<1>6. /\ \A g \in Fds : g # h => Kind(sock'[g]) = Kind(sock[g])
      /\ Kind(sock'[h]) \in {"tunnel", "closed"}
      /\ \A g \in Fds : sock'[g].on \in {sock[g].on, <<"closed", 0>>}
  BY <1>3, <1>4, NewSocks
<1>7. Kinds'
  <2>1. 0 # h /\ 0 \in Fds
    BY <1>3, Constants DEF Base, Kinds
  <2>2. \A f \in Registered(table["proxy"]) : f # h
    BY <1>3 DEF Base, Kinds
  <2> QED BY <1>1, <1>3, <1>4, <1>6, <2>1, <2>2, Holds DEF Base, Kinds, setup, Sides
<1>8. Hands'
  <2>1. /\ pc = "start" => Listen # h
        /\ pc \in {"bound", "insert"} => cur # h
    BY <1>3 DEF Base, Hands
  <2> QED BY <1>1, <1>4, <1>6, <2>1, Constants DEF Base, Hands, setup, world
<1>9. Waiting'
  <2>1. \A i \in DOMAIN tunnels : tunnels[i] # NoFd => tunnels[i] \in Fds /\ sock'[tunnels[i]] = sock[tunnels[i]]
    BY <1>3, <1>4, Holds
  <2>2. ASSUME NEW i \in DOMAIN actualfds'
        PROVE
          /\ Kind(sock'[actualfds'[i]]) = "tunnel"
          /\ actualfds'[i] \notin Registered(table'["net"])
          /\ \A j \in DOMAIN actualfds' : actualfds'[j] = actualfds'[i] => i = j
    <3>1. i + 1 \in DOMAIN actualfds /\ actualfds'[i] = actualfds[i + 1] /\ actualfds'[i] \in Fds
          /\ actualfds'[i] # h
      BY <1>2, <1>3, Holds
    <3>2. ASSUME NEW j \in DOMAIN actualfds', actualfds'[j] = actualfds'[i]
          PROVE  i = j
      <4>1. j + 1 = i + 1
        BY <1>2, <3>1, <3>2 DEF Base, Waiting
      <4> QED BY <4>1, <1>2, <2>2
    <3> QED BY <3>1, <3>2, <1>4 DEF Base, Waiting
  <2>3. \A i \in DOMAIN tunnels :
          /\ tunnels[i] = NoFd => type = "SERVER"
          /\ tunnels[i] # NoFd =>
                /\ Kind(sock'[tunnels[i]]) = "tunnel"
                /\ tunnels[i] \notin Registered(table'["net"])
                /\ \A j \in DOMAIN tunnels : tunnels[j] = tunnels[i] => i = j
                /\ \A j \in DOMAIN actualfds' : actualfds'[j] # tunnels[i]
    BY <1>2, <1>3, <1>4, <2>1 DEF Base, Waiting
  <2>4. type = "CLIENT" => \A g \in Fds : Kind(sock'[g]) = "tunnel" => sock'[g].on[2] \in Peers
    <3>1. \A g \in Fds : Kind(sock'[g]) = "tunnel" => sock'[g] = sock[g]
      BY <1>4, NewSocks
    <3> QED BY <3>1 DEF Base, Waiting, On
  <2> QED BY <1>1, <2>2, <2>3, <2>4 DEF Waiting, On, setup, world
<1>10. OneEach'
  <2>1. \A g \in Fds, t \in Tunnels : sock'[g].on = <<"tunnel", t>> => sock[g].on = <<"tunnel", t>>
    BY <1>6
  <2> QED BY <1>1, <2>1 DEF Base, OneEach, On, world
<1> QED BY <1>5, <1>7, <1>8, <1>9, <1>10 DEF Base

\* Datagrams join the write buffer of what the map says.
LEMMA BufferMore ==
  ASSUME Base, NEW s \in Sides, NEW d,
         NEW q \in Seq(IF s = "net" THEN Datagrams ELSE Frames),
         buffer' = [buffer EXCEPT ![s][d] = @ \o q]
  PROVE  /\ buffer' \in [Sides -> [Fds -> Seq(Units)]]
         /\ \A f \in Fds : buffer'["net"][f] \in Seq(Datagrams) /\ buffer'["proxy"][f] \in Seq(Frames)
         /\ \A f \in Fds : buffer'[s][f] = IF f = d THEN buffer[s][f] \o q ELSE buffer[s][f]
         /\ \A r \in Sides : r # s => buffer'[r] = buffer[r]
<1>1. PICK S : S = IF s = "net" THEN Datagrams ELSE Frames
  OBVIOUS
<1>2. /\ buffer \in [Sides -> [Fds -> Seq(Units)]]
      /\ \A f \in Fds : buffer["net"][f] \in Seq(Datagrams) /\ buffer["proxy"][f] \in Seq(Frames)
      /\ q \in Seq(S) /\ \A f \in Fds : buffer[s][f] \in Seq(S)
  BY <1>1 DEF Base, Typed, Sides
<1>3. \A f \in Fds : buffer[s][f] \o q \in Seq(S)
  BY <1>2
<1>4. Seq(S) \subseteq Seq(Units)
  BY <1>1, UnitSeqs
<1>5. /\ \A r \in Sides : r # s => buffer'[r] = buffer[r]
      /\ \A f \in Fds : buffer'[s][f] = IF f = d THEN buffer[s][f] \o q ELSE buffer[s][f]
      /\ buffer' = [buffer EXCEPT ![s] = [buffer[s] EXCEPT ![d] = @ \o q]]
  BY <1>2
<1>6. [buffer[s] EXCEPT ![d] = @ \o q] \in [Fds -> Seq(Units)]
  BY <1>2, <1>3, <1>4
<1>7. buffer' \in [Sides -> [Fds -> Seq(Units)]]
  BY <1>2, <1>5, <1>6
<1>8. \A f \in Fds : buffer'["net"][f] \in Seq(Datagrams) /\ buffer'["proxy"][f] \in Seq(Frames)
  BY <1>1, <1>2, <1>3, <1>5 DEF Sides
<1> QED BY <1>5, <1>7, <1>8

\* The front of a write buffer is gone.
LEMMA Popped ==
  ASSUME Base, NEW s \in Sides, NEW f \in Fds, buffer[s][f] # <<>>, Pop(s, f)
  PROVE  /\ buffer' \in [Sides -> [Fds -> Seq(Units)]]
         /\ \A g \in Fds : buffer'["net"][g] \in Seq(Datagrams) /\ buffer'["proxy"][g] \in Seq(Frames)
         /\ \A g \in Fds : buffer'[s][g] = IF g = f THEN Tail(buffer[s][g]) ELSE buffer[s][g]
         /\ \A r \in Sides : r # s => buffer'[r] = buffer[r]
         /\ Head(buffer[s][f]) \in IF s = "net" THEN Datagrams ELSE Frames
<1>1. PICK S : S = IF s = "net" THEN Datagrams ELSE Frames
  OBVIOUS
<1>2. /\ buffer \in [Sides -> [Fds -> Seq(Units)]]
      /\ \A g \in Fds : buffer["net"][g] \in Seq(Datagrams) /\ buffer["proxy"][g] \in Seq(Frames)
      /\ buffer[s][f] \in Seq(S)
  BY <1>1 DEF Base, Typed, Sides
<1>3. Head(buffer[s][f]) \in S /\ Tail(buffer[s][f]) \in Seq(S)
  BY <1>2, TailFields
<1>4. Seq(S) \subseteq Seq(Units)
  BY <1>1, UnitSeqs
<1>5. /\ \A r \in Sides : r # s => buffer'[r] = buffer[r]
      /\ \A g \in Fds : buffer'[s][g] = IF g = f THEN Tail(buffer[s][g]) ELSE buffer[s][g]
      /\ buffer' = [buffer EXCEPT ![s] = [buffer[s] EXCEPT ![f] = Tail(@)]]
  BY <1>2 DEF Pop
<1>6. [buffer[s] EXCEPT ![f] = Tail(@)] \in [Fds -> Seq(Units)]
  BY <1>2, <1>3, <1>4
<1>7. buffer' \in [Sides -> [Fds -> Seq(Units)]]
  BY <1>2, <1>5, <1>6
<1>8. \A g \in Fds : buffer'["net"][g] \in Seq(Datagrams) /\ buffer'["proxy"][g] \in Seq(Frames)
  BY <1>1, <1>2, <1>3, <1>5 DEF Sides
<1> QED BY <1>1, <1>3, <1>5, <1>7, <1>8

\* The part of a sequence that is read, and the part that stays.
LEMMA PartsOf ==
  ASSUME NEW S, NEW q \in Seq(S), NEW n \in 1 .. Len(q)
  PROVE  /\ SubSeq(q, 1, n) \in Seq(S) /\ SubSeq(q, n + 1, Len(q)) \in Seq(S)
         /\ DOMAIN SubSeq(q, 1, n) \subseteq DOMAIN q
         /\ \A i \in DOMAIN SubSeq(q, 1, n) : SubSeq(q, 1, n)[i] = q[i]
         /\ \A i \in DOMAIN SubSeq(q, n + 1, Len(q)) :
               n + i \in DOMAIN q /\ SubSeq(q, n + 1, Len(q))[i] = q[n + i]
  OBVIOUS

\* onRead of a UDP socket.
LEMMA ReadPeerBase ==
  ASSUME Base, NEW i \in Slots, ReadPeer(i)
  PROVE  Base'
<1>f. PICK f : f = table["proxy"].fd[i]
  OBVIOUS
<1>x. PICK x : x = sock[f]
  OBVIOUS
<1>1. /\ f \notin {NoFd, Listen} /\ (x.inbox # <<>> \/ x.down)
      /\ UNCHANGED <<world, setup, maps, inserted>>
      /\ IF x.err \/ x.inbox = <<>>
         THEN ReadFails("proxy", i, [x EXCEPT !.err = FALSE])
         ELSE IF Head(x.inbox)[3] = 0
         THEN ReadFails("proxy", i, [x EXCEPT !.inbox = Tail(@)])
         ELSE /\ sock' = [sock EXCEPT ![f].inbox = Tail(@)]
              /\ buffer' = [buffer EXCEPT
                         !["net"][Destination("proxy", f)] = Append(@, Head(x.inbox))]
              /\ Kept
  BY <1>f, <1>x, Zenon DEF ReadPeer
<1>2. /\ "proxy" \in Sides /\ f \in Registered(table["proxy"]) /\ f \in Fds /\ x \in Socks
      /\ Kind(x) \in {"listening", "peer"} /\ f # NoFd
  BY <1>1, <1>f, <1>x, Holds DEF Sides, KindsOf
<1>3. x.inbox \in Seq(Datagrams) /\ InboxesOf(x.on) = Seq(Datagrams)
  BY <1>2, SockFields, Zenon DEF InboxesOf, Kind
<1>4. ASSUME NEW y \in Socks, y.on = x.on, ReadFails("proxy", i, y)
      PROVE  Base'
  <2>1. Failed("proxy", i, y)
    BY <1>2, <1>4, <1>f, <1>x, Failing
  <2>2. Typed'
    BY <2>1, <1>1 DEF Base, Typed, Failed, world, setup, maps, Marks
  <2> QED BY <2>2, <1>1, <1>2, <1>4, <1>f, <1>x, FailingBase, Zenon
<1>5. CASE x.err \/ x.inbox = <<>>
  <2>1. [x EXCEPT !.err = FALSE] \in Socks /\ [x EXCEPT !.err = FALSE].on = x.on
    BY <1>2, SockChanged
  <2> QED BY <1>1, <1>4, <1>5, <2>1
<1>6. CASE ~(x.err \/ x.inbox = <<>>) /\ Head(x.inbox)[3] = 0
  <2>1. Tail(x.inbox) \in InboxesOf(x.on)
    BY <1>3, <1>6, TailFields
  <2>2. [x EXCEPT !.inbox = Tail(@)] \in Socks /\ [x EXCEPT !.inbox = Tail(@)].on = x.on
    BY <1>2, <2>1, SockChanged
  <2> QED BY <1>1, <1>4, <1>6, <2>2
<1>7. CASE ~(x.err \/ x.inbox = <<>>) /\ Head(x.inbox)[3] # 0
  <2>1. /\ sock' = [sock EXCEPT ![f].inbox = Tail(@)]
        /\ UNCHANGED <<table, seen>>
    BY <1>1, <1>7 DEF Kept
  <2>d. PICK d : d = Destination("proxy", f)
    OBVIOUS
  <2>2. Tail(x.inbox) \in InboxesOf(x.on) /\ Head(x.inbox) \in Datagrams
    BY <1>3, <1>7, TailFields
  <2>3. PICK y \in Socks : y = [x EXCEPT !.inbox = Tail(x.inbox)] /\ y.on = x.on
    BY <1>2, <2>2, SockChanged
  <2>4. sock' = [sock EXCEPT ![f] = y]
    BY <2>1, <2>3, <1>x
  <2>5. sock' \in [Fds -> Socks] /\ \A g \in Fds : sock'[g].on = sock[g].on
    BY <2>3, <2>4, <1>x DEF Base, Typed
  <2>6. /\ buffer' \in [Sides -> [Fds -> Seq(Units)]]
        /\ \A g \in Fds : buffer'["net"][g] \in Seq(Datagrams) /\ buffer'["proxy"][g] \in Seq(Frames)
    <3>0. /\ (IF "net" = "net" THEN Datagrams ELSE Frames) = Datagrams
          /\ <<Head(x.inbox)>> \in Seq(Datagrams)
      BY <2>2
    <3>1. PICK q \in Seq(IF "net" = "net" THEN Datagrams ELSE Frames) : q = <<Head(x.inbox)>>
      BY <3>0, Zenon
    <3>2. buffer' = [buffer EXCEPT !["net"][d] = Append(@, Head(x.inbox))]
      BY <1>1, <1>7, <2>d
    <3>3. buffer' = [buffer EXCEPT !["net"][d] = @ \o q]
      <4>1. buffer' = [buffer EXCEPT !["net"] = [buffer["net"] EXCEPT ![d] = Append(@, Head(x.inbox))]]
        BY <3>2
      <4>2. /\ buffer["net"] \in [Fds -> Seq(Units)]
            /\ \A g \in Fds : Append(buffer["net"][g], Head(x.inbox)) = buffer["net"][g] \o q
        <5>1. /\ buffer["net"] \in [Fds -> Seq(Units)]
              /\ \A g \in Fds : buffer["net"][g] \in Seq(Datagrams)
          BY DEF Base, Typed, Sides
        <5> QED BY <5>1, <3>1, <2>2
      <4>3. [buffer["net"] EXCEPT ![d] = Append(@, Head(x.inbox))] = [buffer["net"] EXCEPT ![d] = @ \o q]
        BY <4>2
      <4> QED BY <4>1, <4>3
    <3>4. "net" \in Sides
      BY DEF Sides
    <3> QED BY <3>1, <3>3, <3>4, BufferMore
  <2>7. Typed'
    BY <1>1, <2>1, <2>5, <2>6 DEF Base, Typed, world, setup, maps
  <2> QED BY <1>1, <2>1, <2>5, <2>7, SameBase DEF world, setup, maps
<1> QED BY <1>5, <1>6, <1>7

\* onRead of a tunnel.
LEMMA ReadTunnelBase ==
  ASSUME Base, NEW i \in Slots, ReadTunnel(i)
  PROVE  Base'
<1>f. PICK f : f = table["net"].fd[i]
  OBVIOUS
<1>x. PICK x : x = sock[f]
  OBVIOUS
<1>1. /\ f # NoFd /\ UNCHANGED <<world, setup, maps, inserted>>
      /\ \/ \E n \in 1 .. Len(x.inbox) :
               /\ sock' = [sock EXCEPT ![f].inbox = SubSeq(@, n + 1, Len(@))]
               /\ buffer' = [buffer EXCEPT
                       !["proxy"][Destination("net", f)] = @ \o SubSeq(x.inbox, 1, n)]
               /\ Kept
         \/ x.inbox = <<>> /\ x.down /\ ReadFails("net", i, x)
  BY <1>f, <1>x, Zenon DEF ReadTunnel
<1>2. /\ "net" \in Sides /\ f \in Registered(table["net"]) /\ f \in Fds /\ x \in Socks
      /\ Kind(x) = "tunnel"
  BY <1>1, <1>f, <1>x, Holds, Zenon DEF Sides, KindsOf
<1>3. x.inbox \in Seq(Frames) /\ InboxesOf(x.on) = Seq(Frames)
  BY <1>2, SockFields DEF InboxesOf, Kind
<1>4. CASE ReadFails("net", i, x)
  <2>1. Failed("net", i, x)
    BY <1>1, <1>2, <1>4, <1>f, <1>x, Failing, Zenon
  <2>2. Typed'
    BY <2>1, <1>1 DEF Base, Typed, Failed, world, setup, maps, Marks
  <2> QED BY <2>2, <1>1, <1>2, <1>4, <1>f, <1>x, FailingBase, Zenon
<1>5. ASSUME NEW n \in 1 .. Len(x.inbox),
             sock' = [sock EXCEPT ![f].inbox = SubSeq(@, n + 1, Len(@))],
             buffer' = [buffer EXCEPT
                       !["proxy"][Destination("net", f)] = @ \o SubSeq(x.inbox, 1, n)],
             Kept
      PROVE  Base'
  <2>1. UNCHANGED <<table, seen>>
    BY <1>5 DEF Kept
  <2>2. /\ SubSeq(x.inbox, n + 1, Len(x.inbox)) \in InboxesOf(x.on)
        /\ SubSeq(x.inbox, 1, n) \in Seq(Frames)
    BY <1>3, PartsOf
  <2>3. PICK y \in Socks : y = [x EXCEPT !.inbox = SubSeq(x.inbox, n + 1, Len(x.inbox))] /\ y.on = x.on
    BY <1>2, <2>2, SockChanged
  <2>4. sock' = [sock EXCEPT ![f] = y]
    BY <1>5, <2>3, <1>x
  <2>5. sock' \in [Fds -> Socks] /\ \A g \in Fds : sock'[g].on = sock[g].on
    BY <2>3, <2>4, <1>x DEF Base, Typed
  <2>6. /\ buffer' \in [Sides -> [Fds -> Seq(Units)]]
        /\ \A g \in Fds : buffer'["net"][g] \in Seq(Datagrams) /\ buffer'["proxy"][g] \in Seq(Frames)
    <3>0. (IF "proxy" = "net" THEN Datagrams ELSE Frames) = Frames
      OBVIOUS
    <3>1. PICK q \in Seq(IF "proxy" = "net" THEN Datagrams ELSE Frames) : q = SubSeq(x.inbox, 1, n)
      BY <2>2, <3>0, Zenon
    <3>2. PICK d : d = Destination("net", f)
      OBVIOUS
    <3>3. buffer' = [buffer EXCEPT !["proxy"][d] = @ \o q]
      BY <1>5, <3>1, <3>2
    <3>4. "proxy" \in Sides
      BY DEF Sides
    <3> QED BY <3>1, <3>3, <3>4, BufferMore
  <2>7. Typed'
    BY <1>1, <2>1, <2>5, <2>6 DEF Base, Typed, world, setup, maps
  <2> QED BY <1>1, <2>1, <2>5, <2>7, SameBase DEF world, setup, maps
<1> QED BY <1>1, <1>4, <1>5, Zenon

\* onWrite of a UDP socket.
LEMMA WritePeerBase ==
  ASSUME Base, NEW i \in Slots, WritePeer(i)
  PROVE  Base'
<1>f. PICK f : f = table["proxy"].fd[i]
  OBVIOUS
<1>x. PICK x : x = sock[f]
  OBVIOUS
<1>1. /\ f # NoFd /\ buffer["proxy"][f] # <<>> /\ Pop("proxy", f)
      /\ \/ /\ x.on[1] = "peer"
            /\ got' = [got EXCEPT ![x.on[2]] = Append(@, Head(buffer["proxy"][f]))]
            /\ \E e \in BOOLEAN : sock' = [sock EXCEPT ![f].err = e]
            /\ UNCHANGED seen
         \/ /\ sock' = [sock EXCEPT ![f].err = FALSE]
            /\ seen' = seen \cup {"dropped"}
            /\ UNCHANGED got
      /\ UNCHANGED <<type, sent, asked, out, table, setup, maps, inserted>>
  BY <1>f, <1>x, Zenon DEF WritePeer
<1>2. /\ "proxy" \in Sides /\ f \in Registered(table["proxy"]) /\ f \in Fds /\ x \in Socks
      /\ Kind(x) \in {"listening", "peer"}
  BY <1>1, <1>f, <1>x, Holds, Zenon DEF Sides, KindsOf
<1>3. /\ buffer' \in [Sides -> [Fds -> Seq(Units)]]
      /\ \A g \in Fds : buffer'["net"][g] \in Seq(Datagrams) /\ buffer'["proxy"][g] \in Seq(Frames)
      /\ Head(buffer["proxy"][f]) \in Frames
  BY <1>1, <1>2, Popped
<1>4. got' \in [Peers -> Seq(Frames)]
  <2>1. CASE x.on[1] = "peer" /\ got' = [got EXCEPT ![x.on[2]] = Append(@, Head(buffer["proxy"][f]))]
    <3>1. x.on[2] \in Peers /\ got \in [Peers -> Seq(Frames)]
      BY <2>1, <1>2, SockFields, WhatFields DEF Base, Typed
    <3>2. Append(got[x.on[2]], Head(buffer["proxy"][f])) \in Seq(Frames)
      BY <3>1, <1>3, AppendFields
    <3> QED BY <2>1, <3>1, <3>2
  <2>2. CASE UNCHANGED got
    BY <2>2 DEF Base, Typed
  <2> QED BY <1>1, <2>1, <2>2
<1>5. PICK e \in BOOLEAN : sock' = [sock EXCEPT ![f].err = e]
  BY <1>1
<1>6. PICK y \in Socks : y = [x EXCEPT !.err = e] /\ y.on = x.on
  BY <1>2, SockChanged
<1>7. sock' = [sock EXCEPT ![f] = y]
  BY <1>5, <1>6, <1>x
<1>8. sock' \in [Fds -> Socks] /\ \A g \in Fds : sock'[g].on = sock[g].on
  BY <1>6, <1>7, <1>x DEF Base, Typed
<1>9. seen' \in SUBSET Marks
  BY <1>1 DEF Base, Typed, Marks
<1>10. Typed'
  BY <1>1, <1>3, <1>4, <1>8, <1>9 DEF Base, Typed, setup, maps
<1> QED BY <1>1, <1>8, <1>10, SameBase, Zenon DEF setup, maps

\* onWrite of a tunnel.
LEMMA WriteTunnelBase ==
  ASSUME Base, NEW i \in Slots, WriteTunnel(i)
  PROVE  Base'
<1>f. PICK f : f = table["net"].fd[i]
  OBVIOUS
<1>1. /\ f # NoFd /\ buffer["net"][f] # <<>>
      /\ \/ /\ Pop("net", f)
            /\ IF sock[f].down THEN UNCHANGED out
               ELSE out' = [out EXCEPT ![On(f)[2]] = Append(@, Head(buffer["net"][f]))]
         \/ UNCHANGED <<buffer, out>>
      /\ UNCHANGED <<type, sent, got, asked, sock, table, setup, maps, inserted, seen>>
  BY <1>f, Zenon DEF WriteTunnel
<1>2. /\ "net" \in Sides /\ f \in Registered(table["net"]) /\ f \in Fds /\ sock[f] \in Socks
      /\ Kind(sock[f]) = "tunnel"
  BY <1>1, <1>f, Holds, Zenon DEF Sides, KindsOf
<1>t. PICK t : t = On(f)[2]
  OBVIOUS
<1>3. t \in Tunnels /\ On(f) = <<"tunnel", t>> /\ asked[t] # -1
  <2>1. t \in Tunnels /\ On(f) = <<"tunnel", t>>
    BY <1>2, <1>t, SockFields, WhatFields DEF On, Kind
  <2> QED BY <2>1, <1>2 DEF Base, OneEach
<1>4. CASE UNCHANGED <<buffer, out>>
  <2>1. Typed'
    BY <1>1, <1>4 DEF Base, Typed, setup, maps
  <2> QED BY <1>1, <1>4, <2>1, SameBase DEF setup, maps
<1>5. CASE /\ Pop("net", f)
           /\ IF sock[f].down THEN UNCHANGED out
              ELSE out' = [out EXCEPT ![t] = Append(@, Head(buffer["net"][f]))]
  <2>1. /\ buffer' \in [Sides -> [Fds -> Seq(Units)]]
        /\ \A g \in Fds : buffer'["net"][g] \in Seq(Datagrams) /\ buffer'["proxy"][g] \in Seq(Frames)
        /\ Head(buffer["net"][f]) \in Datagrams
    BY <1>1, <1>2, <1>5, Popped
  <2>2. out' \in [Tunnels -> Seq(Datagrams)] /\ \A r \in Tunnels : r # t => out'[r] = out[r]
    <3>1. out \in [Tunnels -> Seq(Datagrams)]
      BY DEF Base, Typed
    <3>2. Append(out[t], Head(buffer["net"][f])) \in Seq(Datagrams)
      BY <3>1, <2>1, <1>3, AppendFields
    <3> QED BY <3>1, <3>2, <1>5
  <2>3. Typed'
    BY <1>1, <2>1, <2>2 DEF Base, Typed, setup, maps
  <2> QED BY <1>1, <1>3, <2>2, <2>3, SameBase DEF setup, maps
<1> QED BY <1>1, <1>4, <1>5, <1>t, Zenon

\* Every step keeps the base.
LEMMA NextBase == Base /\ [Next]_vars => Base'
<1> SUFFICES ASSUME Base, [Next]_vars PROVE Base'
  OBVIOUS
<1>1. CASE UNCHANGED vars
  BY <1>1, ZenonT(40) DEF vars, world, setup, maps, Base, Typed, Kinds, Hands, Waiting, OneEach, On
<1>2. CASE \E u \in Peers : Arrive(u)
  BY <1>2, ArriveBase
<1>3. CASE Tunnel \/ NoClient \/ \E f \in Fds : Frame(f)
  BY <1>3, TunnelBase, NoClientBase, FrameBase
<1>4. CASE ProxyThread
  BY <1>4, StartBase, ReceiveBase, ConnectUserBase, TakePromiseBase, PushBase, DispatchBase,
     InsertPeerBase, ReadPeerBase, WritePeerBase DEF ProxyThread
<1>5. CASE NetThread
  BY <1>5, TakeTunnelBase, ReadTunnelBase, WriteTunnelBase DEF NetThread
<1> QED BY <1>1, <1>2, <1>3, <1>4, <1>5 DEF Next

\* The base holds in every state.
THEOREM BaseInvariance == Spec => []Base
  BY InitBase, NextBase, PTL DEF Spec

\* Every variable keeps to the values its declaration in the code allows: the
\* maps lead to descriptor numbers, the tables are tables, and no list of
\* tunnels holds anything but a number or the -1 of a broken promise.
THEOREM TypeCorrect == Spec => []TypeOK
<1>1. Base => TypeOK
  BY DEF Base, Typed, TypeOK
<1> QED BY BaseInvariance, <1>1, PTL

-----------------------------------------------------------------------------
(* Each dispatcher table of the relay implements PollDispatcher.  Dispatches *)
(* says what PollDispatcher lets happen to the table of side s in one step.  *)

Full(s) == s \in seen

Dispatches(s) ==
    \/ UNCHANGED <<table[s], OpenFds, inserted[s]>> /\ (Full(s)' <=> Full(s))
    \/ \E f \in Fds :
          \/ /\ f \notin OpenFds /\ OpenFds' = OpenFds \cup {f}
             /\ UNCHANGED <<table[s], inserted[s]>> /\ (Full(s)' <=> Full(s))
          \/ /\ f \in OpenFds \ Registered(table[s])
             /\ \E i \in Slots : /\ IsFirstFree(table[s], i)
                                 /\ table'[s] = InsertAt(table[s], i, f)
             /\ inserted'[s] = inserted[s] \cup {f}
             /\ UNCHANGED OpenFds /\ (Full(s)' <=> Full(s))
          \/ /\ f \in OpenFds \ Registered(table[s]) /\ IsFull(table[s])
             /\ OpenFds' = OpenFds \ {f} /\ Full(s)'
             /\ inserted'[s] = inserted[s] \cup {f}
             /\ UNCHANGED table[s]
          \/ /\ table'[s] = Vacate(table[s], f)
             /\ OpenFds' = OpenFds \ {Victim(table[s], f)}
             /\ UNCHANGED inserted[s] /\ (Full(s)' <=> Full(s))
          \/ /\ f \in OpenFds \ Registered(table[s]) /\ OpenFds' = OpenFds \ {f}
             /\ UNCHANGED <<table[s], inserted[s]>> /\ (Full(s)' <=> Full(s))

\* A step that opens, closes and registers nothing.
Quiet == /\ UNCHANGED <<table, inserted>>
         /\ \A f \in Fds : sock'[f].on = sock[f].on
         /\ \A s \in Sides : Full(s)' <=> Full(s)

\* A socket is closed exactly if it is open on nothing.
LEMMA ClosedOn ==
  ASSUME NEW x \in Socks
  PROVE  x = Closed <=> x.on = <<"closed", 0>>
<1>1. x.on = <<"closed", 0>> => Kind(x) = "closed"
  BY DEF Kind
<1> QED BY <1>1, SockFields, NewSocks

\* What is open, by what descriptors are open on.
LEMMA OpenByOn ==
  ASSUME Base, Base'
  PROVE  /\ \A f \in Fds : f \in OpenFds <=> sock[f].on # <<"closed", 0>>
         /\ \A f \in Fds : f \in OpenFds' <=> sock'[f].on # <<"closed", 0>>
         /\ OpenFds \subseteq Fds /\ OpenFds' \subseteq Fds
         /\ table \in [Sides -> Tables] /\ inserted \in [Sides -> SUBSET Fds]
  BY ClosedOn DEF OpenFds, Base, Typed

\* A quiet step changes nothing that a dispatcher knows.
LEMMA QuietDispatches ==
  ASSUME Base, Base', Quiet
  PROVE  \A s \in Sides : Dispatches(s)
<1>1. UNCHANGED OpenFds
  BY OpenByOn DEF Quiet
<1> QED BY <1>1 DEF Quiet, Dispatches

\* A socket, or a tunnel, takes a free number.
LEMMA OpenDispatches ==
  ASSUME Base, Base', NEW f \in Fds, sock[f] = Closed,
         sock'[f].on # <<"closed", 0>>,
         \A g \in Fds : g # f => sock'[g].on = sock[g].on,
         UNCHANGED <<table, inserted>>, \A s \in Sides : Full(s)' <=> Full(s)
  PROVE  \A s \in Sides : Dispatches(s)
<1>1. sock[f].on = <<"closed", 0>>
  BY NewSocks
<1>2. f \notin OpenFds /\ OpenFds' = OpenFds \cup {f}
  BY <1>1, OpenByOn
<1> QED BY <1>2 DEF Dispatches

\* A failed read: for the other side another descriptor is closed.
LEMMA FailDispatches ==
  ASSUME Base, Base', NEW o \in Sides, NEW i \in Slots, table[o].fd[i] # NoFd,
         NEW x \in Socks, x.on = sock[table[o].fd[i]].on, ReadFails(o, i, x),
         UNCHANGED inserted
  PROVE  \A s \in Sides : Dispatches(s)
<1>v. PICK v : v = Victim(table[o], i)
  OBVIOUS
<1>1. /\ v \in Registered(table[o]) \cup {NoFd}
      /\ \A g \in Fds : IF g = v THEN sock'[g] = Closed ELSE sock'[g].on = sock[g].on
      /\ \A s \in Sides : s # o => table'[s] = table[s]
      /\ \A s \in Sides : Full(s)' <=> Full(s)
  BY <1>v, Failing DEF Failed, Full, Sides
<1>2. i \in Fds /\ table'[o] = Vacate(table[o], i)
  <2>1. table' = [table EXCEPT ![o] = Vacate(@, i)] /\ table \in [Sides -> Tables]
    BY DEF ReadFails, Removed, Base, Typed
  <2> QED BY <2>1, Constants
<1>3. OpenFds' = OpenFds \ {v}
  BY <1>1, OpenByOn, NewSocks
<1>4. Dispatches(o)
  BY <1>1, <1>2, <1>3, <1>v DEF Dispatches
<1>5. ASSUME NEW s \in Sides, s # o
      PROVE  Dispatches(s)
  <2>1. CASE v = NoFd
    <3>1. OpenFds' = OpenFds
      BY <2>1, <1>3, OpenByOn, Constants
    <3> QED BY <3>1, <1>1, <1>5 DEF Dispatches
  <2>2. CASE v \in Registered(table[o])
    <3>1. v \in Fds /\ Kind(sock[v]) \in KindsOf(o)
      BY <2>2, Holds
    <3>2. v \in OpenFds
      BY <3>1, OpenByOn DEF KindsOf, Kind
    <3>3. v \notin Registered(table[s])
      BY <3>1, <1>5, Holds DEF KindsOf, Sides
    <3> QED BY <3>1, <3>2, <3>3, <1>1, <1>3, <1>5 DEF Dispatches
  <2> QED BY <1>1, <2>1, <2>2
<1> QED BY <1>4, <1>5

\* insert of a descriptor that no table holds.
LEMMA InsertDispatches ==
  ASSUME Base, Base', NEW o \in Sides, NEW f \in Fds, NEW x,
         InsertInto(o, f, x), x.on # <<"closed", 0>>, sock[f].on # <<"closed", 0>>,
         \A s \in Sides : f \notin Registered(table[s])
  PROVE  \A s \in Sides : Dispatches(s)
<1>1. /\ sock \in [Fds -> Socks] /\ table \in [Sides -> Tables]
      /\ inserted \in [Sides -> SUBSET Fds]
  BY DEF Base, Typed
<1>2. f \in OpenFds /\ OpenFds \subseteq Fds
  BY OpenByOn
<1>3. /\ inserted'[o] = inserted[o] \cup {f}
      /\ \A s \in Sides : s # o => inserted'[s] = inserted[s]
  BY <1>1 DEF InsertInto
<1>4. CASE ~IsFull(table[o])
  <2>1. PICK i \in Slots : /\ IsFirstFree(table[o], i)
                           /\ table' = [table EXCEPT ![o] = InsertAt(@, i, f)]
                           /\ sock' = [sock EXCEPT ![f] = x] /\ UNCHANGED seen
    BY <1>4 DEF InsertInto
  <2>2. table'[o] = InsertAt(table[o], i, f) /\ \A s \in Sides : s # o => table'[s] = table[s]
    BY <2>1, <1>1
  <2>3. UNCHANGED OpenFds /\ \A s \in Sides : Full(s)' <=> Full(s)
    <3>1. \A g \in Fds : sock'[g].on # <<"closed", 0>> <=> sock[g].on # <<"closed", 0>>
      BY <2>1, <1>1
    <3> QED BY <3>1, <2>1, OpenByOn DEF Full
  <2>4. Dispatches(o)
    BY <2>1, <2>2, <2>3, <1>2, <1>3 DEF Dispatches
  <2>5. \A s \in Sides : s # o => Dispatches(s)
    BY <2>2, <2>3, <1>3 DEF Dispatches
  <2> QED BY <2>4, <2>5
<1>5. CASE IsFull(table[o])
  <2>1. /\ sock' = [sock EXCEPT ![f] = Closed] /\ seen' = seen \cup {o} /\ UNCHANGED table
    BY <1>5 DEF InsertInto
  <2>2. OpenFds' = OpenFds \ {f}
    BY <2>1, <1>1, OpenByOn, NewSocks
  <2>3. Full(o)' /\ \A s \in Sides : s # o => (Full(s)' <=> Full(s))
    BY <2>1 DEF Full
  <2>4. Dispatches(o)
    BY <2>1, <2>2, <2>3, <1>2, <1>3, <1>5 DEF Dispatches
  <2>5. ASSUME NEW s \in Sides, s # o
        PROVE  Dispatches(s)
    BY <2>1, <2>2, <2>3, <2>5, <1>2, <1>3 DEF Dispatches
  <2> QED BY <2>4, <2>5
<1> QED BY <1>4, <1>5

\* Another inbox, error or end leaves a socket open on the same thing.
LEMMA SameOn ==
  ASSUME Base, NEW f \in Fds
  PROVE  /\ \A q : sock' = [sock EXCEPT ![f].inbox = q] => \A g \in Fds : sock'[g].on = sock[g].on
         /\ \A q : sock' = [sock EXCEPT ![f].err = q] => \A g \in Fds : sock'[g].on = sock[g].on
         /\ \A q : sock' = [sock EXCEPT ![f].down = q] => \A g \in Fds : sock'[g].on = sock[g].on
<1>1. sock \in [Fds -> Socks]
  BY DEF Base, Typed
<1>2. \A q : /\ [sock[f] EXCEPT !.inbox = q].on = sock[f].on
             /\ [sock[f] EXCEPT !.err = q].on = sock[f].on
             /\ [sock[f] EXCEPT !.down = q].on = sock[f].on
  BY <1>1, SockFields
<1>3. ASSUME NEW y, y.on = sock[f].on, sock' = [sock EXCEPT ![f] = y]
      PROVE  \A g \in Fds : sock'[g].on = sock[g].on
  BY <1>1, <1>3
<1>4. ASSUME NEW q
      PROVE  /\ [sock EXCEPT ![f].inbox = q] = [sock EXCEPT ![f] = [sock[f] EXCEPT !.inbox = q]]
             /\ [sock EXCEPT ![f].err = q] = [sock EXCEPT ![f] = [sock[f] EXCEPT !.err = q]]
             /\ [sock EXCEPT ![f].down = q] = [sock EXCEPT ![f] = [sock[f] EXCEPT !.down = q]]
  BY <1>1
<1> QED BY <1>2, <1>3, <1>4

\* The marks of the full tables are no other marks.
LEMMA OtherMarks ==
  ASSUME NEW m, m \subseteq {"stale", "stolen", "absent", "ends", "removed", "dropped"},
         seen' = seen \cup m
  PROVE  \A s \in Sides : Full(s)' <=> Full(s)
  BY DEF Full, Sides

\* The steps that are quiet.
LEMMA QuietSteps ==
  ASSUME Base,
         \/ \E u \in Peers : Arrive(u)
         \/ NoClient \/ TakePromise \/ Push
         \/ \E f \in Fds : Frame(f)
         \/ \E i \in Slots : WritePeer(i) \/ WriteTunnel(i)
  PROVE  Quiet
<1>1. ASSUME NEW u \in Peers, Arrive(u)
      PROVE  Quiet
  <2>1. UNCHANGED <<table, inserted>>
    BY <1>1 DEF Arrive
  <2>2. CASE UNCHANGED <<sock, seen>>
    BY <2>1, <2>2 DEF Quiet, Full
  <2>3. CASE ~UNCHANGED <<sock, seen>>
    <3>1. PICK f \in Fds : \E n \in {0, 1} :
            /\ sock' = [sock EXCEPT ![f].inbox = Append(@, <<u, sent[u] + 1, n>>)]
            /\ seen' = seen \cup {m \in {"stolen"} : On(f) = Bound.on /\ u # msg[1]}
      BY <1>1, <2>3 DEF Arrive
    <3>2. PICK n \in {0, 1} :
            /\ sock' = [sock EXCEPT ![f].inbox = Append(@, <<u, sent[u] + 1, n>>)]
            /\ seen' = seen \cup {m \in {"stolen"} : On(f) = Bound.on /\ u # msg[1]}
      BY <3>1
    <3>3. \A g \in Fds : sock'[g].on = sock[g].on
      <4>1. PICK q : q = Append(sock[f].inbox, <<u, sent[u] + 1, n>>)
        OBVIOUS
      <4>2. sock' = [sock EXCEPT ![f].inbox = q]
        BY <3>2, <4>1
      <4> QED BY <4>2, SameOn
    <3>4. \A s \in Sides : Full(s)' <=> Full(s)
      BY <3>2, OtherMarks
    <3> QED BY <2>1, <3>3, <3>4, Zenon DEF Quiet
  <2> QED BY <2>2, <2>3
<1>2. CASE NoClient
  <2>1. UNCHANGED <<table, inserted, sock>> /\ seen' = seen \cup {"absent"}
    BY <1>2 DEF NoClient
  <2> QED BY <2>1, OtherMarks DEF Quiet
<1>3. CASE TakePromise
  <2>1. UNCHANGED <<table, inserted>>
    BY <1>3 DEF TakePromise
  <2>2. CASE Head(tunnels) # NoFd
    BY <2>1, <2>2, <1>3 DEF TakePromise, Quiet, Full
  <2>3. CASE Head(tunnels) = NoFd
    <3>1. PICK shut :
             /\ sock' = [f \in Fds |-> IF f \in shut /\ On(f)[1] \in {"peer", "tunnel"}
                                       THEN ShutDown(sock[f]) ELSE sock[f]]
             /\ \E keys : seen' = seen \cup {m \in {"stale"} : cur \in keys}
      BY <1>3, <2>3 DEF TakePromise
    <3>2. \A f \in Fds : ShutDown(sock[f]).on = sock[f].on
      <4>1. \A f \in Fds : sock[f] \in Socks
        BY Holds
      <4>2. \A f \in Fds : \A q : [sock[f] EXCEPT !.down = q].on = sock[f].on
        BY <4>1, SockFields
      <4> QED BY <4>2, Zenon DEF ShutDown
    <3>3. \A s \in Sides : Full(s)' <=> Full(s)
      BY <3>1, OtherMarks
    <3> QED BY <2>1, <3>1, <3>2, <3>3 DEF Quiet
  <2> QED BY <2>2, <2>3
<1>4. CASE Push
  BY <1>4 DEF Push, Quiet, Full
<1>5. ASSUME NEW f \in Fds, Frame(f)
      PROVE  Quiet
  <2>1. UNCHANGED <<table, inserted>>
    BY <1>5 DEF Frame
  <2>2. CASE UNCHANGED seen
    <3>1. CASE sock' = [sock EXCEPT ![f].down = TRUE]
      BY <2>1, <2>2, <3>1, SameOn DEF Quiet, Full
    <3>2. CASE sock' # [sock EXCEPT ![f].down = TRUE]
      <4>1. PICK q : sock' = [sock EXCEPT ![f].inbox = q]
        BY <3>2, <1>5 DEF Frame
      <4> QED BY <2>1, <2>2, <4>1, SameOn DEF Quiet, Full
    <3> QED BY <3>1, <3>2
  <2>3. CASE ~UNCHANGED seen
    <3>1. sock' = [sock EXCEPT ![f].down = TRUE] /\ seen' = seen \cup {"ends"}
      BY <2>3, <1>5 DEF Frame
    <3> QED BY <2>1, <3>1, SameOn, OtherMarks DEF Quiet
  <2> QED BY <2>2, <2>3
<1>6. ASSUME NEW i \in Slots, WritePeer(i)
      PROVE  Quiet
  <2>f. PICK f : f = table["proxy"].fd[i]
    OBVIOUS
  <2>1. /\ UNCHANGED <<table, inserted>> /\ f # NoFd
        /\ \E q : sock' = [sock EXCEPT ![f].err = q]
        /\ \E m \in {{}, {"dropped"}} : seen' = seen \cup m
    BY <1>6, <2>f, Zenon DEF WritePeer
  <2>2. f \in Fds
    BY <2>1, <2>f, Holds, Zenon DEF Sides
  <2> QED BY <2>1, <2>2, SameOn, OtherMarks, Zenon DEF Quiet
<1>7. ASSUME NEW i \in Slots, WriteTunnel(i)
      PROVE  Quiet
  BY <1>7, Zenon DEF WriteTunnel, Quiet, Full
<1> QED BY <1>1, <1>2, <1>3, <1>4, <1>5, <1>6, <1>7

\* Every step of the relay, as the tables see it.
LEMMA NextDispatches ==
  ASSUME Base, [Next]_vars
  PROVE  \A s \in Sides : Dispatches(s)
<1>b. Base'
  BY NextBase
<1>1. CASE UNCHANGED vars
  <2>1. Quiet
    BY <1>1 DEF vars, Quiet, Full
  <2> QED BY <2>1, <1>b, QuietDispatches
<1>2. CASE \/ \E u \in Peers : Arrive(u)
           \/ NoClient \/ TakePromise \/ Push
           \/ \E f \in Fds : Frame(f)
           \/ \E i \in Slots : WritePeer(i) \/ WriteTunnel(i)
  BY <1>2, <1>b, QuietSteps, QuietDispatches
<1>3. CASE Tunnel
  <2>1. PICK t \in Tunnels, f \in Fds :
           /\ IsLowestFree(f)
           /\ sock' = [sock EXCEPT ![f] = NewSock(<<"tunnel", t>>)]
           /\ seen' = seen \cup Stale(f)
    BY <1>3 DEF Tunnel
  <2>2. UNCHANGED <<table, inserted>>
    BY <1>3 DEF Tunnel
  <2>3. NewSock(<<"tunnel", t>>).on = <<"tunnel", t>>
    BY NewSocks DEF Whats
  <2>4. /\ sock[f] = Closed /\ sock'[f].on # <<"closed", 0>>
        /\ \A g \in Fds : g # f => sock'[g].on = sock[g].on
    BY <2>1, <2>3 DEF IsLowestFree, Base, Typed
  <2>5. \A s \in Sides : Full(s)' <=> Full(s)
    BY <2>1, OtherMarks DEF Stale
  <2> QED BY <2>2, <2>4, <2>5, <1>b, OpenDispatches
<1>4. CASE Receive
  <2>1. PICK f \in Fds :
           /\ IsLowestFree(f)
           /\ sock' = [sock EXCEPT ![Listen].inbox = Tail(@), ![f] = Bound]
           /\ seen' = (seen \cup Stale(f))
                \cup {m \in {"stale"} : type = "CLIENT" /\ partner["proxy"][f] # NoFd}
    BY <1>4 DEF Receive
  <2>2. UNCHANGED <<table, inserted>>
    BY <1>4 DEF Receive
  <2>3. PICK s1 : s1 = [sock EXCEPT ![Listen].inbox = Tail(@)]
    OBVIOUS
  <2>4. sock' = [s1 EXCEPT ![f] = Bound] /\ sock[f] = Closed
    BY <2>1, <2>3 DEF IsLowestFree
  <2>5. \A g \in Fds : s1[g].on = sock[g].on
    BY <2>3, Constants, SockFields, Holds DEF Base, Typed
  <2>6. s1 \in [Fds -> UNION {{s1[g]} : g \in Fds}]
    BY <2>3 DEF Base, Typed
  <2>7. /\ sock'[f].on # <<"closed", 0>>
        /\ \A g \in Fds : g # f => sock'[g].on = sock[g].on
    BY <2>4, <2>5, <2>6, NewSocks
  <2>8. \A s \in Sides : Full(s)' <=> Full(s)
    BY <2>1 DEF Stale, Full, Sides
  <2> QED BY <2>2, <2>4, <2>7, <2>8, <1>b, OpenDispatches
<1>5. CASE Dispatch
  <2>1. PICK f \in Fds :
           /\ IsLowestFree(f)
           /\ \/ /\ sock' = [sock EXCEPT ![f] = NewSock(<<"peer", On(Head(tunnels))[2]>>)]
                 /\ seen' = seen \cup Stale(f)
              \/ /\ sock' = [sock EXCEPT ![f] = Misc]
                 /\ seen' = seen \cup {"absent"}
    BY <1>5 DEF Dispatch
  <2>2. UNCHANGED <<table, inserted>>
    BY <1>5 DEF Dispatch
  <2>3. NewSock(<<"peer", On(Head(tunnels))[2]>>).on[1] = "peer" /\ Misc.on[1] = "misc"
    BY NewSocks DEF NewSock
  <2>4. /\ sock[f] = Closed /\ sock'[f].on # <<"closed", 0>>
        /\ \A g \in Fds : g # f => sock'[g].on = sock[g].on
    <3>1. sock \in [Fds -> Socks] /\ sock[f] = Closed
      BY <2>1 DEF IsLowestFree, Base, Typed
    <3>2. \E y : sock' = [sock EXCEPT ![f] = y] /\ y.on[1] # "closed"
      BY <2>1, <2>3
    <3> QED BY <3>1, <3>2
  <2>5. \A s \in Sides : Full(s)' <=> Full(s)
    BY <2>1, OtherMarks DEF Stale
  <2> QED BY <2>2, <2>4, <2>5, <1>b, OpenDispatches
<1>6. CASE Start
  <2>1. /\ InsertInto("proxy", Listen, sock[Listen]) /\ "proxy" \in Sides /\ Listen \in Fds
        /\ Kind(sock[Listen]) = "listening" /\ Listen \notin Registered(table["proxy"])
    BY <1>6, Constants DEF Start, Base, Hands, Sides
  <2>2. \A s \in Sides : Listen \notin Registered(table[s])
    BY <2>1, Holds DEF KindsOf, Sides
  <2>3. sock[Listen].on # <<"closed", 0>>
    BY <2>1 DEF Kind
  <2> QED BY <2>1, <2>2, <2>3, <1>b, InsertDispatches
<1>7. CASE ConnectUser
  <2>x. PICK x : x = [sock[cur] EXCEPT !.on = <<"peer", msg[1]>>]
    OBVIOUS
  <2>1. /\ InsertInto("proxy", cur, x) /\ "proxy" \in Sides /\ cur \in Fds
        /\ Kind(sock[cur]) = "bound"
    BY <1>7, <2>x DEF ConnectUser, Base, Hands, Sides
  <2>2. \A s \in Sides : cur \notin Registered(table[s])
    BY <2>1, Holds DEF KindsOf, Sides
  <2>3. sock[cur].on # <<"closed", 0>>
    BY <2>1 DEF Kind
  <2>4. x.on = <<"peer", msg[1]>>
    BY <2>1, <2>x, Holds, SockFields
  <2> QED BY <2>1, <2>2, <2>3, <2>4, <1>b, InsertDispatches
<1>8. CASE InsertPeer
  <2>1. /\ InsertInto("proxy", cur, sock[cur]) /\ "proxy" \in Sides /\ cur \in Fds
        /\ Kind(sock[cur]) = "peer" /\ cur \notin Registered(table["proxy"])
    BY <1>8 DEF InsertPeer, Base, Hands, Sides
  <2>2. \A s \in Sides : cur \notin Registered(table[s])
    BY <2>1, Holds DEF KindsOf, Sides
  <2>3. sock[cur].on # <<"closed", 0>>
    BY <2>1 DEF Kind
  <2> QED BY <2>1, <2>2, <2>3, <1>b, InsertDispatches
<1>9. CASE TakeTunnel
  <2>h. PICK h : h = Head(actualfds)
    OBVIOUS
  <2>1. InsertInto("net", h, sock[h]) /\ "net" \in Sides /\ actualfds # <<>>
    BY <1>9, <2>h DEF TakeTunnel, Sides
  <2>2. h \in Fds /\ 1 \in DOMAIN actualfds /\ h = actualfds[1]
    BY <2>1, <2>h, TailFields DEF Base, Typed
  <2>3. Kind(sock[h]) = "tunnel" /\ h \notin Registered(table["net"])
    BY <2>2 DEF Base, Waiting
  <2>4. \A s \in Sides : h \notin Registered(table[s])
    BY <2>3, Holds DEF KindsOf, Sides
  <2>5. sock[h].on # <<"closed", 0>>
    BY <2>3 DEF Kind
  <2> QED BY <2>1, <2>2, <2>4, <2>5, <1>b, InsertDispatches
<1>10. ASSUME NEW i \in Slots, ReadPeer(i)
       PROVE  \A s \in Sides : Dispatches(s)
  <2>f. PICK f : f = table["proxy"].fd[i]
    OBVIOUS
  <2>x. PICK x : x = sock[f]
    BY Zenon
  <2>1. /\ f # NoFd /\ UNCHANGED inserted
        /\ \/ ReadFails("proxy", i, [x EXCEPT !.err = FALSE])
           \/ x.inbox # <<>> /\ ReadFails("proxy", i, [x EXCEPT !.inbox = Tail(@)])
           \/ sock' = [sock EXCEPT ![f].inbox = Tail(@)] /\ UNCHANGED <<table, seen>>
    BY <1>10, <2>f, <2>x, Zenon DEF ReadPeer, Kept
  <2>2. /\ "proxy" \in Sides /\ f \in Registered(table["proxy"]) /\ f \in Fds /\ x \in Socks
        /\ Kind(x) \in {"listening", "peer"}
    BY <2>1, <2>f, <2>x, Holds DEF Sides, KindsOf
  <2>3. x.inbox \in Seq(Datagrams) /\ InboxesOf(x.on) = Seq(Datagrams)
    BY <2>2, SockFields DEF InboxesOf, Kind
  <2>4. CASE ReadFails("proxy", i, [x EXCEPT !.err = FALSE])
    <3>1. [x EXCEPT !.err = FALSE] \in Socks /\ [x EXCEPT !.err = FALSE].on = x.on
      BY <2>2, SockChanged
    <3> QED BY <3>1, <2>1, <2>2, <2>4, <2>f, <2>x, <1>b, FailDispatches
  <2>5. CASE x.inbox # <<>> /\ ReadFails("proxy", i, [x EXCEPT !.inbox = Tail(@)])
    <3>1. Tail(x.inbox) \in InboxesOf(x.on)
      BY <2>3, <2>5, TailFields
    <3>2. [x EXCEPT !.inbox = Tail(@)] \in Socks /\ [x EXCEPT !.inbox = Tail(@)].on = x.on
      BY <2>2, <3>1, SockChanged
    <3> QED BY <3>2, <2>1, <2>2, <2>5, <2>f, <2>x, <1>b, FailDispatches
  <2>6. CASE sock' = [sock EXCEPT ![f].inbox = Tail(@)] /\ UNCHANGED <<table, seen>>
    <3>1. PICK q : q = Tail(sock[f].inbox)
      OBVIOUS
    <3>2. sock' = [sock EXCEPT ![f].inbox = q]
      BY <2>6, <3>1
    <3>3. Quiet
      BY <3>2, <2>1, <2>2, <2>6, SameOn DEF Quiet, Full
    <3> QED BY <3>3, <1>b, QuietDispatches
  <2> QED BY <2>1, <2>4, <2>5, <2>6
<1>11. ASSUME NEW i \in Slots, ReadTunnel(i)
       PROVE  \A s \in Sides : Dispatches(s)
  <2>f. PICK f : f = table["net"].fd[i]
    BY Zenon
  <2>x. PICK x : x = sock[f]
    OBVIOUS
  <2>1. /\ f # NoFd /\ UNCHANGED inserted
        /\ \/ ReadFails("net", i, x)
           \/ \E n \in 1 .. Len(x.inbox) :
                 /\ sock' = [sock EXCEPT ![f].inbox = SubSeq(@, n + 1, Len(@))]
                 /\ UNCHANGED <<table, seen>>
    BY <1>11, <2>f, <2>x, Zenon DEF ReadTunnel, Kept
  <2>2. /\ "net" \in Sides /\ f \in Registered(table["net"]) /\ f \in Fds /\ x \in Socks
    BY <2>1, <2>f, <2>x, Holds, Zenon DEF Sides
  <2>3. CASE ReadFails("net", i, x)
    BY <2>1, <2>2, <2>3, <2>f, <2>x, <1>b, FailDispatches
  <2>4. ASSUME NEW n \in 1 .. Len(x.inbox),
               sock' = [sock EXCEPT ![f].inbox = SubSeq(@, n + 1, Len(@))],
               UNCHANGED <<table, seen>>
        PROVE  Quiet
    <3>1. PICK q : q = SubSeq(sock[f].inbox, n + 1, Len(sock[f].inbox))
      OBVIOUS
    <3>2. sock' = [sock EXCEPT ![f].inbox = q]
      BY <2>4, <3>1
    <3> QED BY <3>2, <2>1, <2>2, <2>4, SameOn DEF Quiet, Full
  <2> QED BY <2>1, <2>3, <2>4, <1>b, QuietDispatches
<1> QED BY <1>1, <1>2, <1>3, <1>4, <1>5, <1>6, <1>7, <1>8, <1>9, <1>10, <1>11
        DEF Next, ProxyThread, NetThread

\* The operators of PollTable mean the same inside the two instances.
LEMMA SameTables ==
  /\ Users!Slots = Slots /\ Net!Slots = Slots
  /\ Users!NoFd = NoFd /\ Net!NoFd = NoFd
  BY DEF Users!Slots, Net!Slots, Slots, Users!NoFd, Net!NoFd, NoFd

\* Both dispatchers start with an empty table.
LEMMA InitTables == Init => Users!Init /\ Net!Init
<1> SUFFICES ASSUME Init PROVE Users!Init /\ Net!Init
  OBVIOUS
<1>1. /\ table["proxy"] = NewTable(NoFd) /\ table["net"] = NewTable(NoFd)
      /\ inserted["proxy"] = {} /\ inserted["net"] = {} /\ seen = {}
  BY DEF Init, Sides
<1>2. Users!NewTable(NoFd) = NewTable(NoFd) /\ Net!NewTable(NoFd) = NewTable(NoFd)
  BY SameTables DEF Users!NewTable, Net!NewTable, NewTable
<1>3. OpenFds \in SUBSET Fds
  BY DEF OpenFds
<1>4. Users!Init
  BY <1>1, <1>2, <1>3, SameTables DEF Users!Init
<1>5. Net!Init
  BY <1>1, <1>2, <1>3, SameTables DEF Net!Init
<1> QED BY <1>4, <1>5

\* What Dispatches lets happen is a step of PollDispatcher, or a stutter.
LEMMA UsersDispatch ==
  ASSUME Dispatches("proxy")
  PROVE  Users!Next \/ UNCHANGED Users!vars
<1>1. /\ \A i \in Slots : Users!IsFirstFree(table["proxy"], i)
                             <=> IsFirstFree(table["proxy"], i)
      /\ \A i \in Slots, f \in Fds : Users!InsertAt(table["proxy"], i, f)
                                        = InsertAt(table["proxy"], i, f)
      /\ Users!Registered(table["proxy"]) = Registered(table["proxy"])
      /\ Users!IsFull(table["proxy"]) <=> IsFull(table["proxy"])
      /\ \A f \in Fds : /\ Users!Vacate(table["proxy"], f) = Vacate(table["proxy"], f)
                        /\ Users!Victim(table["proxy"], f) = Victim(table["proxy"], f)
  BY SameTables
  DEF Users!IsFirstFree, IsFirstFree, Users!IsFree, IsFree,
      Users!InsertAt, InsertAt, Users!Registered, Registered,
      Users!IsFull, IsFull, Users!Vacate, Vacate, Users!Victim, Victim
<1>2. /\ Users!Removable = Fds
      /\ ("proxy" \in seen <=> Full("proxy")) /\ ("proxy" \in seen' <=> Full("proxy")')
  BY SameTables DEF Users!Removable, Full
<1>3. (("proxy" \in seen)' <=> ("proxy" \in seen))
         => ("proxy" \in seen)' = ("proxy" \in seen)
  OBVIOUS
<1>4. CASE UNCHANGED <<table["proxy"], OpenFds, inserted["proxy"]>>
           /\ (Full("proxy")' <=> Full("proxy"))
  BY <1>2, <1>4 DEF Users!vars, Full
<1>5. ASSUME NEW f \in Fds,
             f \notin OpenFds, OpenFds' = OpenFds \cup {f},
             UNCHANGED <<table["proxy"], inserted["proxy"]>>,
             Full("proxy")' <=> Full("proxy")
      PROVE  Users!Next
  <2>1. Users!Open(f)
    BY <1>2, <1>5 DEF Users!Open, Full
  <2> QED BY <2>1 DEF Users!Next
<1>6. ASSUME NEW f \in Fds, f \in OpenFds \ Registered(table["proxy"]),
             NEW i \in Slots, IsFirstFree(table["proxy"], i),
             table'["proxy"] = InsertAt(table["proxy"], i, f),
             inserted'["proxy"] = inserted["proxy"] \cup {f},
             UNCHANGED OpenFds, Full("proxy")' <=> Full("proxy")
      PROVE  Users!Next
  <2>1. Users!Insert(f)
    BY <1>1, <1>2, <1>6, SameTables DEF Users!Insert, Full
  <2> QED BY <2>1 DEF Users!Next
<1>7. ASSUME NEW f \in Fds, f \in OpenFds \ Registered(table["proxy"]),
             IsFull(table["proxy"]), OpenFds' = OpenFds \ {f}, Full("proxy")',
             inserted'["proxy"] = inserted["proxy"] \cup {f},
             UNCHANGED table["proxy"]
      PROVE  Users!Next
  <2>1. Users!Refuse(f)
    BY <1>1, <1>2, <1>7 DEF Users!Refuse, Full
  <2> QED BY <2>1 DEF Users!Next
<1>8. ASSUME NEW f \in Fds,
             table'["proxy"] = Vacate(table["proxy"], f),
             OpenFds' = OpenFds \ {Victim(table["proxy"], f)},
             UNCHANGED inserted["proxy"], Full("proxy")' <=> Full("proxy")
      PROVE  Users!Next
  <2>1. Users!Remove(f)
    BY <1>1, <1>2, <1>8 DEF Users!Remove, Full
  <2> QED BY <2>1 DEF Users!Next
<1>9. ASSUME NEW f \in Fds, f \in OpenFds \ Registered(table["proxy"]),
             OpenFds' = OpenFds \ {f},
             UNCHANGED <<table["proxy"], inserted["proxy"]>>,
             Full("proxy")' <=> Full("proxy")
      PROVE  Users!Next
  <2>1. Users!CloseOther(f)
    BY <1>1, <1>2, <1>9 DEF Users!CloseOther, Full
  <2> QED BY <2>1 DEF Users!Next
<1> QED BY <1>4, <1>5, <1>6, <1>7, <1>8, <1>9 DEF Dispatches

\* What netThread does to its dispatcher is a step of PollDispatcher.
LEMMA NetDispatches ==
  ASSUME Dispatches("net")
  PROVE  Net!Next \/ UNCHANGED Net!vars
<1>1. /\ \A i \in Slots : Net!IsFirstFree(table["net"], i)
                             <=> IsFirstFree(table["net"], i)
      /\ \A i \in Slots, f \in Fds : Net!InsertAt(table["net"], i, f)
                                        = InsertAt(table["net"], i, f)
      /\ Net!Registered(table["net"]) = Registered(table["net"])
      /\ Net!IsFull(table["net"]) <=> IsFull(table["net"])
      /\ \A f \in Fds : /\ Net!Vacate(table["net"], f) = Vacate(table["net"], f)
                        /\ Net!Victim(table["net"], f) = Victim(table["net"], f)
  BY SameTables
  DEF Net!IsFirstFree, IsFirstFree, Net!IsFree, IsFree,
      Net!InsertAt, InsertAt, Net!Registered, Registered,
      Net!IsFull, IsFull, Net!Vacate, Vacate, Net!Victim, Victim
<1>2. /\ Net!Removable = Fds
      /\ ("net" \in seen <=> Full("net")) /\ ("net" \in seen' <=> Full("net")')
  BY SameTables DEF Net!Removable, Full
<1>3. (("net" \in seen)' <=> ("net" \in seen))
         => ("net" \in seen)' = ("net" \in seen)
  OBVIOUS
<1>4. CASE UNCHANGED <<table["net"], OpenFds, inserted["net"]>>
           /\ (Full("net")' <=> Full("net"))
  BY <1>2, <1>4 DEF Net!vars, Full
<1>5. ASSUME NEW f \in Fds,
             f \notin OpenFds, OpenFds' = OpenFds \cup {f},
             UNCHANGED <<table["net"], inserted["net"]>>,
             Full("net")' <=> Full("net")
      PROVE  Net!Next
  <2>1. Net!Open(f)
    BY <1>2, <1>5 DEF Net!Open, Full
  <2> QED BY <2>1 DEF Net!Next
<1>6. ASSUME NEW f \in Fds, f \in OpenFds \ Registered(table["net"]),
             NEW i \in Slots, IsFirstFree(table["net"], i),
             table'["net"] = InsertAt(table["net"], i, f),
             inserted'["net"] = inserted["net"] \cup {f},
             UNCHANGED OpenFds, Full("net")' <=> Full("net")
      PROVE  Net!Next
  <2>1. Net!Insert(f)
    BY <1>1, <1>2, <1>6, SameTables DEF Net!Insert, Full
  <2> QED BY <2>1 DEF Net!Next
<1>7. ASSUME NEW f \in Fds, f \in OpenFds \ Registered(table["net"]),
             IsFull(table["net"]), OpenFds' = OpenFds \ {f}, Full("net")',
             inserted'["net"] = inserted["net"] \cup {f},
             UNCHANGED table["net"]
      PROVE  Net!Next
  <2>1. Net!Refuse(f)
    BY <1>1, <1>2, <1>7 DEF Net!Refuse, Full
  <2> QED BY <2>1 DEF Net!Next
<1>8. ASSUME NEW f \in Fds,
             table'["net"] = Vacate(table["net"], f),
             OpenFds' = OpenFds \ {Victim(table["net"], f)},
             UNCHANGED inserted["net"], Full("net")' <=> Full("net")
      PROVE  Net!Next
  <2>1. Net!Remove(f)
    BY <1>1, <1>2, <1>8 DEF Net!Remove, Full
  <2> QED BY <2>1 DEF Net!Next
<1>9. ASSUME NEW f \in Fds, f \in OpenFds \ Registered(table["net"]),
             OpenFds' = OpenFds \ {f},
             UNCHANGED <<table["net"], inserted["net"]>>,
             Full("net")' <=> Full("net")
      PROVE  Net!Next
  <2>1. Net!CloseOther(f)
    BY <1>1, <1>2, <1>9 DEF Net!CloseOther, Full
  <2> QED BY <2>1 DEF Net!Next
<1> QED BY <1>4, <1>5, <1>6, <1>7, <1>8, <1>9 DEF Dispatches

\* Both tables of the relay behave as PollDispatcher says, whatever the threads
\* do: onRead's remove closes at most what its own table holds, and everything
\* else that is opened or closed is in no table.
THEOREM Refinement == Spec => ImplementsTables
<1>1. Base /\ [Next]_vars => [Users!Next]_(Users!vars)
  BY NextDispatches, UsersDispatch DEF Sides
<1>2. Base /\ [Next]_vars => [Net!Next]_(Net!vars)
  BY NextDispatches, NetDispatches DEF Sides
<1> QED BY <1>1, <1>2, InitTables, BaseInvariance, PTL
        DEF Spec, ImplementsTables, Users!Spec, Net!Spec

-----------------------------------------------------------------------------
(* No datagram reaches a stranger.                                         *)

\* Adding a unit of the same origin, and joining two sequences.
LEMMA FromMore ==
  /\ \A u : From(<<>>, u)
  /\ \A S : \A q \in Seq(S) : \A u :
        /\ \A e \in S : From(q, u) /\ e[1] = u => From(Append(q, e), u)
        /\ q # <<>> /\ From(q, u) => Head(q)[1] = u /\ From(Tail(q), u)
<1>1. \A u : From(<<>>, u)
  BY DEF From
<1>2. ASSUME NEW S, NEW q \in Seq(S), NEW u, NEW e \in S, From(q, u), e[1] = u
      PROVE  From(Append(q, e), u)
  BY <1>2, AppendFields DEF From
<1>3. ASSUME NEW S, NEW q \in Seq(S), NEW u, q # <<>>, From(q, u)
      PROVE  Head(q)[1] = u /\ From(Tail(q), u)
  BY <1>3, TailFields DEF From
<1> QED BY <1>1, <1>2, <1>3

\* What is linked is a peer's socket, what is fed a tunnel.
LEMMA LinkedFed ==
  ASSUME Base
  PROVE  /\ Linked \subseteq Fds /\ \A f \in Linked : Kind(sock[f]) = "peer" /\ On(f)[2] \in Peers
         /\ Fed \subseteq Fds /\ \A g \in Fed : Kind(sock[g]) = "tunnel"
         /\ Kind(sock[0]) = "misc" /\ 0 \in Fds
         /\ \A i \in DOMAIN tunnels : tunnels[i] # NoFd =>
               /\ tunnels[i] \in Fds /\ Kind(sock[tunnels[i]]) = "tunnel"
               /\ tunnels[i] \notin Fed
         /\ partner \in [Sides -> [Fds -> Fds \cup {NoFd}]]
         /\ \A f \in Fds : Kind(sock[f]) = "tunnel" => On(f)[2] \in Tunnels /\ On(f) = <<"tunnel", On(f)[2]>>
<1>1. Linked \subseteq Fds /\ \A f \in Linked : Kind(sock[f]) = "peer"
  BY DEF Linked
<1>2. \A f \in Fds : /\ Kind(sock[f]) = "peer" => On(f)[2] \in Peers
                     /\ Kind(sock[f]) = "tunnel" => On(f)[2] \in Tunnels /\ On(f) = <<"tunnel", On(f)[2]>>
  BY Holds, SockFields, WhatFields DEF On, Kind
<1>3. Fed \subseteq Fds /\ \A g \in Fed : Kind(sock[g]) = "tunnel"
  BY Holds DEF Fed, Base, Waiting, Kinds, Sides
<1>4. \A i \in DOMAIN tunnels : tunnels[i] # NoFd =>
               /\ tunnels[i] \in Fds /\ Kind(sock[tunnels[i]]) = "tunnel"
               /\ tunnels[i] \notin Fed
  BY Holds DEF Fed, Base, Waiting
<1> QED BY <1>1, <1>2, <1>3, <1>4, Constants DEF Base, Kinds, Typed

\* The routes of a tunnel stay its peer's when nothing else leads to it.
LEMMA IsForMore ==
  ASSUME NEW g \in Fds, NEW u \in Peers, IsFor(g, u),
         type' = type, sock'[g].on = sock[g].on,
         From(out'[On(g)[2]], u), From(buffer'["net"][g], u),
         \A f \in Linked' : partner'["proxy"][f] = g =>
            f \in Linked /\ partner["proxy"][f] = g /\ sock'[f].on = sock[f].on,
         g \in Fed' => /\ g \in Fed /\ partner'["net"][g] = partner["net"][g]
                       /\ partner["net"][g] \in Fds /\ Kind(sock'[partner["net"][g]]) = "peer" =>
                             sock'[partner["net"][g]].on = sock[partner["net"][g]].on,
         pc' = "push" /\ partner'["proxy"][cur'] = g =>
            pc = "push" /\ partner["proxy"][cur] = g /\ msg' = msg
  PROVE  IsFor(g, u)'
<1>1. On(g)' = On(g)
  BY DEF On
<1>2. PICK t : t = On(g)[2]
  OBVIOUS
<1>3. From(out'[t], u) /\ From(buffer'["net"][g], u) /\ (type' = "CLIENT" => u = t)
  BY <1>2 DEF IsFor
<1>4. \A f \in Linked' : partner'["proxy"][f] = g => sock'[f].on[2] = u
  BY DEF IsFor, On
<1>5. g \in Fed' /\ partner'["net"][g] \in Fds /\ Kind(sock'[partner'["net"][g]]) = "peer" =>
          sock'[partner'["net"][g]].on[2] = u
  BY DEF IsFor, On, Kind
<1>6. pc' = "push" /\ partner'["proxy"][cur'] = g => msg'[1] = u
  BY DEF IsFor
<1> QED BY <1>1, <1>2, <1>3, <1>4, <1>5, <1>6 DEF IsFor, From, On

\* The routes of a tunnel stay when nothing new leads to it.
LEMMA IsForKept ==
  ASSUME NEW g \in Fds, NEW u \in Peers, IsFor(g, u),
         type' = type, sock'[g].on = sock[g].on, out'[On(g)[2]] = out[On(g)[2]],
         buffer'["net"][g] = buffer["net"][g],
         \A f \in Linked' : partner'["proxy"][f] = g =>
            f \in Linked /\ partner["proxy"][f] = g /\ sock'[f].on = sock[f].on,
         g \in Fed' => /\ g \in Fed /\ partner'["net"][g] = partner["net"][g]
                       /\ partner["net"][g] \in Fds /\ Kind(sock'[partner["net"][g]]) = "peer" =>
                             sock'[partner["net"][g]].on = sock[partner["net"][g]].on,
         pc' = "push" /\ partner'["proxy"][cur'] = g =>
            pc = "push" /\ partner["proxy"][cur] = g /\ msg' = msg
  PROVE  IsFor(g, u)'
<1>1. From(out'[On(g)[2]], u) /\ From(buffer'["net"][g], u)
  BY DEF IsFor
<1> QED BY <1>1, IsForMore

\* A reply stays one to its peer.
LEMMA IsReplyKept ==
  ASSUME type' = type, out' = out
  PROVE  \A e, u : IsReplyTo(e, u)' <=> IsReplyTo(e, u)
  BY DEF IsReplyTo, Owner

\* A step that adds no route, no data and no socket that the data could reach.
LEMMA Shrinks ==
  ASSUME Base, Base', Apart,
         UNCHANGED <<type, out, got, partner, buffer>>,
         (pc' = pc /\ cur' = cur /\ msg' = msg) \/ pc' = "loop",
         \A i \in DOMAIN tunnels' : tunnels'[i] = NoFd \/ \E j \in DOMAIN tunnels : tunnels'[i] = tunnels[j],
         Linked' \subseteq Linked, Fed' \subseteq Fed,
         \A f \in Fds : \/ sock'[f].on = sock[f].on
                        \/ Kind(sock'[f]) \notin {"peer", "tunnel", "bound"},
         Inboxes'
  PROVE  Apart'
<1>1. \A f \in Fds : Kind(sock'[f]) \in {"peer", "tunnel", "bound"} =>
          sock'[f].on = sock[f].on /\ Kind(sock'[f]) = Kind(sock[f])
  BY DEF Kind
<1>2. Setup'
  <2>1. \A i \in DOMAIN tunnels' : LET g == tunnels'[i] IN g # NoFd =>
          /\ out'[sock'[g].on[2]] = <<>> /\ buffer'["net"][g] = <<>>
          /\ \A f \in Linked' : partner'["proxy"][f] # g
          /\ pc' = "push" => partner'["proxy"][cur'] # g
    <3>1. ASSUME NEW i \in DOMAIN tunnels', tunnels'[i] # NoFd
          PROVE  LET g == tunnels'[i] IN
          /\ out'[sock'[g].on[2]] = <<>> /\ buffer'["net"][g] = <<>>
          /\ \A f \in Linked' : partner'["proxy"][f] # g
          /\ pc' = "push" => partner'["proxy"][cur'] # g
      <4>1. PICK j \in DOMAIN tunnels : tunnels'[i] = tunnels[j]
        BY <3>1
      <4>2. tunnels'[i] \in Fds /\ Kind(sock'[tunnels'[i]]) = "tunnel"
        BY <3>1, Constants DEF Base, Waiting, Typed
      <4>3. sock'[tunnels'[i]].on = sock[tunnels'[i]].on
        BY <1>1, <4>2
      <4>4. LET g == tunnels[j] IN
              /\ out[On(g)[2]] = <<>> /\ buffer["net"][g] = <<>>
              /\ \A f \in Linked : partner["proxy"][f] # g
              /\ pc = "push" => partner["proxy"][cur] # g
        BY <3>1, <4>1 DEF Apart, Setup
      <4> QED BY <4>1, <4>3, <4>4 DEF On
    <3> QED BY <3>1
  <2>2. /\ pc' \in {"bound", "await"} => \A g \in Fed' : partner'["net"][g] # cur'
        /\ pc' = "bound" => buffer'["proxy"][cur'] = <<>>
        /\ pc' = "bound" /\ type' = "CLIENT" => partner'["proxy"][cur'] = NoFd
        /\ pc' = "push" /\ type' = "CLIENT" => partner'["proxy"][cur'] = NoFd
    BY DEF Apart, Setup
  <2>3. pc' \in {"await", "push"} /\ Kind(sock'[cur']) = "peer" => sock'[cur'].on[2] = msg'[1]
    <3>1. pc' \in {"await", "push"} => cur' \in Fds
      BY DEF Base, Hands
    <3> QED BY <1>1, <3>1 DEF Apart, Setup, On
  <2> QED BY <2>1, <2>2, <2>3 DEF Setup, On
<1>3. Routed'
  <2>1. ASSUME NEW g \in Fds, Kind(sock'[g]) = "tunnel"
        PROVE  \E u \in Peers : IsFor(g, u)'
    <3>1. sock'[g].on = sock[g].on /\ Kind(sock[g]) = "tunnel"
      BY <1>1, <2>1
    <3>2. PICK u \in Peers : IsFor(g, u)
      BY <3>1 DEF Apart, Routed
    <3>3. \A f \in Linked' : f \in Fds /\ sock'[f].on = sock[f].on
      BY <1>1, LinkedFed DEF Linked
    <3>4. partner["net"][g] \in Fds /\ Kind(sock'[partner["net"][g]]) = "peer" =>
             sock'[partner["net"][g]].on = sock[partner["net"][g]].on
      BY <1>1
    <3> QED BY <3>1, <3>2, <3>3, <3>4, IsForKept
  <2>2. \A t \in Tunnels : \A i \in DOMAIN out'[t] : out'[t][i][1] = Owner(t)'
    BY DEF Apart, Routed, Owner
  <2> QED BY <2>1, <2>2 DEF Routed
<1>4. Replies'
  BY <1>1 DEF Apart, Replies, IsReplyTo, Owner, On
<1> QED BY <1>2, <1>3, <1>4 DEF Apart

\* A step that leaves the sockets' inboxes alone, or takes from them.
LEMMA InboxesShrink ==
  ASSUME Base, Base', Inboxes,
         type' = type, out' = out,
         pc' = "bound" => pc = "bound" /\ cur' = cur /\ msg' = msg,
         \A f \in Fds : Kind(sock'[f]) \in {"peer", "tunnel", "bound"} =>
            /\ sock'[f].on = sock[f].on
            /\ \A i \in DOMAIN sock'[f].inbox : \E j \in DOMAIN sock[f].inbox : sock'[f].inbox[i] = sock[f].inbox[j]
  PROVE  Inboxes'
<1>1. \A f \in Fds : Kind(sock'[f]) \in {"peer", "tunnel", "bound"} => Kind(sock'[f]) = Kind(sock[f])
  BY DEF Kind
<1>2. \A f \in Fds : Kind(sock'[f]) = "peer" => From(sock'[f].inbox, sock'[f].on[2])
  BY <1>1 DEF Inboxes, From, On
<1>3. pc' = "bound" => From(sock'[cur'].inbox, msg'[1])
  <2>1. pc' = "bound" => cur' \in Fds /\ Kind(sock'[cur']) = "bound"
    BY DEF Base, Hands
  <2> QED BY <1>1, <2>1 DEF Inboxes, From
<1>4. \A g \in Fds : Kind(sock'[g]) = "tunnel" =>
          /\ From(sock'[g].inbox, sock'[g].on[2])
          /\ type' = "SERVER" /\ sock'[g].inbox # <<>> => out'[sock'[g].on[2]] # <<>>
  <2>1. ASSUME NEW g \in Fds, Kind(sock'[g]) = "tunnel"
        PROVE  /\ From(sock'[g].inbox, sock'[g].on[2])
               /\ sock'[g].inbox # <<>> => sock[g].inbox # <<>>
    <3>1. From(sock'[g].inbox, sock'[g].on[2])
      BY <1>1, <2>1 DEF Inboxes, From, On
    <3>2. sock'[g].inbox # <<>> => 1 \in DOMAIN sock'[g].inbox
      <4>1. sock'[g].inbox \in Seq(Units)
        BY UnitSeqs, SockFields DEF Base, Typed
      <4> QED BY <4>1
    <3>3. sock[g].inbox = <<>> => DOMAIN sock[g].inbox = {}
      OBVIOUS
    <3> QED BY <2>1, <3>1, <3>2, <3>3
  <2> QED BY <2>1, <1>1 DEF Inboxes, On
<1> QED BY <1>2, <1>3, <1>4 DEF Inboxes, On

\* A step of which the routes see nothing but a longer inbox.
LEMMA InboxGrows ==
  ASSUME Base, Base', Apart,
         UNCHANGED <<type, out, got, partner, buffer, table, pc, cur, msg, tunnels, actualfds>>,
         \A f \in Fds : sock'[f].on = sock[f].on,
         Inboxes'
  PROVE  Apart'
<1>1. Linked' = Linked /\ Fed' = Fed
  <2>1. \A f \in Fds : Kind(sock'[f]) = Kind(sock[f])
    BY DEF Kind
  <2> QED BY <2>1 DEF Linked, Fed
<1> QED BY <1>1, Shrinks

\* A datagram comes to a socket of its sender, or nobody is there.
LEMMA ArriveApart ==
  ASSUME Base, Base', Apart, Clean', NEW u \in Peers, Arrive(u)
  PROVE  Apart'
<1>1. UNCHANGED <<type, out, got, partner, buffer, table, pc, cur, msg, tunnels, actualfds>>
  BY DEF Arrive, setup, maps
<1>2. Quiet
  BY QuietSteps
<1>3. CASE UNCHANGED sock
  <2>1. Inboxes'
    BY <1>1, <1>3 DEF Apart, Inboxes, On
  <2> QED BY <1>1, <1>2, <2>1, InboxGrows DEF Quiet
<1>4. CASE ~UNCHANGED sock
  <2>1. PICK f \in Fds, n \in {0, 1} :
            /\ On(f) \in {<<"peer", u>>, Listening.on, Bound.on}
            /\ sock' = [sock EXCEPT ![f].inbox = Append(@, <<u, sent[u] + 1, n>>)]
            /\ seen' = seen \cup {m \in {"stolen"} : On(f) = Bound.on /\ u # msg[1]}
    BY <1>4 DEF Arrive
  <2>2. On(f) = Bound.on => u = msg[1]
    BY <2>1 DEF Clean
  <2>e. PICK e : e = <<u, sent[u] + 1, n>>
    OBVIOUS
  <2>3. e \in Datagrams /\ e[1] = u
    BY <2>e DEF Datagrams, Base, Typed
  <2>4. Kind(sock[f]) # "closed" /\ Kind(sock[f]) # "tunnel"
    BY <2>1, NewSocks DEF On, Kind
  <2>5. /\ sock'[f].inbox = Append(sock[f].inbox, e)
        /\ \A g \in Fds : g # f => sock'[g] = sock[g]
        /\ \A g \in Fds : sock'[g].on = sock[g].on
    BY <2>1, <2>e, <2>3, <2>4, OneMore
  <2>6. sock[f].inbox \in Seq(Datagrams)
    BY <2>4, Holds, SockFields DEF InboxesOf, Kind
  <2>7. \A i \in DOMAIN sock'[f].inbox : sock'[f].inbox[i] = IF i \in DOMAIN sock[f].inbox THEN sock[f].inbox[i] ELSE e
    BY <2>3, <2>5, <2>6, AppendFields
  <2>8. \A w : From(sock[f].inbox, w) /\ w = u => From(sock'[f].inbox, w)
    BY <2>3, <2>7 DEF From
  <2>9. Inboxes'
    <3>1. \A g \in Fds : Kind(sock'[g]) = "peer" => From(sock'[g].inbox, sock'[g].on[2])
      <4>1. \A g \in Fds : Kind(sock'[g]) = "peer" => From(sock[g].inbox, sock[g].on[2])
        BY <2>5 DEF Apart, Inboxes, Kind, On
      <4>2. Kind(sock[f]) = "peer" => sock[f].on[2] = u
        BY <2>1, NewSocks DEF On, Kind
      <4> QED BY <4>1, <4>2, <2>5, <2>8 DEF Kind
    <3>2. pc = "bound" => From(sock'[cur].inbox, msg[1])
      <4>1. pc = "bound" => cur \in Fds /\ Kind(sock[cur]) = "bound" /\ From(sock[cur].inbox, msg[1])
        BY DEF Base, Hands, Apart, Inboxes
      <4>2. Kind(sock[f]) = "bound" => u = msg[1]
        BY <2>1, <2>2, NewSocks DEF On, Kind
      <4> QED BY <4>1, <4>2, <2>5, <2>8
    <3>3. \A g \in Fds : Kind(sock'[g]) = "tunnel" => sock'[g] = sock[g]
      BY <2>4, <2>5 DEF Kind
    <3> QED BY <3>1, <3>2, <3>3, <1>1 DEF Apart, Inboxes, On
  <2> QED BY <1>1, <2>5, <2>9, InboxGrows
<1> QED BY <1>3, <1>4

\* A frame of the tunnel comes to the tunnel.
LEMMA FrameApart ==
  ASSUME Base, Base', Apart, NEW f \in Fds, Frame(f)
  PROVE  Apart'
<1>1. UNCHANGED <<type, out, got, partner, buffer, table, pc, cur, msg, tunnels, actualfds>>
  BY DEF Frame, setup, maps
<1>2. Quiet
  BY QuietSteps
<1>t. PICK t : t = On(f)[2]
  OBVIOUS
<1>k. Kind(sock[f]) = "tunnel" /\ t \in Tunnels /\ sock \in [Fds -> Socks]
  BY <1>t, LinkedFed DEF Frame, Kind, On, Base, Typed
<1>3. CASE sock' = [sock EXCEPT ![f].down = TRUE]
  <2>1. \A g \in Fds : sock'[g].inbox = sock[g].inbox
    <3>1. [sock[f] EXCEPT !.down = TRUE].inbox = sock[f].inbox
      BY <1>k, SockFields
    <3> QED BY <1>3, <1>k, <3>1
  <2>2. \A g \in Fds : Kind(sock'[g]) = Kind(sock[g]) /\ sock'[g].on = sock[g].on
    BY <1>2 DEF Quiet, Kind
  <2>3. Inboxes'
    BY <1>1, <2>1, <2>2 DEF Apart, Inboxes, On, Base, Hands
  <2> QED BY <1>1, <2>2, <2>3, InboxGrows
<1>4. CASE /\ type = "SERVER" => out[t] # <<>>
           /\ asked[t] < MaxReply
           /\ sock' = [sock EXCEPT ![f].inbox = Append(@, <<t, asked[t] + 1>>)]
  <2>e. PICK e : e = <<t, asked[t] + 1>>
    OBVIOUS
  <2>1. asked[t] \in -1 .. MaxReply /\ asked[t] # -1
    BY <1>k, <1>t, LinkedFed DEF Base, Typed, OneEach
  <2>2. e \in Frames /\ e[1] = t
    BY <2>e, <2>1, <1>k, Constants DEF Frames
  <2>3. /\ sock'[f].inbox = Append(sock[f].inbox, e)
        /\ \A g \in Fds : g # f => sock'[g] = sock[g]
        /\ \A g \in Fds : sock'[g].on = sock[g].on
    BY <1>4, <1>k, <2>e, <2>2, OneMore
  <2>4. sock[f].inbox \in Seq(Frames)
    BY <1>k, SockFields DEF InboxesOf, Kind
  <2>5. From(sock[f].inbox, t) => From(sock'[f].inbox, t)
    BY <2>2, <2>3, <2>4, AppendFields DEF From
  <2>6. \A g \in Fds : Kind(sock'[g]) = Kind(sock[g])
    BY <2>3 DEF Kind
  <2>7. Inboxes'
    <3>1. \A g \in Fds : Kind(sock'[g]) = "peer" => sock'[g] = sock[g]
      BY <1>k, <2>3, <2>6
    <3>2. pc = "bound" => sock'[cur] = sock[cur]
      BY <1>k, <2>3 DEF Base, Hands
    <3>3. From(sock'[f].inbox, t) /\ (type = "SERVER" => out[t] # <<>>)
      BY <1>4, <1>k, <1>t, <2>5 DEF Apart, Inboxes
    <3>4. sock'[f].on[2] = t
      BY <2>3, <1>t DEF On
    <3> QED BY <3>1, <3>2, <3>3, <3>4, <1>1, <2>3, <2>6 DEF Apart, Inboxes, On
  <2> QED BY <1>1, <2>3, <2>7, InboxGrows
<1> QED BY <1>3, <1>4, <1>t DEF Frame

\* insert leaves the socket open, or it is closed: no route is new.
LEMMA InsertApart ==
  ASSUME Base, Base', Apart, Start \/ InsertPeer
  PROVE  Apart'
<1>1. PICK f \in Fds : /\ InsertInto("proxy", f, sock[f])
                       /\ f \notin Registered(table["proxy"]) /\ pc \in {"start", "insert"}
                       /\ IF pc = "start" THEN Kind(sock[f]) = "listening" ELSE f = cur
  BY Constants DEF Start, InsertPeer, Base, Hands
<1>2. /\ UNCHANGED <<type, out, got, partner, buffer, tunnels, actualfds>> /\ pc' = "loop"
  BY DEF Start, InsertPeer, world, maps
<1>3. /\ sock[f] \in Socks /\ "proxy" \in Sides /\ "net" \in Sides
  BY Holds DEF Sides
<1>4. /\ \A g \in Fds : g # f => sock'[g] = sock[g]
      /\ sock'[f] \in {sock[f], Closed}
      /\ Registered(table'["proxy"]) \subseteq Registered(table["proxy"]) \cup {f}
      /\ table'["net"] = table["net"]
  BY <1>1, <1>3, Inserting
<1>5. \A g \in Fds : sock'[g] = sock[g] \/ Kind(sock'[g]) = "closed"
  BY <1>4, NewSocks
<1>6. Linked' \subseteq Linked /\ Fed' \subseteq Fed
  <2>1. Fed' \subseteq Fed
    BY <1>2, <1>4 DEF Fed
  <2>2. \A g \in Fds : g \in Linked' => g \in Linked
    <3>1. ASSUME NEW g \in Fds, g \in Linked'
          PROVE  g \in Linked
      <4>1. Kind(sock'[g]) = "peer" /\ g \in Registered(table'["proxy"])
        BY <3>1, <1>2 DEF Linked
      <4>2. sock'[g] = sock[g]
        BY <4>1, <1>5
      <4>3. g \in Registered(table["proxy"]) \/ g = f
        BY <4>1, <1>4
      <4> QED BY <4>1, <4>2, <4>3, <1>1 DEF Linked
    <3> QED BY <3>1
  <2> QED BY <2>1, <2>2 DEF Linked
<1>7. Inboxes'
  <2>1. ASSUME NEW g \in Fds, Kind(sock'[g]) \in {"peer", "tunnel", "bound"}
        PROVE  sock'[g] = sock[g]
    BY <1>5, <2>1
  <2> QED BY <2>1, <1>2, InboxesShrink DEF Apart
<1> QED BY <1>2, <1>5, <1>6, <1>7, Shrinks

\* A promise without a client leads nowhere yet.
LEMMA NoClientApart ==
  ASSUME Base, Base', Apart, NoClient
  PROVE  Apart'
<1>1. /\ UNCHANGED <<type, out, got, partner, buffer, table, pc, cur, msg, actualfds, sock>>
      /\ tunnels' = <<NoFd>>
  BY DEF NoClient, world, maps
<1>2. Linked' = Linked /\ Fed' = Fed
  BY <1>1 DEF Linked, Fed
<1>3. Inboxes'
  BY <1>1 DEF Apart, Inboxes, On
<1>4. \A i \in DOMAIN tunnels' : tunnels'[i] = NoFd
  BY <1>1
<1> QED BY <1>1, <1>2, <1>3, <1>4, Shrinks

\* A tunnel is registered, or closed.
LEMMA TakeTunnelApart ==
  ASSUME Base, Base', Apart, TakeTunnel
  PROVE  Apart'
<1>h. PICK h : h = Head(actualfds)
  OBVIOUS
<1>1. /\ actualfds # <<>> /\ actualfds' = Tail(actualfds)
      /\ InsertInto("net", h, sock[h])
      /\ UNCHANGED <<type, out, got, pc, cur, msg, tunnels, partner, buffer>>
  BY <1>h DEF TakeTunnel, world, setup
<1>2. /\ h \in Fds /\ h = actualfds[1] /\ 1 \in DOMAIN actualfds
      /\ \A i \in DOMAIN actualfds' : i + 1 \in DOMAIN actualfds /\ actualfds'[i] = actualfds[i + 1]
  BY <1>1, <1>h, TailFields DEF Base, Typed
<1>3. /\ sock[h] \in Socks /\ "proxy" \in Sides /\ "net" \in Sides
      /\ h \notin Registered(table["net"]) /\ Kind(sock[h]) = "tunnel" /\ h \in Fed
  BY <1>2, Holds DEF Sides, Fed, Base, Waiting
<1>4. /\ \A g \in Fds : g # h => sock'[g] = sock[g]
      /\ sock'[h] \in {sock[h], Closed}
      /\ Registered(table'["net"]) \subseteq Registered(table["net"]) \cup {h}
      /\ table'["proxy"] = table["proxy"]
  BY <1>1, <1>2, <1>3, Inserting, SMTT(30)
<1>5. \A g \in Fds : sock'[g] = sock[g] \/ Kind(sock'[g]) = "closed"
  BY <1>4, NewSocks
<1>6. Fed' \subseteq Fed
  BY <1>2, <1>3, <1>4 DEF Fed
<1>7. Linked' \subseteq Linked
  <2>1. \A g \in Fds : Kind(sock'[g]) = "peer" => Kind(sock[g]) = "peer"
    BY <1>5
  <2> QED BY <2>1, <1>1, <1>4 DEF Linked
<1>8. Inboxes'
  <2>1. ASSUME NEW g \in Fds, Kind(sock'[g]) \in {"peer", "tunnel", "bound"}
        PROVE  sock'[g] = sock[g]
    BY <1>5, <2>1
  <2> QED BY <2>1, <1>1, InboxesShrink DEF Apart
<1> QED BY <1>1, <1>5, <1>6, <1>7, <1>8, Shrinks

\* A failed read takes from an inbox and closes a descriptor.
LEMMA FailApart ==
  ASSUME Base, Base', Apart, NEW s \in Sides, NEW i \in Slots, table[s].fd[i] # NoFd,
         NEW x \in Socks, x.on = sock[table[s].fd[i]].on,
         \A j \in DOMAIN x.inbox : \E k \in DOMAIN sock[table[s].fd[i]].inbox :
            x.inbox[j] = sock[table[s].fd[i]].inbox[k],
         ReadFails(s, i, x), UNCHANGED <<world, setup, maps, inserted>>
  PROVE  Apart'
<1>f. PICK f : f = table[s].fd[i]
  OBVIOUS
<1>v. PICK v : v = Victim(table[s], i)
  OBVIOUS
<1>1. /\ Registered(table'[s]) = Registered(table[s]) \ {v}
      /\ \A r \in Sides : r # s => table'[r] = table[r]
      /\ \A g \in Fds : IF g = v THEN sock'[g] = Closed ELSE sock'[g].on = sock[g].on
      /\ \A g \in Fds : g # v /\ g # f => sock'[g] = sock[g]
      /\ v # f => sock'[f] = x
      /\ buffer' = buffer
  <2>1. Failed(s, i, x)
    BY Failing
  <2> QED BY <2>1, <1>f, <1>v DEF Failed
<1>2. UNCHANGED <<type, out, got, partner, pc, cur, msg, tunnels, actualfds>>
  BY DEF world, setup, maps
<1>3. \A g \in Fds : sock'[g].on = sock[g].on \/ Kind(sock'[g]) = "closed"
  BY <1>1, NewSocks
<1>4. \A r \in Sides : Registered(table'[r]) \subseteq Registered(table[r])
  BY <1>1
<1>5. Linked' \subseteq Linked /\ Fed' \subseteq Fed
  <2>1. \A g \in Fds : Kind(sock'[g]) = "peer" => Kind(sock[g]) = "peer"
    BY <1>3 DEF Kind
  <2> QED BY <2>1, <1>2, <1>4 DEF Linked, Fed, Sides
<1>6. Inboxes'
  <2>1. ASSUME NEW g \in Fds, Kind(sock'[g]) \in {"peer", "tunnel", "bound"}
        PROVE  /\ sock'[g].on = sock[g].on
               /\ \A j \in DOMAIN sock'[g].inbox : \E k \in DOMAIN sock[g].inbox :
                     sock'[g].inbox[j] = sock[g].inbox[k]
    <3>1. g # v
      BY <2>1, <1>1, NewSocks
    <3>2. CASE g = f
      BY <3>1, <3>2, <1>1, <1>f
    <3>3. CASE g # f
      BY <3>1, <3>3, <1>1
    <3> QED BY <3>2, <3>3, <3>1, <1>1
  <2> QED BY <2>1, <1>2, InboxesShrink DEF Apart
<1> QED BY <1>1, <1>2, <1>3, <1>5, <1>6, Shrinks

\* A new tunnel takes a number that nothing mentions.
LEMMA TunnelApart ==
  ASSUME Base, Base', Apart, Clean', Tunnel
  PROVE  Apart'
<1>1. PICK t \in Tunnels, f \in Fds :
          /\ type = "CLIENT" => t \in Peers
          /\ asked[t] = -1
          /\ IsLowestFree(f)
          /\ sock' = [sock EXCEPT ![f] = NewSock(<<"tunnel", t>>)]
          /\ tunnels' = Append(tunnels, f)
          /\ seen' = seen \cup Stale(f)
  BY DEF Tunnel
<1>2. /\ UNCHANGED <<type, out, got, table, pc, cur, msg, partner, actualfds, buffer>>
      /\ type = "SERVER" => pc = "await"
  BY DEF Tunnel, maps
<1>3. PICK x \in Socks : /\ x = NewSock(<<"tunnel", t>>) /\ x.on = <<"tunnel", t>> /\ x.inbox = <<>>
                         /\ Kind(x) = "tunnel"
  BY NewSocks DEF Whats, Kind
<1>4. /\ sock'[f] = x /\ \A g \in Fds : g # f => sock'[g] = sock[g]
  BY <1>1, <1>3 DEF Base, Typed
<1>5. /\ sock[f] = Closed /\ Kind(sock[f]) = "closed" /\ f # 0
      /\ \A s \in Sides : f \notin Registered(table[s])
      /\ \A i \in DOMAIN actualfds : actualfds[i] # f
      /\ pc \in {"bound", "insert"} => f # cur
      /\ f # NoFd
  BY <1>1, Free, Constants
<1>6. /\ buffer["net"][f] = <<>>
      /\ \A g \in Fds : Kind(sock[g]) # "closed" => partner["proxy"][g] # f /\ partner["net"][g] # f
  <2>1. "stale" \notin Stale(f)
    BY <1>1 DEF Clean
  <2> QED BY <2>1, NewSocks DEF Stale, Sides
<1>7. out[t] = <<>>
  BY <1>1 DEF Base, OneEach
<1>8. \A g \in Fds : Kind(sock'[g]) = IF g = f THEN "tunnel" ELSE Kind(sock[g])
  BY <1>3, <1>4
<1>9. Linked' = Linked /\ Fed' = Fed /\ f \notin Fed /\ f \notin Linked
  <2>1. \A g \in Fds : Kind(sock'[g]) = "peer" <=> Kind(sock[g]) = "peer"
    BY <1>5, <1>8
  <2>2. f \notin Fed
    BY <1>5 DEF Fed, Sides
  <2> QED BY <2>1, <2>2, <1>2, <1>5 DEF Linked, Fed
<1>10. pc = "push" => partner["proxy"][cur] # f
  <2>1. pc = "push" => type = "CLIENT" /\ partner["proxy"][cur] = NoFd
    BY <1>2, Constants DEF Apart, Setup, Base, Typed
  <2> QED BY <2>1, <1>5
<1>11. Inboxes'
  <2>1. pc = "bound" => cur # f /\ cur \in Fds
    BY <1>5 DEF Base, Hands
  <2>2. From(x.inbox, t)
    BY <1>3 DEF From
  <2>3. \A g \in Fds : Kind(sock'[g]) = "peer" => From(sock'[g].inbox, sock'[g].on[2])
    BY <1>4, <1>8 DEF Apart, Inboxes, On
  <2>4. \A g \in Fds : g # f /\ Kind(sock'[g]) = "tunnel" =>
          /\ From(sock'[g].inbox, sock'[g].on[2])
          /\ type = "SERVER" /\ sock'[g].inbox # <<>> => out[sock'[g].on[2]] # <<>>
    BY <1>4 DEF Apart, Inboxes, On
  <2>5. pc = "bound" => From(sock'[cur].inbox, msg[1])
    BY <2>1, <1>4 DEF Apart, Inboxes
  <2> QED BY <2>2, <2>3, <2>4, <2>5, <1>2, <1>3, <1>4 DEF Inboxes, On
<1>12. Setup'
  <2>t. tunnels \in Seq(Fds \cup {NoFd})
    BY DEF Base, Typed
  <2>1. \A i \in DOMAIN tunnels' : tunnels'[i] = IF i \in DOMAIN tunnels THEN tunnels[i] ELSE f
    BY <2>t, <1>1, AppendFields
  <2>2. ASSUME NEW i \in DOMAIN tunnels', tunnels'[i] # NoFd
        PROVE  LET g == tunnels'[i] IN
          /\ out[sock'[g].on[2]] = <<>> /\ buffer["net"][g] = <<>>
          /\ \A h \in Linked' : partner["proxy"][h] # g
          /\ pc = "push" => partner["proxy"][cur] # g
    <3>1. CASE i \in DOMAIN tunnels
      <4>1. tunnels'[i] = tunnels[i] /\ tunnels[i] \in Fds /\ tunnels[i] # f
        BY <3>1, <2>1, <2>2, <1>1, Free, Holds
      <4> QED BY <3>1, <4>1, <2>2, <1>4, <1>9 DEF Apart, Setup, On
    <3>2. CASE i \notin DOMAIN tunnels
      <4>1. tunnels'[i] = f
        BY <3>2, <2>1
      <4>2. \A h \in Linked' : partner["proxy"][h] # f
        BY <1>6, <1>9, LinkedFed
      <4> QED BY <4>1, <4>2, <1>3, <1>4, <1>6, <1>7, <1>10
    <3> QED BY <3>1, <3>2
  <2>3. pc \in {"await", "push"} /\ Kind(sock'[cur]) = "peer" => sock'[cur].on[2] = msg[1]
    <3>1. pc \in {"await", "push"} => cur \in Fds
      BY DEF Base, Hands
    <3> QED BY <3>1, <1>4, <1>8 DEF Apart, Setup, On
  <2> QED BY <2>2, <2>3, <1>2, <1>9 DEF Apart, Setup, On
<1>13. Routed'
  <2>1. ASSUME NEW g \in Fds, Kind(sock'[g]) = "tunnel", g # f
        PROVE  \E u \in Peers : IsFor(g, u)'
    <3>1. sock'[g] = sock[g] /\ Kind(sock[g]) = "tunnel"
      BY <1>4, <2>1
    <3>2. PICK u \in Peers : IsFor(g, u)
      BY <3>1 DEF Apart, Routed
    <3>3. partner["net"][g] \in Fds /\ Kind(sock'[partner["net"][g]]) = "peer" =>
             sock'[partner["net"][g]].on = sock[partner["net"][g]].on
      BY <1>4, <1>8
    <3>4. \A h \in Linked' : h \in Linked /\ sock'[h].on = sock[h].on
      BY <1>4, <1>9, LinkedFed
    <3> QED BY <3>1, <3>2, <3>3, <3>4, <1>2, <1>9, IsForKept
  <2>2. \E u \in Peers : IsFor(f, u)'
    <3>1. PICK u \in Peers : type = "CLIENT" => u = t
      <4>1. CASE type = "CLIENT"
        BY <4>1, <1>1
      <4>2. CASE type # "CLIENT"
        <5>1. msg[1] \in Peers
          BY <4>2, <1>2, Constants DEF Base, Hands, Typed, Datagrams
        <5> QED BY <5>1, <4>2
      <4> QED BY <4>1, <4>2
    <3>2. On(f)'[2] = t
      BY <1>3, <1>4 DEF On
    <3>3. From(out'[t], u) /\ From(buffer'["net"][f], u)
      BY <1>2, <1>6, <1>7 DEF From
    <3>4. \A h \in Linked' : partner'["proxy"][h] # f
      BY <1>2, <1>6, <1>9, LinkedFed
    <3> QED BY <3>1, <3>2, <3>3, <3>4, <1>2, <1>9, <1>10 DEF IsFor
  <2>3. \A r \in Tunnels : \A i \in DOMAIN out'[r] : out'[r][i][1] = Owner(r)'
    BY <1>2 DEF Apart, Routed, Owner
  <2> QED BY <2>1, <2>2, <2>3 DEF Routed
<1>14. Replies'
  BY <1>2, <1>4, <1>8 DEF Apart, Replies, IsReplyTo, Owner, On
<1> QED BY <1>11, <1>12, <1>13, <1>14 DEF Apart

\* A new user gets a number that nothing mentions.
LEMMA ReceiveApart ==
  ASSUME Base, Base', Apart, Clean', Receive
  PROVE  Apart'
<1>1. /\ pc = "loop" /\ Listen \in Registered(table["proxy"])
      /\ sock[Listen].inbox # <<>> /\ pc' = "bound"
      /\ UNCHANGED <<type, out, got, table, tunnels, partner, actualfds, buffer>>
  BY DEF Receive, world, maps
<1>2. PICK f \in Fds :
          /\ IsLowestFree(f)
          /\ sock' = [sock EXCEPT ![Listen].inbox = Tail(@), ![f] = Bound]
          /\ cur' = f
          /\ seen' = (seen \cup Stale(f))
                \cup {m \in {"stale"} : type = "CLIENT" /\ partner["proxy"][f] # NoFd}
  BY DEF Receive
<1>3. /\ sock[f] = Closed /\ Kind(sock[f]) = "closed" /\ f # NoFd
      /\ \A s \in Sides : f \notin Registered(table[s])
  BY <1>2, Free, Constants
<1>4. /\ buffer["net"][f] = <<>> /\ buffer["proxy"][f] = <<>>
      /\ \A g \in Fds : Kind(sock[g]) # "closed" => partner["proxy"][g] # f /\ partner["net"][g] # f
      /\ type = "CLIENT" => partner["proxy"][f] = NoFd
  <2>1. "stale" \notin seen'
    BY DEF Clean
  <2>2. "stale" \notin Stale(f) /\ ~(type = "CLIENT" /\ partner["proxy"][f] # NoFd)
    BY <2>1, <1>2
  <2> QED BY <2>2, NewSocks DEF Stale, Sides
<1>5. /\ Listen \in Fds /\ Listen # f /\ sock[Listen] \in Socks
      /\ Kind(sock[Listen]) \in {"listening", "peer"}
  BY <1>1, <1>3, Holds, Constants DEF KindsOf, Sides
<1>6. sock[Listen].inbox \in Seq(Datagrams)
  BY <1>5, SockFields DEF InboxesOf, Kind
<1>7. /\ sock'[f] = Bound /\ sock'[Listen].on = sock[Listen].on
      /\ sock'[Listen].inbox = Tail(sock[Listen].inbox)
      /\ \A g \in Fds : g # f /\ g # Listen => sock'[g] = sock[g]
  <2>1. PICK y : y = [sock[Listen] EXCEPT !.inbox = Tail(sock[Listen].inbox)]
    OBVIOUS
  <2>2. sock' = [sock EXCEPT ![Listen] = y, ![f] = Bound]
    BY <1>2, <2>1
  <2>3. y.on = sock[Listen].on /\ y.inbox = Tail(sock[Listen].inbox)
    BY <2>1, <1>5, SockFields
  <2>4. sock \in [Fds -> Socks]
    BY DEF Base, Typed
  <2> QED BY <2>2, <2>3, <2>4, <1>5
<1>8. /\ Kind(sock'[f]) = "bound" /\ sock'[f].inbox = <<>>
      /\ \A g \in Fds : g # f => sock'[g].on = sock[g].on /\ Kind(sock'[g]) = Kind(sock[g])
  BY <1>7, NewSocks DEF Kind, Bound, NewSock
<1>9. Linked' = Linked /\ Fed' = Fed
  <2>1. \A g \in Fds : Kind(sock'[g]) = "peer" <=> Kind(sock[g]) = "peer"
    BY <1>3, <1>8
  <2> QED BY <2>1, <1>1 DEF Linked, Fed
<1>10. Inboxes'
  <2>1. From(sock'[f].inbox, msg'[1])
    BY <1>8 DEF From
  <2>2. \A u : From(sock[Listen].inbox, u) => From(sock'[Listen].inbox, u)
    <3>1. \A i \in DOMAIN sock'[Listen].inbox : \E j \in DOMAIN sock[Listen].inbox :
             sock'[Listen].inbox[i] = sock[Listen].inbox[j]
      BY <1>1, <1>6, <1>7, TailFields
    <3> QED BY <3>1 DEF From
  <2>3. \A g \in Fds : Kind(sock'[g]) = "peer" => From(sock'[g].inbox, sock'[g].on[2])
    <3>1. ASSUME NEW g \in Fds, Kind(sock'[g]) = "peer"
          PROVE  From(sock'[g].inbox, sock'[g].on[2])
      <4>1. g # f /\ Kind(sock[g]) = "peer" /\ From(sock[g].inbox, sock[g].on[2])
        BY <3>1, <1>8 DEF Apart, Inboxes, On
      <4> QED BY <4>1, <2>2, <1>7
    <3> QED BY <3>1
  <2>4. \A g \in Fds : Kind(sock'[g]) = "tunnel" => sock'[g] = sock[g]
    BY <1>5, <1>7, <1>8
  <2> QED BY <2>1, <2>3, <2>4, <1>1, <1>2, <1>8 DEF Apart, Inboxes, On
<1>11. Setup'
  <2>1. \A g \in Fed' : partner["net"][g] # f
    BY <1>4, <1>9, LinkedFed
  <2>2. ASSUME NEW i \in DOMAIN tunnels, tunnels[i] # NoFd
        PROVE  LET g == tunnels[i] IN
          /\ out[sock'[g].on[2]] = <<>> /\ buffer["net"][g] = <<>>
          /\ \A h \in Linked' : partner["proxy"][h] # g
    <3>1. tunnels[i] \in Fds /\ tunnels[i] # f
      BY <2>2, <1>2, Free, Holds
    <3> QED BY <3>1, <2>2, <1>8, <1>9 DEF Apart, Setup, On
  <2> QED BY <2>1, <2>2, <1>1, <1>2, <1>4 DEF Setup, On
<1>12. Routed'
  <2>1. ASSUME NEW g \in Fds, Kind(sock'[g]) = "tunnel"
        PROVE  \E u \in Peers : IsFor(g, u)'
    <3>1. sock'[g].on = sock[g].on /\ Kind(sock[g]) = "tunnel"
      BY <1>8, <2>1
    <3>2. PICK u \in Peers : IsFor(g, u)
      BY <3>1 DEF Apart, Routed
    <3>3. partner["net"][g] \in Fds /\ Kind(sock'[partner["net"][g]]) = "peer" =>
             sock'[partner["net"][g]].on = sock[partner["net"][g]].on
      BY <1>8
    <3>4. \A h \in Linked' : h \in Linked /\ sock'[h].on = sock[h].on
      BY <1>3, <1>8, <1>9, LinkedFed
    <3> QED BY <3>1, <3>2, <3>3, <3>4, <1>1, <1>9, IsForKept
  <2>2. \A r \in Tunnels : \A i \in DOMAIN out'[r] : out'[r][i][1] = Owner(r)'
    BY <1>1 DEF Apart, Routed, Owner
  <2> QED BY <2>1, <2>2 DEF Routed
<1>13. Replies'
  BY <1>1, <1>8 DEF Apart, Replies, IsReplyTo, Owner, On
<1> QED BY <1>10, <1>11, <1>12, <1>13 DEF Apart

\* The new user's socket knows only what its user sent.
LEMMA ConnectUserApart ==
  ASSUME Base, Base', Apart, ConnectUser
  PROVE  Apart'
<1>x. PICK x : x = [sock[cur] EXCEPT !.on = <<"peer", msg[1]>>]
  OBVIOUS
<1>1. /\ pc = "bound" /\ InsertInto("proxy", cur, x)
      /\ pc' = IF type = "SERVER" THEN "await" ELSE "push"
      /\ UNCHANGED <<type, out, got, cur, msg, tunnels, partner, actualfds, buffer>>
  BY <1>x DEF ConnectUser, world, maps
<1>2. /\ cur \in Fds /\ sock[cur] \in Socks /\ Kind(sock[cur]) = "bound" /\ type \in {"SERVER", "CLIENT"}
      /\ "proxy" \in Sides /\ "net" \in Sides /\ cur \notin Registered(table["proxy"])
  BY <1>1, Constants DEF Base, Hands, Typed, Kinds, Sides
<1>3. x.on = <<"peer", msg[1]>> /\ x.inbox = sock[cur].inbox
  BY <1>x, <1>2, SockFields
<1>4. /\ \A g \in Fds : g # cur => sock'[g] = sock[g]
      /\ sock'[cur] \in {x, Closed}
      /\ Registered(table'["proxy"]) \subseteq Registered(table["proxy"]) \cup {cur}
      /\ table'["net"] = table["net"]
  <2>1. table \in [Sides -> Tables]
    BY DEF Base, Typed
  <2>2. CASE IsFull(table["proxy"])
    <3>1. sock' = [sock EXCEPT ![cur] = Closed] /\ UNCHANGED table
      BY <1>1, <2>2 DEF InsertInto
    <3> QED BY <3>1, <1>2 DEF Base, Typed
  <2>3. CASE ~IsFull(table["proxy"])
    <3>1. PICK i \in Slots : /\ IsFirstFree(table["proxy"], i)
                             /\ table' = [table EXCEPT !["proxy"] = InsertAt(@, i, cur)]
                             /\ sock' = [sock EXCEPT ![cur] = x]
      BY <1>1, <2>3 DEF InsertInto
    <3>2. Registered(InsertAt(table["proxy"], i, cur)) = Registered(table["proxy"]) \cup {cur}
      BY <3>1, <1>2, InsertOK DEF Base, Typed
    <3> QED BY <3>1, <3>2, <2>1, <1>2 DEF Base, Typed
  <2> QED BY <2>2, <2>3
<1>5. /\ \A g \in Fds : g # cur => Kind(sock'[g]) = Kind(sock[g])
      /\ Kind(sock'[cur]) \in {"peer", "closed"}
      /\ Kind(sock'[cur]) = "peer" => sock'[cur].on[2] = msg[1] /\ sock'[cur].inbox = sock[cur].inbox
  BY <1>3, <1>4, NewSocks DEF Kind
<1>6. Fed' = Fed
  BY <1>1, <1>4 DEF Fed
<1>7. \A h \in Linked' : h \in Fds /\ ((h \in Linked /\ h # cur) \/ (h = cur /\ type = "CLIENT"))
  <2>1. ASSUME NEW h \in Linked'
        PROVE  h \in Fds /\ ((h \in Linked /\ h # cur) \/ (h = cur /\ type = "CLIENT"))
    <3>1. h \in Fds /\ Kind(sock'[h]) = "peer" /\ h \in Registered(table'["proxy"])
          /\ ~(pc' = "await" /\ h = cur)
      BY <1>1 DEF Linked
    <3>2. CASE h = cur
      BY <3>1, <3>2, <1>1, <1>2
    <3>3. CASE h # cur
      BY <3>1, <3>3, <1>1, <1>4, <1>5 DEF Linked
    <3> QED BY <3>1, <3>2, <3>3
  <2> QED BY <2>1
<1>8. /\ \A g \in Fed : partner["net"][g] # cur
      /\ buffer["proxy"][cur] = <<>>
      /\ type = "CLIENT" => partner["proxy"][cur] = NoFd
      /\ From(sock[cur].inbox, msg[1])
  BY <1>1 DEF Apart, Setup, Inboxes
<1>9. Inboxes'
  <2>1. \A g \in Fds : Kind(sock'[g]) = "peer" => From(sock'[g].inbox, sock'[g].on[2])
    BY <1>4, <1>5, <1>8 DEF Apart, Inboxes, On
  <2>2. \A g \in Fds : Kind(sock'[g]) = "tunnel" => sock'[g] = sock[g]
    BY <1>4, <1>5
  <2> QED BY <2>1, <2>2, <1>1 DEF Apart, Inboxes, On
<1>10. Setup'
  <2>1. ASSUME NEW i \in DOMAIN tunnels, tunnels[i] # NoFd
        PROVE  LET g == tunnels[i] IN
          /\ out[sock'[g].on[2]] = <<>> /\ buffer["net"][g] = <<>>
          /\ \A h \in Linked' : partner["proxy"][h] # g
          /\ pc' = "push" => partner["proxy"][cur] # g
    <3>1. tunnels[i] \in Fds /\ Kind(sock[tunnels[i]]) = "tunnel"
      BY <2>1, LinkedFed
    <3>2. sock'[tunnels[i]] = sock[tunnels[i]]
      BY <3>1, <1>2, <1>4
    <3>3. \A h \in Linked' : partner["proxy"][h] # tunnels[i]
      BY <2>1, <1>7, <1>8 DEF Apart, Setup
    <3>4. pc' = "push" => partner["proxy"][cur] # tunnels[i]
      BY <2>1, <1>1, <1>2, <1>8
    <3> QED BY <3>2, <3>3, <3>4, <2>1 DEF Apart, Setup, On
  <2> QED BY <2>1, <1>1, <1>2, <1>5, <1>6, <1>8 DEF Setup, On
<1>11. Routed'
  <2>1. ASSUME NEW g \in Fds, Kind(sock'[g]) = "tunnel"
        PROVE  \E u \in Peers : IsFor(g, u)'
    <3>1. g # cur /\ sock'[g] = sock[g] /\ Kind(sock[g]) = "tunnel" /\ g # NoFd
      BY <1>4, <1>5, <2>1, Constants
    <3>2. PICK u \in Peers : IsFor(g, u)
      BY <3>1 DEF Apart, Routed
    <3>3. \A h \in Linked' : partner["proxy"][h] = g => h \in Linked /\ sock'[h].on = sock[h].on
      BY <3>1, <1>4, <1>7, <1>8
    <3>4. g \in Fed => partner["net"][g] # cur
      BY <1>8
    <3>5. g \in Fed /\ partner["net"][g] \in Fds /\ Kind(sock'[partner["net"][g]]) = "peer" =>
             sock'[partner["net"][g]].on = sock[partner["net"][g]].on
      BY <1>4, <3>4
    <3>6. pc' = "push" => partner["proxy"][cur] # g
      BY <3>1, <1>1, <1>2, <1>8
    <3> QED BY <3>1, <3>2, <3>3, <3>5, <3>6, <1>1, <1>6, IsForKept
  <2>2. \A r \in Tunnels : \A i \in DOMAIN out'[r] : out'[r][i][1] = Owner(r)'
    BY <1>1 DEF Apart, Routed, Owner
  <2> QED BY <2>1, <2>2 DEF Routed
<1>12. Replies'
  <2>1. \A f \in Fds : Kind(sock'[f]) = "peer" => f = cur \/ (Kind(sock[f]) = "peer" /\ sock'[f] = sock[f])
    BY <1>4, <1>5
  <2> QED BY <2>1, <1>1, <1>8 DEF Apart, Replies, IsReplyTo, Owner, On
<1> QED BY <1>9, <1>10, <1>11, <1>12 DEF Apart

\* The tunnel that comes for a user is for that user; no tunnel, no route.
LEMMA TakePromiseApart ==
  ASSUME Base, Base', Apart, Clean', TakePromise
  PROVE  Apart'
<1>1. /\ pc = "await" /\ tunnels # <<>> /\ tunnels' = Tail(tunnels) /\ pc' = "push"
      /\ UNCHANGED <<type, out, got, table, cur, msg, buffer>>
  BY DEF TakePromise, world
<1>h. PICK h : h = Head(tunnels)
  OBVIOUS
<1>2. cur \in Fds /\ msg[1] \in Peers /\ type = "SERVER"
  BY <1>1 DEF Base, Hands, Datagrams
<1>3. /\ h \in Fds \cup {NoFd} /\ h = tunnels[1] /\ 1 \in DOMAIN tunnels
      /\ \A i \in DOMAIN tunnels' : /\ i + 1 \in DOMAIN tunnels /\ tunnels'[i] = tunnels[i + 1]
                                    /\ i + 1 # 1
  BY <1>1, <1>h, TailFields DEF Base, Typed
<1>4. /\ \A g \in Fds : sock'[g].on = sock[g].on /\ Kind(sock'[g]) = Kind(sock[g])
      /\ \A g \in Fds : sock'[g].inbox = sock[g].inbox
  <2>1. \A g \in Fds : ShutDown(sock[g]).on = sock[g].on /\ ShutDown(sock[g]).inbox = sock[g].inbox
    <3>1. \A g \in Fds : sock[g] \in Socks
      BY Holds
    <3>2. \A g \in Fds : \A q : /\ [sock[g] EXCEPT !.down = q].on = sock[g].on
                                /\ [sock[g] EXCEPT !.down = q].inbox = sock[g].inbox
      BY <3>1, SockFields
    <3> QED BY <3>2, Zenon DEF ShutDown
  <2>2. \A g \in Fds : sock'[g] \in {sock[g], ShutDown(sock[g])}
    BY DEF TakePromise
  <2> QED BY <2>1, <2>2 DEF Kind
<1>5. /\ Linked \subseteq Linked' /\ \A f \in Linked' : f \in Fds /\ f \in Linked \cup {cur}
      /\ \A f \in Linked' : Kind(sock[f]) = "peer"
  BY <1>1, <1>4 DEF Linked
<1>6. Inboxes'
  BY <1>1, <1>4 DEF Apart, Inboxes, On
<1>7. Kind(sock[cur]) = "peer" => On(cur)[2] = msg[1]
  BY <1>1 DEF Apart, Setup
<1>8. Replies'
  BY <1>1, <1>4 DEF Apart, Replies, IsReplyTo, Owner, On
<1>9. \A r \in Tunnels : \A i \in DOMAIN out'[r] : out'[r][i][1] = Owner(r)'
  BY <1>1 DEF Apart, Routed, Owner
<1>10. \A i \in DOMAIN tunnels : tunnels[i] # NoFd =>
          /\ tunnels[i] \in Fds /\ Kind(sock[tunnels[i]]) = "tunnel"
          /\ out[On(tunnels[i])[2]] = <<>> /\ buffer["net"][tunnels[i]] = <<>>
          /\ \A f \in Linked : partner["proxy"][f] # tunnels[i]
  BY LinkedFed DEF Apart, Setup
<1>11. CASE h # NoFd
  <2>1. Couple(cur, h) /\ h \in Fds
    BY <1>11, <1>h, <1>3 DEF TakePromise
  <2>2. /\ partner'["proxy"][cur] = h /\ partner'["net"][h] = cur
        /\ \A g \in Fds : g # cur => partner'["proxy"][g] = partner["proxy"][g]
        /\ \A g \in Fds : g # h => partner'["net"][g] = partner["net"][g]
        /\ actualfds' = Append(actualfds, h)
    BY <1>2, <2>1, CoupleFields DEF Coupled
  <2>3. Fed' = Fed \cup {h}
    <3>1. actualfds \in Seq(Fds)
      BY DEF Base, Typed
    <3> QED BY <3>1, <1>1, <2>1, <2>2, AppendFields DEF Fed
  <2>4. Setup'
    <3>1. ASSUME NEW i \in DOMAIN tunnels', tunnels'[i] # NoFd
          PROVE  LET g == tunnels'[i] IN
            /\ out[sock'[g].on[2]] = <<>> /\ buffer["net"][g] = <<>>
            /\ \A f \in Linked' : partner'["proxy"][f] # g
            /\ partner'["proxy"][cur] # g
      <4>1. i + 1 \in DOMAIN tunnels /\ tunnels'[i] = tunnels[i + 1] /\ tunnels'[i] \in Fds
        BY <1>3, <1>10, <3>1
      <4>2. tunnels'[i] # h
        BY <1>3, <1>11, <4>1 DEF Base, Waiting
      <4>3. \A f \in Linked' : partner'["proxy"][f] # tunnels'[i]
        BY <1>5, <1>10, <2>2, <3>1, <4>1, <4>2
      <4> QED BY <1>4, <1>10, <2>2, <3>1, <4>1, <4>2, <4>3 DEF On
    <3> QED BY <3>1, <1>1, <1>2, <1>4, <1>7 DEF Setup, On
  <2>5. Routed'
    <3>1. ASSUME NEW g \in Fds, Kind(sock'[g]) = "tunnel", g # h
          PROVE  \E u \in Peers : IsFor(g, u)'
      <4>1. PICK u \in Peers : IsFor(g, u)
        BY <1>4, <3>1 DEF Apart, Routed
      <4>2. \A f \in Linked' : partner'["proxy"][f] = g => f \in Linked /\ partner["proxy"][f] = g
        BY <1>5, <2>2, <3>1
      <4> QED BY <4>1, <4>2, <1>1, <1>4, <1>5, <2>2, <2>3, <3>1, IsForKept
    <3>2. \E u \in Peers : IsFor(h, u)'
      <4>t. PICK t : t = On(h)[2] /\ On(h)' = On(h)
        BY <1>4, <2>1 DEF On
      <4>u. PICK u \in Peers : u = msg[1] /\ u = msg'[1]
        BY <1>1, <1>2
      <4>2. From(out'[t], u) /\ From(buffer'["net"][h], u)
        BY <1>1, <1>3, <1>10, <1>11, <4>t DEF From
      <4>3. \A f \in Linked' : partner'["proxy"][f] = h => sock'[f].on[2] = u
        <5>1. \A f \in Linked' : partner'["proxy"][f] = h => f = cur
          BY <1>3, <1>5, <1>10, <1>11, <2>2
        <5>2. cur \in Linked' => Kind(sock[cur]) = "peer"
          BY <1>5
        <5> QED BY <5>1, <5>2, <1>2, <1>4, <1>7, <4>u DEF On
      <4>4. Kind(sock'[partner'["net"][h]]) = "peer" => sock'[partner'["net"][h]].on[2] = u
        <5>1. Kind(sock'[cur]) = "peer" => sock'[cur].on[2] = u
          BY <1>2, <1>4, <1>7, <4>u DEF On
        <5> QED BY <5>1, <2>2
      <4>5. IsFor(h, u)'
        BY <4>t, <4>u, <4>2, <4>3, <4>4, <1>1, <1>2 DEF IsFor, On, From
      <4> QED BY <4>5
    <3> QED BY <3>1, <3>2, <1>9, <2>1 DEF Routed
  <2> QED BY <1>6, <1>8, <2>4, <2>5 DEF Apart
<1>12. CASE h = NoFd
  <2>1. UNCHANGED maps /\ partner["proxy"][cur] = NoFd
    <3>1. UNCHANGED maps /\ \E keys : /\ keys = {f \in Fds : partner["proxy"][f] # NoFd}
                                      /\ seen' = seen \cup {m \in {"stale"} : cur \in keys}
      BY <1>12, <1>h DEF TakePromise
    <3> QED BY <3>1, <1>2 DEF Clean
  <2>2. UNCHANGED <<partner, actualfds>> /\ Fed' = Fed
    BY <1>1, <2>1 DEF maps, Fed
  <2>3. Setup'
    <3>1. ASSUME NEW i \in DOMAIN tunnels', tunnels'[i] # NoFd
          PROVE  LET g == tunnels'[i] IN
            /\ out[sock'[g].on[2]] = <<>> /\ buffer["net"][g] = <<>>
            /\ \A f \in Linked' : partner["proxy"][f] # g
            /\ partner["proxy"][cur] # g
      <4>1. i + 1 \in DOMAIN tunnels /\ tunnels'[i] = tunnels[i + 1] /\ tunnels'[i] \in Fds
        BY <1>3, <1>10, <3>1
      <4>2. \A f \in Linked' : partner["proxy"][f] # tunnels'[i]
        BY <1>5, <1>10, <2>1, <3>1, <4>1
      <4> QED BY <1>4, <1>10, <2>1, <3>1, <4>1, <4>2 DEF On
    <3> QED BY <3>1, <1>1, <1>2, <1>4, <1>7, <2>2 DEF Setup, On
  <2>4. Routed'
    <3>1. ASSUME NEW g \in Fds, Kind(sock'[g]) = "tunnel"
          PROVE  \E u \in Peers : IsFor(g, u)'
      <4>1. PICK u \in Peers : IsFor(g, u)
        BY <1>4, <3>1 DEF Apart, Routed
      <4>2. \A f \in Linked' : partner["proxy"][f] = g => f \in Linked
        BY <1>5, <2>1, Constants
      <4>3. partner["proxy"][cur] # g
        BY <2>1, Constants
      <4> QED BY <4>1, <4>2, <4>3, <1>1, <1>4, <1>5, <2>2, IsForKept
    <3> QED BY <3>1, <1>9 DEF Routed
  <2> QED BY <1>6, <1>8, <2>3, <2>4 DEF Apart
<1> QED BY <1>11, <1>12

\* The first datagram goes to the user's tunnel, or to no tunnel.
LEMMA PushApart ==
  ASSUME Base, Base', Apart, Push
  PROVE  Apart'
<1>1. /\ pc = "push" /\ pc' = "loop"
      /\ UNCHANGED <<type, out, got, sock, table, tunnels, actualfds>>
  BY DEF Push, world
<1>2. cur \in Fds /\ msg \in Datagrams
  BY <1>1 DEF Base, Hands
<1>d. PICK d : d = partner'["proxy"][cur]
  OBVIOUS
<1>3. /\ d = IF partner["proxy"][cur] = NoFd THEN 0 ELSE partner["proxy"][cur]
      /\ \A f \in Fds : f # cur => partner'["proxy"][f] = partner["proxy"][f]
      /\ partner'["net"] = partner["net"] /\ d \in Fds
  <2>1. partner' = [partner EXCEPT !["proxy"][cur] = IF @ = NoFd THEN 0 ELSE @]
    BY DEF Push
  <2>2. partner \in [Sides -> [Fds -> Fds \cup {NoFd}]] /\ "proxy" \in Sides /\ "net" \in Sides
    BY DEF Base, Typed, Sides
  <2> QED BY <2>1, <2>2, <1>2, <1>d, Constants
<1>4. /\ \A f \in Fds : buffer'["net"][f] = IF f = d THEN Append(buffer["net"][f], msg) ELSE buffer["net"][f]
      /\ buffer'["proxy"] = buffer["proxy"]
  <2>1. buffer' = [buffer EXCEPT !["net"][d] = Append(@, msg)]
    BY <1>d DEF Push
  <2> QED BY <2>1 DEF Base, Typed, Sides
<1>5. Linked' = Linked /\ Fed' = Fed
  BY <1>1 DEF Linked, Fed
<1>6. \A g \in Fds : Kind(sock[g]) = "tunnel" => (d = g <=> partner["proxy"][cur] = g)
  BY <1>3, LinkedFed, Constants
<1>7. Inboxes'
  BY <1>1 DEF Apart, Inboxes, On
<1>8. Setup'
  <2>1. ASSUME NEW i \in DOMAIN tunnels, tunnels[i] # NoFd
        PROVE  LET g == tunnels[i] IN
          /\ out[On(g)[2]] = <<>> /\ buffer'["net"][g] = <<>>
          /\ \A f \in Linked : partner'["proxy"][f] # g
    <3>1. /\ tunnels[i] \in Fds /\ Kind(sock[tunnels[i]]) = "tunnel"
          /\ out[On(tunnels[i])[2]] = <<>> /\ buffer["net"][tunnels[i]] = <<>>
          /\ \A f \in Linked : partner["proxy"][f] # tunnels[i]
          /\ partner["proxy"][cur] # tunnels[i]
      BY <2>1, <1>1, LinkedFed DEF Apart, Setup
    <3>2. d # tunnels[i]
      BY <3>1, <1>6
    <3> QED BY <3>1, <3>2, <1>d, <1>3, <1>4, LinkedFed
  <2> QED BY <2>1, <1>1, <1>5 DEF Setup, On
<1>9. Routed'
  <2>1. ASSUME NEW g \in Fds, Kind(sock[g]) = "tunnel"
        PROVE  \E u \in Peers : IsFor(g, u)'
    <3>1. PICK u \in Peers : IsFor(g, u)
      BY <2>1 DEF Apart, Routed
    <3>2. From(buffer'["net"][g], u)
      <4>1. CASE g = d
        <5>1. msg[1] = u /\ From(buffer["net"][g], u)
          BY <3>1, <4>1, <1>1, <1>6, <2>1 DEF IsFor
        <5>2. buffer["net"][g] \in Seq(Datagrams)
          BY DEF Base, Typed
        <5>3. buffer'["net"][g] = Append(buffer["net"][g], msg)
          BY <4>1, <1>4
        <5> QED BY <5>1, <5>2, <5>3, <1>2, FromMore
      <4>2. CASE g # d
        BY <3>1, <4>2, <1>4 DEF IsFor
      <4> QED BY <4>1, <4>2
    <3>3. \A f \in Linked : partner'["proxy"][f] = g => partner["proxy"][f] = g
      BY <1>d, <1>3, <1>6, <2>1, LinkedFed
    <3> QED BY <3>1, <3>2, <3>3, <1>1, <1>3, <1>5 DEF IsFor, On
  <2>2. \A r \in Tunnels : \A i \in DOMAIN out'[r] : out'[r][i][1] = Owner(r)'
    BY <1>1 DEF Apart, Routed, Owner
  <2> QED BY <2>1, <2>2, <1>1 DEF Routed
<1>10. Replies'
  BY <1>1, <1>4 DEF Apart, Replies, IsReplyTo, Owner, On
<1> QED BY <1>7, <1>8, <1>9, <1>10 DEF Apart

\* A tunnel's own socket to the service, on a number that nothing mentions.
LEMMA DispatchApart ==
  ASSUME Base, Base', Apart, Clean', Dispatch
  PROVE  Apart'
<1>1. /\ type = "CLIENT" /\ pc = "loop" /\ tunnels # <<>> /\ tunnels' = Tail(tunnels)
      /\ UNCHANGED <<type, out, got, table, msg, buffer>>
  BY DEF Dispatch, world
<1>h. PICK h : h = Head(tunnels)
  OBVIOUS
<1>2. PICK f \in Fds :
          /\ IsLowestFree(f)
          /\ \/ /\ sock' = [sock EXCEPT ![f] = NewSock(<<"peer", On(h)[2]>>)]
                /\ Couple(f, h)
                /\ pc' = "insert" /\ cur' = f
                /\ seen' = seen \cup Stale(f)
             \/ /\ sock' = [sock EXCEPT ![f] = Misc]
                /\ UNCHANGED <<pc, cur, maps>>
  BY <1>h DEF Dispatch
<1>3. /\ h = tunnels[1] /\ 1 \in DOMAIN tunnels
      /\ \A i \in DOMAIN tunnels' : /\ i + 1 \in DOMAIN tunnels /\ tunnels'[i] = tunnels[i + 1]
                                    /\ i + 1 # 1
  BY <1>1, <1>h, TailFields DEF Base, Typed
<1>4. h \in Fds /\ Kind(sock[h]) = "tunnel" /\ On(h)[2] \in Peers /\ h # NoFd
  BY <1>1, <1>3, Holds DEF Base, Waiting
<1>5. /\ sock[f] = Closed /\ Kind(sock[f]) = "closed" /\ f # NoFd
      /\ \A s \in Sides : f \notin Registered(table[s])
      /\ \A i \in DOMAIN tunnels : tunnels[i] # f
      /\ \A i \in DOMAIN actualfds : actualfds[i] # f
  BY <1>2, Free, Constants
<1>6. \A i \in DOMAIN tunnels : tunnels[i] # NoFd =>
          /\ tunnels[i] \in Fds /\ Kind(sock[tunnels[i]]) = "tunnel" /\ tunnels[i] \notin Fed
          /\ out[On(tunnels[i])[2]] = <<>> /\ buffer["net"][tunnels[i]] = <<>>
          /\ \A g \in Linked : partner["proxy"][g] # tunnels[i]
  BY LinkedFed DEF Apart, Setup
<1>s. sock \in [Fds -> Socks]
  BY DEF Base, Typed
<1>7. CASE /\ sock' = [sock EXCEPT ![f] = Misc]
           /\ UNCHANGED <<pc, cur, maps>>
  <2>1. /\ sock'[f] = Misc /\ Kind(sock'[f]) = "misc"
        /\ \A g \in Fds : g # f => sock'[g] = sock[g]
    BY <1>7, <1>s, NewSocks
  <2>2. Linked' \subseteq Linked /\ Fed' \subseteq Fed
    <3>1. \A g \in Fds : Kind(sock'[g]) = "peer" => Kind(sock[g]) = "peer"
      BY <2>1
    <3> QED BY <3>1, <1>1, <1>7 DEF Linked, Fed, maps
  <2>3. Inboxes'
    <3>1. ASSUME NEW g \in Fds, Kind(sock'[g]) \in {"peer", "tunnel", "bound"}
          PROVE  sock'[g] = sock[g]
      BY <2>1, <3>1
    <3> QED BY <3>1, <1>1, <1>7, InboxesShrink DEF Apart
  <2>4. \A g \in Fds : \/ sock'[g].on = sock[g].on
                       \/ Kind(sock'[g]) \notin {"peer", "tunnel", "bound"}
    BY <2>1
  <2>5. \A i \in DOMAIN tunnels' : \E j \in DOMAIN tunnels : tunnels'[i] = tunnels[j]
    BY <1>3
  <2> QED BY <2>2, <2>3, <2>4, <2>5, <1>1, <1>7, Shrinks DEF maps
<1>8. CASE /\ sock' = [sock EXCEPT ![f] = NewSock(<<"peer", On(h)[2]>>)]
           /\ Couple(f, h)
           /\ pc' = "insert" /\ cur' = f
           /\ seen' = seen \cup Stale(f)
  <2>1. /\ buffer["proxy"][f] = <<>>
        /\ \A g \in Fds : Kind(sock[g]) # "closed" => partner["proxy"][g] # f /\ partner["net"][g] # f
    <3>1. "stale" \notin Stale(f)
      BY <1>8 DEF Clean
    <3> QED BY <3>1, NewSocks DEF Stale, Sides
  <2>2. /\ partner'["proxy"][f] = h /\ partner'["net"][h] = f
        /\ \A g \in Fds : g # f => partner'["proxy"][g] = partner["proxy"][g]
        /\ \A g \in Fds : g # h => partner'["net"][g] = partner["net"][g]
        /\ actualfds' = Append(actualfds, h)
    BY <1>4, <1>8, CoupleFields DEF Coupled
  <2>3. /\ sock'[f].on = <<"peer", On(h)[2]>> /\ sock'[f].inbox = <<>>
        /\ \A g \in Fds : g # f => sock'[g] = sock[g]
    <3>1. <<"peer", On(h)[2]>> \in Whats
      BY <1>4 DEF Whats
    <3>2. PICK x : x = NewSock(<<"peer", On(h)[2]>>) /\ x.on = <<"peer", On(h)[2]>> /\ x.inbox = <<>>
      BY <3>1, NewSocks
    <3> QED BY <3>2, <1>8, <1>s
  <2>4. \A g \in Fds : Kind(sock'[g]) = IF g = f THEN "peer" ELSE Kind(sock[g])
    BY <2>3 DEF Kind
  <2>5. Fed' = Fed \cup {h} /\ f \notin Fed
    <3>1. actualfds \in Seq(Fds)
      BY DEF Base, Typed
    <3>2. f \notin Fed
      BY <1>5 DEF Fed, Sides
    <3> QED BY <3>1, <3>2, <1>1, <1>4, <2>2, AppendFields DEF Fed
  <2>6. \A g \in Linked' : g \in Fds /\ g \in Linked \cup {f} /\ (g # f => sock'[g] = sock[g])
    <3>1. ASSUME NEW g \in Linked', g # f
          PROVE  g \in Fds /\ g \in Linked /\ sock'[g] = sock[g]
      BY <3>1, <1>1, <1>8, <2>3, <2>4 DEF Linked
    <3> QED BY <3>1
  <2>7. h # f
    BY <1>4, <1>5
  <2>8. Inboxes'
    <3>1. From(sock'[f].inbox, sock'[f].on[2])
      BY <2>3 DEF From
    <3>2. \A g \in Fds : Kind(sock'[g]) = "peer" => From(sock'[g].inbox, sock'[g].on[2])
      BY <3>1, <2>3, <2>4 DEF Apart, Inboxes, On
    <3>3. \A g \in Fds : Kind(sock'[g]) = "tunnel" => sock'[g] = sock[g]
      BY <2>3, <2>4
    <3> QED BY <3>2, <3>3, <1>1, <1>8 DEF Apart, Inboxes, On
  <2>9. Setup'
    <3>1. ASSUME NEW i \in DOMAIN tunnels', tunnels'[i] # NoFd
          PROVE  LET g == tunnels'[i] IN
            /\ out[sock'[g].on[2]] = <<>> /\ buffer["net"][g] = <<>>
            /\ \A k \in Linked' : partner'["proxy"][k] # g
      <4>1. i + 1 \in DOMAIN tunnels /\ tunnels'[i] = tunnels[i + 1] /\ tunnels'[i] \in Fds
            /\ tunnels'[i] # f
        BY <1>3, <1>5, <1>6, <3>1
      <4>2. tunnels'[i] # h
        BY <1>3, <1>4, <4>1 DEF Base, Waiting
      <4>3. \A k \in Linked' : partner'["proxy"][k] # tunnels'[i]
        BY <1>6, <2>2, <2>6, <3>1, <4>1, <4>2
      <4> QED BY <1>6, <2>3, <3>1, <4>1, <4>3 DEF On
    <3> QED BY <3>1, <1>1, <1>8 DEF Setup, On
  <2>10. Routed'
    <3>1. ASSUME NEW g \in Fds, Kind(sock'[g]) = "tunnel", g # h
          PROVE  \E u \in Peers : IsFor(g, u)'
      <4>1. sock'[g] = sock[g] /\ Kind(sock[g]) = "tunnel" /\ g # f
        BY <2>3, <2>4, <3>1
      <4>2. PICK u \in Peers : IsFor(g, u)
        BY <4>1 DEF Apart, Routed
      <4>3. \A k \in Linked' : partner'["proxy"][k] = g =>
               k \in Linked /\ partner["proxy"][k] = g /\ sock'[k].on = sock[k].on
        BY <2>2, <2>6, <3>1
      <4>4. partner["net"][g] # f
        BY <2>1, <4>1
      <4>5. partner["net"][g] \in Fds => sock'[partner["net"][g]] = sock[partner["net"][g]]
        BY <4>4, <2>3
      <4> QED BY <4>1, <4>2, <4>3, <4>5, <1>1, <1>8, <2>2, <2>5, <3>1, IsForKept
    <3>2. \E u \in Peers : IsFor(h, u)'
      <4>t. PICK t \in Peers : t = On(h)[2] /\ On(h)' = On(h)
        BY <1>4, <2>3, <2>7 DEF On
      <4>2. From(out'[t], t) /\ From(buffer'["net"][h], t)
        BY <1>1, <1>3, <1>4, <1>6, <4>t DEF From
      <4>3. \A k \in Linked' : partner'["proxy"][k] = h => sock'[k].on[2] = t
        <5>1. \A k \in Linked' : partner'["proxy"][k] = h => k = f
          BY <1>3, <1>4, <1>6, <2>2, <2>6
        <5> QED BY <5>1, <2>3, <4>t DEF On
      <4>4. sock'[partner'["net"][h]].on[2] = t
        BY <2>2, <2>3, <4>t DEF On
      <4>5. IsFor(h, t)'
        BY <4>t, <4>2, <4>3, <4>4, <1>8, FromMore DEF IsFor, On
      <4> QED BY <4>5
    <3>3. \A r \in Tunnels : \A i \in DOMAIN out'[r] : out'[r][i][1] = Owner(r)'
      BY <1>1 DEF Apart, Routed, Owner
    <3> QED BY <3>1, <3>2, <3>3 DEF Routed
  <2>11. Replies'
    <3>1. \A g \in Fds : Kind(sock'[g]) = "peer" => g = f \/ (Kind(sock[g]) = "peer" /\ sock'[g] = sock[g])
      BY <2>3, <2>4
    <3> QED BY <3>1, <1>1, <2>1 DEF Apart, Replies, IsReplyTo, Owner, On
  <2> QED BY <2>8, <2>9, <2>10, <2>11 DEF Apart
<1> QED BY <1>2, <1>7, <1>8
\* Two sequences joined hold what either holds.
LEMMA Joined ==
  ASSUME NEW S, NEW p \in Seq(S), NEW q \in Seq(S)
  PROVE  \A j \in DOMAIN (p \o q) :
            \/ j \in DOMAIN p /\ (p \o q)[j] = p[j]
            \/ \E k \in DOMAIN q : (p \o q)[j] = q[k]
<1> SUFFICES ASSUME NEW j \in DOMAIN (p \o q)
             PROVE  \/ j \in DOMAIN p /\ (p \o q)[j] = p[j]
                    \/ \E k \in DOMAIN q : (p \o q)[j] = q[k]
  OBVIOUS
<1>1. CASE j \in DOMAIN p
  BY <1>1
<1>2. CASE j \notin DOMAIN p
  <2>1. j - Len(p) \in DOMAIN q /\ (p \o q)[j] = q[j - Len(p)]
    BY <1>2
  <2> QED BY <2>1
<1> QED BY <1>1, <1>2

\* A datagram goes to the tunnel of its sender, or to none.
LEMMA ReadPeerApart ==
  ASSUME Base, Base', Apart, NEW i \in Slots, ReadPeer(i)
  PROVE  Apart'
<1>f. PICK f : f = table["proxy"].fd[i]
  OBVIOUS
<1>x. PICK x : x = sock[f]
  BY Zenon
<1>1. /\ f \notin {NoFd, Listen} /\ (x.inbox # <<>> \/ x.down) /\ pc = "loop"
      /\ UNCHANGED <<world, setup, maps, inserted>>
      /\ IF x.err \/ x.inbox = <<>>
         THEN ReadFails("proxy", i, [x EXCEPT !.err = FALSE])
         ELSE IF Head(x.inbox)[3] = 0
         THEN ReadFails("proxy", i, [x EXCEPT !.inbox = Tail(@)])
         ELSE /\ sock' = [sock EXCEPT ![f].inbox = Tail(@)]
              /\ buffer' = [buffer EXCEPT
                         !["net"][Destination("proxy", f)] = Append(@, Head(x.inbox))]
              /\ Kept
  BY <1>f, <1>x, Zenon DEF ReadPeer
<1>2. /\ "proxy" \in Sides /\ f \in Registered(table["proxy"]) /\ f \in Fds /\ x \in Socks
      /\ Kind(x) = "peer" /\ f # NoFd /\ f \in Linked
  <2>1. /\ "proxy" \in Sides /\ f \in Registered(table["proxy"]) /\ f \in Fds /\ x \in Socks
        /\ Kind(x) \in {"listening", "peer"} /\ f # NoFd
    BY <1>1, <1>f, <1>x, Holds, Zenon DEF Sides, KindsOf
  <2>2. Kind(x) = "peer"
    BY <2>1, <1>1, <1>x DEF Base, Kinds
  <2> QED BY <2>1, <2>2, <1>1, <1>x, Zenon DEF Linked
<1>3. /\ x.inbox \in Seq(Datagrams) /\ InboxesOf(x.on) = Seq(Datagrams)
      /\ From(x.inbox, On(f)[2])
  BY <1>2, <1>x, SockFields, Zenon DEF InboxesOf, Kind, Apart, Inboxes
<1>4. ASSUME NEW y \in Socks, y.on = x.on, ReadFails("proxy", i, y),
             \A j \in DOMAIN y.inbox : \E k \in DOMAIN x.inbox : y.inbox[j] = x.inbox[k]
      PROVE  Apart'
  <2>1. /\ table["proxy"].fd[i] = f /\ sock[table["proxy"].fd[i]] = x
        /\ "proxy" \in Sides /\ f # NoFd /\ UNCHANGED <<world, setup, maps, inserted>>
    BY <1>1, <1>2, <1>f, <1>x, Zenon
  <2>2. \A j \in DOMAIN y.inbox : \E k \in DOMAIN sock[table["proxy"].fd[i]].inbox :
           y.inbox[j] = sock[table["proxy"].fd[i]].inbox[k]
    BY <1>4, <2>1, Zenon
  <2>3. table["proxy"].fd[i] # NoFd /\ y.on = sock[table["proxy"].fd[i]].on
    BY <1>4, <2>1, Zenon
  <2> QED BY <1>4, <2>1, <2>2, <2>3, FailApart, ZenonT(30)
<1>5. CASE x.err \/ x.inbox = <<>>
  <2>1. [x EXCEPT !.err = FALSE] \in Socks /\ [x EXCEPT !.err = FALSE].on = x.on
    BY <1>2, SockChanged
  <2>2. [x EXCEPT !.err = FALSE].inbox = x.inbox
    BY <1>2, SockFields
  <2> QED BY <1>1, <1>4, <1>5, <2>1, <2>2
<1>t. ASSUME x.inbox # <<>>
      PROVE  /\ Tail(x.inbox) \in InboxesOf(x.on) /\ Head(x.inbox) \in Datagrams
             /\ \A j \in DOMAIN Tail(x.inbox) : \E k \in DOMAIN x.inbox : Tail(x.inbox)[j] = x.inbox[k]
             /\ Head(x.inbox)[1] = On(f)[2]
  BY <1>t, <1>3, TailFields, FromMore
<1>y. ASSUME x.inbox # <<>>
      PROVE  /\ [x EXCEPT !.inbox = Tail(x.inbox)] \in Socks
             /\ [x EXCEPT !.inbox = Tail(x.inbox)].on = x.on
             /\ [x EXCEPT !.inbox = Tail(x.inbox)].inbox = Tail(x.inbox)
  <2>1. [x EXCEPT !.inbox = Tail(x.inbox)].inbox = Tail(x.inbox)
    BY <1>2, SockFields
  <2> QED BY <1>2, <1>t, <1>y, <2>1, SockChanged
<1>6. CASE ~(x.err \/ x.inbox = <<>>) /\ Head(x.inbox)[3] = 0
  <2>1. PICK y : y = [x EXCEPT !.inbox = Tail(@)]
    OBVIOUS
  <2>2. y \in Socks /\ y.on = x.on /\ y.inbox = Tail(x.inbox) /\ ReadFails("proxy", i, y)
    BY <1>1, <1>6, <1>y, <2>1
  <2> QED BY <1>4, <1>6, <1>t, <2>2
<1>7. CASE ~(x.err \/ x.inbox = <<>>) /\ Head(x.inbox)[3] # 0
  <2>e. PICK e : e = Head(x.inbox)
    OBVIOUS
  <2>d. PICK d : d = partner["proxy"][f]
    OBVIOUS
  <2>1. /\ sock' = [sock EXCEPT ![f].inbox = Tail(@)]
        /\ buffer' = [buffer EXCEPT !["net"][d] = Append(@, e)]
        /\ UNCHANGED <<table, type, out, got, partner, pc, cur, msg, tunnels, actualfds>>
    BY <1>1, <1>7, <2>e, <2>d DEF Kept, Destination, world, setup, maps
  <2>2. e \in Datagrams /\ e[1] = On(f)[2]
    BY <1>7, <1>t, <2>e
  <2>3. PICK y \in Socks : y = [x EXCEPT !.inbox = Tail(x.inbox)] /\ y.on = x.on
                           /\ y.inbox = Tail(x.inbox)
    BY <1>7, <1>y
  <2>4. sock' = [sock EXCEPT ![f] = y]
    BY <2>1, <2>3, <1>x
  <2>5. /\ \A g \in Fds : sock'[g].on = sock[g].on /\ Kind(sock'[g]) = Kind(sock[g])
        /\ \A g \in Fds : g # f => sock'[g] = sock[g]
        /\ sock'[f].inbox = Tail(x.inbox)
    BY <1>2, <2>3, <2>4, <1>x DEF Base, Typed, Kind
  <2>6. /\ \A g \in Fds : buffer'["net"][g] = IF g = d THEN Append(buffer["net"][g], e) ELSE buffer["net"][g]
        /\ buffer'["proxy"] = buffer["proxy"]
    BY <2>1 DEF Base, Typed, Sides
  <2>7. Inboxes'
    <3>1. ASSUME NEW g \in Fds
          PROVE  \A j \in DOMAIN sock'[g].inbox : \E k \in DOMAIN sock[g].inbox :
                    sock'[g].inbox[j] = sock[g].inbox[k]
      <4>1. CASE g = f
        BY <4>1, <1>7, <1>t, <1>x, <2>5
      <4>2. CASE g # f
        BY <4>2, <2>5
      <4> QED BY <4>1, <4>2
    <3> QED BY <3>1, <2>1, <2>5, InboxesShrink DEF Apart
  <2>8. Linked' = Linked /\ Fed' = Fed
    BY <2>1, <2>5 DEF Linked, Fed
  <2>9. Setup'
    <3>1. ASSUME NEW k \in DOMAIN tunnels, tunnels[k] # NoFd
          PROVE  LET g == tunnels[k] IN
            /\ out[sock'[g].on[2]] = <<>> /\ buffer'["net"][g] = <<>>
            /\ \A h \in Linked : partner["proxy"][h] # g
      <4>1. /\ tunnels[k] \in Fds
            /\ out[On(tunnels[k])[2]] = <<>> /\ buffer["net"][tunnels[k]] = <<>>
            /\ \A h \in Linked : partner["proxy"][h] # tunnels[k]
        BY <3>1, LinkedFed DEF Apart, Setup
      <4>2. d # tunnels[k]
        BY <4>1, <1>2, <2>d
      <4> QED BY <4>1, <4>2, <2>5, <2>6 DEF On
    <3> QED BY <3>1, <1>1, <2>1, <2>8 DEF Setup, On
  <2>10. Routed'
    <3>1. ASSUME NEW g \in Fds, Kind(sock'[g]) = "tunnel"
          PROVE  \E u \in Peers : IsFor(g, u)'
      <4>1. PICK u \in Peers : IsFor(g, u)
        BY <2>5, <3>1 DEF Apart, Routed
      <4>2. CASE g # d
        BY <4>1, <4>2, <2>1, <2>5, <2>6, <2>8, LinkedFed, IsForKept
      <4>3. CASE g = d
        <5>1. e[1] = u
          BY <4>1, <4>3, <1>2, <2>d, <2>2 DEF IsFor
        <5>2. buffer["net"][g] \in Seq(Datagrams) /\ From(buffer["net"][g], u)
          BY <4>1 DEF Base, Typed, IsFor
        <5>3. From(buffer'["net"][g], u)
          BY <5>1, <5>2, <4>3, <2>2, <2>6, FromMore
        <5>4. From(out'[On(g)[2]], u)
          BY <4>1, <2>1 DEF IsFor
        <5> QED BY <5>3, <5>4, <4>1, <2>1, <2>5, <2>8, LinkedFed, IsForMore
      <4> QED BY <4>2, <4>3
    <3>2. \A r \in Tunnels : \A j \in DOMAIN out'[r] : out'[r][j][1] = Owner(r)'
      BY <2>1 DEF Apart, Routed, Owner
    <3> QED BY <3>1, <3>2 DEF Routed
  <2>11. Replies'
    <3>1. \A h \in Fds : On(h)' = On(h)
      BY <2>5 DEF On
    <3>2. \A w, u : IsReplyTo(w, u)' <=> IsReplyTo(w, u)
      BY <2>1, IsReplyKept
    <3> QED BY <3>1, <3>2, <2>1, <2>5, <2>6 DEF Apart, Replies
  <2> QED BY <2>7, <2>9, <2>10, <2>11 DEF Apart
<1> QED BY <1>5, <1>6, <1>7

\* Frames go to the peer of their tunnel, or to no peer.
LEMMA ReadTunnelApart ==
  ASSUME Base, Base', Apart, NEW i \in Slots, ReadTunnel(i)
  PROVE  Apart'
<1>f. PICK g : g = table["net"].fd[i]
  OBVIOUS
<1>x. PICK x : x = sock[g]
  OBVIOUS
<1>t. PICK t : t = On(g)[2]
  BY Zenon
<1>1. /\ g # NoFd /\ UNCHANGED <<world, setup, maps, inserted>>
      /\ \/ \E n \in 1 .. Len(x.inbox) :
               /\ sock' = [sock EXCEPT ![g].inbox = SubSeq(@, n + 1, Len(@))]
               /\ buffer' = [buffer EXCEPT
                       !["proxy"][Destination("net", g)] = @ \o SubSeq(x.inbox, 1, n)]
               /\ Kept
         \/ x.inbox = <<>> /\ x.down /\ ReadFails("net", i, x)
  BY <1>f, <1>x, Zenon DEF ReadTunnel
<1>2. /\ "net" \in Sides /\ g \in Registered(table["net"]) /\ g \in Fds /\ x \in Socks
      /\ Kind(x) = "tunnel" /\ g \in Fed
  BY <1>1, <1>f, <1>x, Holds, Zenon DEF Sides, KindsOf, Fed
<1>3. x.inbox \in Seq(Frames) /\ InboxesOf(x.on) = Seq(Frames) /\ t \in Tunnels
      /\ From(x.inbox, t) /\ (type = "SERVER" /\ x.inbox # <<>> => out[t] # <<>>)
  BY <1>2, <1>x, <1>t, SockFields, LinkedFed DEF InboxesOf, Kind, Apart, Inboxes
<1>4. CASE ReadFails("net", i, x)
  <2>1. /\ table["net"].fd[i] = g /\ sock[table["net"].fd[i]] = x
        /\ "net" \in Sides /\ x \in Socks /\ g # NoFd
        /\ UNCHANGED <<world, setup, maps, inserted>>
    BY <1>1, <1>2, <1>f, <1>x, Zenon
  <2>2. \A j \in DOMAIN x.inbox : \E k \in DOMAIN sock[table["net"].fd[i]].inbox :
           x.inbox[j] = sock[table["net"].fd[i]].inbox[k]
    BY <2>1, Zenon
  <2>3. table["net"].fd[i] # NoFd /\ x.on = sock[table["net"].fd[i]].on
    BY <2>1, Zenon
  <2> QED BY <1>4, <2>1, <2>2, <2>3, FailApart, ZenonT(30)
<1>5. ASSUME NEW n \in 1 .. Len(x.inbox),
             sock' = [sock EXCEPT ![g].inbox = SubSeq(@, n + 1, Len(@))],
             buffer' = [buffer EXCEPT
                       !["proxy"][Destination("net", g)] = @ \o SubSeq(x.inbox, 1, n)],
             Kept
      PROVE  Apart'
  <2>q. PICK q \in Seq(Frames) : q = SubSeq(x.inbox, 1, n)
    BY <1>3, PartsOf
  <2>r. PICK r \in Seq(Frames) : r = SubSeq(x.inbox, n + 1, Len(x.inbox))
    BY <1>3, PartsOf
  <2>d. PICK d : d = partner["net"][g]
    OBVIOUS
  <2>1. /\ buffer' = [buffer EXCEPT !["proxy"][d] = @ \o q]
        /\ UNCHANGED <<table, type, out, got, partner, pc, cur, msg, tunnels, actualfds>>
    BY <1>1, <1>5, <2>q, <2>d, Zenon DEF Kept, Destination, world, setup, maps
  <2>2. /\ From(q, t) /\ \A j \in DOMAIN r : \E k \in DOMAIN x.inbox : r[j] = x.inbox[k]
    BY <1>3, <2>q, <2>r, PartsOf DEF From
  <2>s. [x EXCEPT !.inbox = r].inbox = r
    BY <1>2, SockFields
  <2>3. PICK y \in Socks : y = [x EXCEPT !.inbox = r] /\ y.on = x.on /\ y.inbox = r
    BY <2>s, <1>2, <1>3, SockChanged
  <2>4. sock' = [sock EXCEPT ![g] = y]
    BY <1>5, <2>3, <2>r, <1>x
  <2>5. /\ \A h \in Fds : sock'[h].on = sock[h].on /\ Kind(sock'[h]) = Kind(sock[h])
        /\ \A h \in Fds : h # g => sock'[h] = sock[h]
        /\ sock'[g].inbox = r
    BY <1>2, <2>3, <2>4, <1>x DEF Base, Typed, Kind
  <2>6. /\ \A h \in Fds : buffer'["proxy"][h] = IF h = d THEN buffer["proxy"][h] \o q ELSE buffer["proxy"][h]
        /\ buffer'["net"] = buffer["net"]
    BY <2>1 DEF Base, Typed, Sides
  <2>7. Inboxes'
    <3>1. ASSUME NEW h \in Fds
          PROVE  \A j \in DOMAIN sock'[h].inbox : \E k \in DOMAIN sock[h].inbox :
                    sock'[h].inbox[j] = sock[h].inbox[k]
      BY <1>x, <2>2, <2>5
    <3> QED BY <3>1, <2>1, <2>5, InboxesShrink DEF Apart
  <2>8. Linked' = Linked /\ Fed' = Fed
    BY <2>1, <2>5 DEF Linked, Fed
  <2>9. Setup'
    <3>1. pc = "bound" => buffer'["proxy"][cur] = <<>>
      <4>1. pc = "bound" => cur \in Fds /\ d # cur /\ buffer["proxy"][cur] = <<>>
        BY <1>2, <2>d DEF Base, Hands, Apart, Setup
      <4> QED BY <4>1, <2>6
    <3>2. \A h \in Fds : On(h)' = On(h)
      BY <2>5 DEF On
    <3>3. \A k \in DOMAIN tunnels : tunnels[k] # NoFd => tunnels[k] \in Fds
      BY LinkedFed
    <3>4. pc \in {"await", "push"} => cur \in Fds
      BY DEF Base, Hands
    <3> QED BY <3>1, <3>2, <3>3, <3>4, <2>1, <2>5, <2>6, <2>8 DEF Apart, Setup
  <2>10. Routed'
    <3>1. ASSUME NEW h \in Fds, Kind(sock'[h]) = "tunnel"
          PROVE  \E u \in Peers : IsFor(h, u)'
      <4>1. PICK u \in Peers : IsFor(h, u)
        BY <2>5, <3>1 DEF Apart, Routed
      <4> QED BY <4>1, <2>1, <2>5, <2>6, <2>8, LinkedFed, IsForKept
    <3>2. \A s \in Tunnels : \A j \in DOMAIN out'[s] : out'[s][j][1] = Owner(s)'
      BY <2>1 DEF Apart, Routed, Owner
    <3> QED BY <3>1, <3>2 DEF Routed
  <2>11. Replies'
    <3>1. \A w, u : IsReplyTo(w, u)' <=> IsReplyTo(w, u)
      BY <2>1, IsReplyKept
    <3>2. ASSUME NEW h \in Fds, Kind(sock[h]) = "peer"
          PROVE  \A j \in DOMAIN buffer'["proxy"][h] : IsReplyTo(buffer'["proxy"][h][j], On(h)[2])
      <4>1. \A j \in DOMAIN buffer["proxy"][h] : IsReplyTo(buffer["proxy"][h][j], On(h)[2])
        BY <3>2 DEF Apart, Replies
      <4>2. CASE h # d
        BY <4>1, <4>2, <2>6
      <4>3. CASE h = d
        <5>1. PICK u \in Peers : IsFor(g, u)
          BY <1>2, <1>x DEF Apart, Routed
        <5>2. On(h)[2] = u
          BY <5>1, <4>3, <3>2, <1>2, <2>d DEF IsFor
        <5>3. (type = "SERVER" => out[t] # <<>>) /\ Owner(t) = u
          <6>1. type \in {"SERVER", "CLIENT"} /\ out[t] \in Seq(Datagrams)
            BY <1>3, Constants DEF Base, Typed
          <6>2. CASE type = "CLIENT"
            BY <6>2, <5>1, <1>t DEF IsFor, Owner
          <6>3. CASE type = "SERVER"
            <7>1. out[t] # <<>> /\ From(out[t], u)
              BY <6>3, <5>1, <1>3, <1>t DEF IsFor
            <7>2. 1 \in DOMAIN out[t]
              BY <7>1, <6>1
            <7> QED BY <7>1, <7>2, <6>3 DEF From, Owner
          <6> QED BY <6>1, <6>2, <6>3
        <5>4. \A j \in DOMAIN q : IsReplyTo(q[j], u)
          BY <5>3, <2>2 DEF From, IsReplyTo
        <5>5. \A j \in DOMAIN (buffer["proxy"][h] \o q) :
                 \/ j \in DOMAIN buffer["proxy"][h] /\ (buffer["proxy"][h] \o q)[j] = buffer["proxy"][h][j]
                 \/ \E k \in DOMAIN q : (buffer["proxy"][h] \o q)[j] = q[k]
          <6>1. buffer["proxy"][h] \in Seq(Frames)
            BY DEF Base, Typed
          <6> QED BY <6>1, Joined
        <5> QED BY <5>2, <5>4, <5>5, <4>1, <4>3, <2>6, ZenonT(40)
      <4> QED BY <4>2, <4>3
    <3>3. \A h \in Fds : On(h)' = On(h)
      BY <2>5 DEF On
    <3> QED BY <3>1, <3>2, <3>3, <2>1, <2>5 DEF Apart, Replies
  <2> QED BY <2>7, <2>9, <2>10, <2>11 DEF Apart
<1> QED BY <1>1, <1>4, <1>5
\* The front of a peer's buffer goes to the peer.
LEMMA WritePeerApart ==
  ASSUME Base, Base', Apart, NEW i \in Slots, WritePeer(i)
  PROVE  Apart'
<1>f. PICK f : f = table["proxy"].fd[i]
  OBVIOUS
<1>x. PICK x : x = sock[f]
  OBVIOUS
<1>1. /\ f # NoFd /\ buffer["proxy"][f] # <<>> /\ Pop("proxy", f) /\ pc = "loop"
      /\ \/ /\ x.on[1] = "peer"
            /\ got' = [got EXCEPT ![x.on[2]] = Append(@, Head(buffer["proxy"][f]))]
            /\ \E e \in BOOLEAN : sock' = [sock EXCEPT ![f].err = e]
         \/ /\ sock' = [sock EXCEPT ![f].err = FALSE]
            /\ UNCHANGED got
      /\ UNCHANGED <<type, out, table, pc, cur, msg, tunnels, partner, actualfds>>
  BY <1>f, <1>x, Zenon DEF WritePeer, setup, maps
<1>2. /\ "proxy" \in Sides /\ "net" \in Sides /\ f \in Fds /\ x \in Socks
  BY <1>1, <1>f, <1>x, Holds, Zenon DEF Sides
<1>3. /\ \A g \in Fds : buffer'["proxy"][g] = IF g = f THEN Tail(buffer["proxy"][g]) ELSE buffer["proxy"][g]
      /\ buffer'["net"] = buffer["net"]
      /\ buffer["proxy"][f] \in Seq(Frames)
  BY <1>1, <1>2, Popped DEF Base, Typed
<1>4. /\ \A g \in Fds : sock'[g].on = sock[g].on /\ Kind(sock'[g]) = Kind(sock[g])
      /\ \A g \in Fds : sock'[g].inbox = sock[g].inbox
  <2>1. PICK e \in BOOLEAN : sock' = [sock EXCEPT ![f].err = e]
    BY <1>1
  <2>2. [x EXCEPT !.err = e].on = x.on /\ [x EXCEPT !.err = e].inbox = x.inbox
    BY <1>2, SockFields
  <2>3. sock' = [sock EXCEPT ![f] = [x EXCEPT !.err = e]]
    BY <2>1, <1>x
  <2> QED BY <2>2, <2>3, <1>2, <1>x DEF Kind, Base, Typed
<1>5. Linked' = Linked /\ Fed' = Fed
  BY <1>1, <1>4 DEF Linked, Fed
<1>6. \A g \in Fds : On(g)' = On(g)
  BY <1>4 DEF On
<1>7. \A w, u : IsReplyTo(w, u)' <=> IsReplyTo(w, u)
  BY <1>1, IsReplyKept
<1>8. Inboxes'
  BY <1>1, <1>4, <1>6 DEF Apart, Inboxes
<1>9. Setup'
  <2>1. \A k \in DOMAIN tunnels : tunnels[k] # NoFd => tunnels[k] \in Fds
    BY LinkedFed
  <2> QED BY <2>1, <1>1, <1>3, <1>5, <1>6 DEF Apart, Setup
<1>10. Routed'
  <2>1. ASSUME NEW h \in Fds, Kind(sock'[h]) = "tunnel"
        PROVE  \E u \in Peers : IsFor(h, u)'
    <3>1. PICK u \in Peers : IsFor(h, u)
      BY <1>4, <2>1 DEF Apart, Routed
    <3> QED BY <3>1, <1>1, <1>3, <1>4, <1>5, LinkedFed, IsForKept
  <2>2. \A s \in Tunnels : \A j \in DOMAIN out'[s] : out'[s][j][1] = Owner(s)'
    BY <1>1 DEF Apart, Routed, Owner
  <2> QED BY <2>1, <2>2 DEF Routed
<1>11. Replies'
  <2>1. \A g \in Fds : \A j \in DOMAIN buffer'["proxy"][g] :
           \E k \in DOMAIN buffer["proxy"][g] : buffer'["proxy"][g][j] = buffer["proxy"][g][k]
    <3>q. PICK q : q = Tail(buffer["proxy"][f])
      OBVIOUS
    <3>1. \A j \in DOMAIN q : \E k \in DOMAIN buffer["proxy"][f] : q[j] = buffer["proxy"][f][k]
      BY <1>1, <1>3, <3>q, TailFields
    <3>2. ASSUME NEW g \in Fds
          PROVE  \A j \in DOMAIN buffer'["proxy"][g] :
                    \E k \in DOMAIN buffer["proxy"][g] : buffer'["proxy"][g][j] = buffer["proxy"][g][k]
      <4>1. CASE g = f
        <5>1. buffer'["proxy"][g] = q
          BY <4>1, <1>2, <1>3, <3>q
        <5> QED BY <5>1, <3>1, <4>1
      <4>2. CASE g # f
        BY <4>2, <1>3
      <4> QED BY <4>1, <4>2
    <3> QED BY <3>2
  <2>2. \A g \in Fds : Kind(sock'[g]) = "peer" =>
           \A j \in DOMAIN buffer'["proxy"][g] : IsReplyTo(buffer'["proxy"][g][j], On(g)[2])
    BY <2>1, <1>4 DEF Apart, Replies
  <2>3. \A u \in Peers : \A j \in DOMAIN got'[u] : IsReplyTo(got'[u][j], u)
    <3>1. CASE UNCHANGED got
      BY <3>1 DEF Apart, Replies
    <3>2. CASE /\ x.on[1] = "peer"
               /\ got' = [got EXCEPT ![x.on[2]] = Append(@, Head(buffer["proxy"][f]))]
      <4>e. PICK e : e = Head(buffer["proxy"][f])
        OBVIOUS
      <4>w. PICK w : w = x.on[2]
        OBVIOUS
      <4>1. w \in Peers /\ got \in [Peers -> Seq(Frames)] /\ e \in Frames
        BY <3>2, <1>1, <1>2, <1>3, <4>e, <4>w, SockFields, WhatFields, TailFields DEF Base, Typed
      <4>2. IsReplyTo(e, w)
        <5>1. e = buffer["proxy"][f][1] /\ 1 \in DOMAIN buffer["proxy"][f]
          BY <1>1, <1>3, <4>e, TailFields
        <5>2. Kind(sock[f]) = "peer" /\ On(f)[2] = w
          BY <3>2, <1>x, <4>w DEF Kind, On
        <5> QED BY <5>1, <5>2, <1>2 DEF Apart, Replies
      <4>3. /\ \A u \in Peers : u # w => got'[u] = got[u]
            /\ got'[w] = Append(got[w], e)
        BY <3>2, <4>e, <4>w, <4>1
      <4>4. \A j \in DOMAIN got'[w] : got'[w][j] = IF j \in DOMAIN got[w] THEN got[w][j] ELSE e
        BY <4>1, <4>3, AppendFields
      <4> QED BY <4>1, <4>2, <4>3, <4>4 DEF Apart, Replies
    <3> QED BY <3>1, <3>2, <1>1
  <2> QED BY <2>2, <2>3, <1>6, <1>7 DEF Replies
<1> QED BY <1>8, <1>9, <1>10, <1>11, Zenon DEF Apart

\* The front of a tunnel's buffer goes to the tunnel.
LEMMA WriteTunnelApart ==
  ASSUME Base, Base', Apart, NEW i \in Slots, WriteTunnel(i)
  PROVE  Apart'
<1>f. PICK g : g = table["net"].fd[i]
  OBVIOUS
<1>t. PICK t : t = On(g)[2]
  OBVIOUS
<1>e. PICK e : e = Head(buffer["net"][g])
  BY Zenon
<1>1. /\ g # NoFd /\ buffer["net"][g] # <<>>
      /\ \/ /\ Pop("net", g)
            /\ UNCHANGED out \/ out' = [out EXCEPT ![t] = Append(@, e)]
         \/ UNCHANGED <<buffer, out>>
      /\ UNCHANGED <<type, got, sock, table, pc, cur, msg, tunnels, partner, actualfds>>
  BY <1>f, <1>t, <1>e, Zenon DEF WriteTunnel, setup, maps
<1>2. /\ "net" \in Sides /\ "proxy" \in Sides /\ g \in Registered(table["net"]) /\ g \in Fds
      /\ Kind(sock[g]) = "tunnel" /\ g \in Fed
  BY <1>1, <1>f, Holds DEF Sides, KindsOf, Fed
<1>3. t \in Tunnels /\ On(g) = <<"tunnel", t>> /\ buffer["net"][g] \in Seq(Datagrams)
      /\ out \in [Tunnels -> Seq(Datagrams)]
  BY <1>2, <1>t, LinkedFed DEF Base, Typed
<1>4. \A h \in Fds : Kind(sock[h]) = "tunnel" /\ h # g => On(h)[2] \in Tunnels /\ On(h)[2] # t
  BY <1>2, <1>3, LinkedFed DEF Base, OneEach
<1>u. PICK u \in Peers : IsFor(g, u)
  BY <1>2 DEF Apart, Routed
<1>5. /\ From(buffer["net"][g], u) /\ From(out[t], u) /\ (type = "CLIENT" => u = t)
  BY <1>u, <1>t DEF IsFor
<1>6. /\ \A h \in Fds : h # g => buffer'["net"][h] = buffer["net"][h]
      /\ From(buffer'["net"][g], u)
      /\ buffer'["proxy"] = buffer["proxy"]
      /\ e \in Datagrams /\ e[1] = u
  <2>1. e \in Datagrams /\ e[1] = u /\ From(Tail(buffer["net"][g]), u)
    BY <1>1, <1>e, <1>3, <1>5, FromMore, TailFields
  <2>2. CASE Pop("net", g)
    BY <2>1, <2>2, <1>1, <1>2, Popped
  <2>3. CASE UNCHANGED buffer
    BY <2>1, <2>3, <1>5
  <2> QED BY <2>2, <2>3, <1>1
<1>7. /\ \A r \in Tunnels : r # t => out'[r] = out[r]
      /\ From(out'[t], u)
      /\ out[t] # <<>> => out'[t] # <<>> /\ out'[t][1] = out[t][1]
  <2>1. CASE UNCHANGED out
    BY <2>1, <1>5
  <2>2. CASE out' = [out EXCEPT ![t] = Append(@, e)]
    <3>1. out'[t] = Append(out[t], e) /\ \A r \in Tunnels : r # t => out'[r] = out[r]
      BY <2>2, <1>3
    <3>2. From(out'[t], u)
      BY <3>1, <1>3, <1>5, <1>6, FromMore
    <3>3. out[t] # <<>> => out'[t] # <<>> /\ out'[t][1] = out[t][1]
      BY <3>1, <1>3, <1>6
    <3> QED BY <3>1, <3>2, <3>3
  <2> QED BY <2>1, <2>2, <1>1
<1>8. Linked' = Linked /\ Fed' = Fed /\ \A h : On(h)' = On(h)
  BY <1>1 DEF Linked, Fed, On
<1>9. \A w \in Frames : \A v : IsReplyTo(w, v) => IsReplyTo(w, v)'
  <2>1. ASSUME NEW w \in Frames, NEW v, IsReplyTo(w, v)
        PROVE  IsReplyTo(w, v)'
    <3>r. PICK r \in Tunnels : r = w[1]
      BY DEF Frames
    <3>0. type \in {"SERVER", "CLIENT"}
      BY Constants DEF Base, Typed
    <3>1. /\ type = "SERVER" => out[r] # <<>>
          /\ v = IF type = "CLIENT" THEN r ELSE out[r][1][1]
      BY <2>1, <3>r DEF IsReplyTo, Owner
    <3>2. /\ type = "SERVER" => out'[r] # <<>>
          /\ v = IF type = "CLIENT" THEN r ELSE out'[r][1][1]
      BY <3>0, <3>1, <1>7
    <3> QED BY <3>2, <3>r, <1>1 DEF IsReplyTo, Owner
  <2> QED BY <2>1
<1>10. Inboxes'
  <2>1. \A h \in Fds : Kind(sock[h]) = "tunnel" /\ out[On(h)[2]] # <<>> => out'[On(h)[2]] # <<>>
    BY <1>4, <1>7, <1>t
  <2> QED BY <2>1, <1>1, <1>8 DEF Apart, Inboxes
<1>11. Setup'
  <2>1. ASSUME NEW k \in DOMAIN tunnels, tunnels[k] # NoFd
        PROVE  LET h == tunnels[k] IN
                  out'[On(h)[2]] = out[On(h)[2]] /\ buffer'["net"][h] = buffer["net"][h]
    <3>1. tunnels[k] \in Fds /\ Kind(sock[tunnels[k]]) = "tunnel" /\ tunnels[k] # g
      BY <2>1, <1>2, LinkedFed
    <3> QED BY <3>1, <1>4, <1>6, <1>7
  <2> QED BY <2>1, <1>1, <1>6, <1>8 DEF Apart, Setup
<1>12. Routed'
  <2>1. ASSUME NEW h \in Fds, Kind(sock[h]) = "tunnel"
        PROVE  \E v \in Peers : IsFor(h, v)'
    <3>1. CASE h = g
      <4>1. From(out'[On(g)[2]], u)
        BY <1>7, <1>t
      <4> QED BY <4>1, <3>1, <1>u, <1>1, <1>2, <1>6, <1>8, IsForMore
    <3>2. CASE h # g
      <4>1. PICK v \in Peers : IsFor(h, v)
        BY <2>1 DEF Apart, Routed
      <4>2. out'[On(h)[2]] = out[On(h)[2]] /\ buffer'["net"][h] = buffer["net"][h]
        BY <2>1, <3>2, <1>4, <1>6, <1>7
      <4> QED BY <4>1, <4>2, <1>1, <1>8, IsForKept
    <3> QED BY <3>1, <3>2
  <2>2. ASSUME NEW r \in Tunnels, NEW j \in DOMAIN out'[r]
        PROVE  out'[r][j][1] = Owner(r)'
    <3>1. CASE r # t
      BY <2>2, <3>1, <1>1, <1>7 DEF Apart, Routed, Owner
    <3>2. CASE r = t
      <4>1. out'[t][j][1] = u
        BY <2>2, <3>2, <1>7 DEF From
      <4>2. type = "CLIENT" => Owner(t)' = u
        BY <1>1, <1>5 DEF Owner
      <4>3. type # "CLIENT" => Owner(t)' = u
        <5>1. 1 \in DOMAIN out'[t]
          <6>1. out'[t] \in Seq(Datagrams)
            BY <1>3 DEF Base, Typed
          <6> QED BY <6>1, <2>2, <3>2
        <5>2. out'[t][1][1] = u
          BY <5>1, <1>7 DEF From
        <5> QED BY <5>2, <1>1 DEF Owner
      <4> QED BY <4>1, <4>2, <4>3, <3>2
    <3> QED BY <3>1, <3>2
  <2> QED BY <2>1, <2>2, <1>1 DEF Routed
<1>13. Replies'
  <2>1. /\ \A h \in Fds : buffer["proxy"][h] \in Seq(Frames)
        /\ \A v \in Peers : got[v] \in Seq(Frames)
    BY DEF Base, Typed
  <2>2. /\ \A h \in Fds : \A j \in DOMAIN buffer["proxy"][h] : buffer["proxy"][h][j] \in Frames
        /\ \A v \in Peers : \A j \in DOMAIN got[v] : got[v][j] \in Frames
    BY <2>1
  <2> QED BY <2>2, <1>1, <1>6, <1>8, <1>9 DEF Apart, Replies
<1> QED BY <1>10, <1>11, <1>12, <1>13 DEF Apart

\* At the start nothing is anywhere.
LEMMA InitApart == Init => Apart
<1> SUFFICES ASSUME Init PROVE Apart
  OBVIOUS
<1>1. \A f \in Fds : Kind(sock[f]) \notin {"peer", "tunnel", "bound"}
  BY NewSocks DEF Init
<1>2. Inboxes
  BY <1>1 DEF Init, Inboxes
<1>3. Setup
  BY DEF Init, Setup
<1>4. Routed
  BY <1>1 DEF Init, Routed
<1>5. Replies
  BY <1>1 DEF Init, Replies
<1> QED BY <1>2, <1>3, <1>4, <1>5 DEF Apart

\* What went wrong has gone wrong.
LEMMA SeenGrows == [Next]_vars => seen \subseteq seen'
<1> SUFFICES ASSUME [Next]_vars PROVE seen \subseteq seen'
  OBVIOUS
<1>1. CASE UNCHANGED vars
  BY <1>1 DEF vars
<1>2. CASE \E u \in Peers : Arrive(u)
  BY <1>2 DEF Arrive
<1>3. CASE Tunnel \/ NoClient
  BY <1>3 DEF Tunnel, NoClient
<1>4. CASE \E f \in Fds : Frame(f)
  BY <1>4 DEF Frame
<1>5. CASE Start \/ ConnectUser \/ InsertPeer \/ TakeTunnel
  BY <1>5 DEF Start, ConnectUser, InsertPeer, TakeTunnel, InsertInto
<1>6. CASE Receive
  BY <1>6 DEF Receive
<1>7. CASE TakePromise
  BY <1>7 DEF TakePromise
<1>8. CASE Push \/ Dispatch
  BY <1>8, Zenon DEF Push, Dispatch
<1>9. CASE \E i \in Slots : ReadPeer(i)
  BY <1>9, Zenon DEF ReadPeer, ReadFails, Kept
<1>10. CASE \E i \in Slots : ReadTunnel(i)
  BY <1>10, Zenon DEF ReadTunnel, ReadFails, Kept
<1>11. CASE \E i \in Slots : WritePeer(i) \/ WriteTunnel(i)
  BY <1>11, Zenon DEF WritePeer, WriteTunnel
<1> QED BY <1>1, <1>2, <1>3, <1>4, <1>5, <1>6, <1>7, <1>8, <1>9, <1>10, <1>11
        DEF Next, ProxyThread, NetThread

LEMMA CleanBefore == [Next]_vars /\ Clean' => Clean
  BY SeenGrows DEF Clean

\* Every step keeps the invariant.
LEMMA NextIInv == IInv /\ [Next]_vars => IInv'
<1> SUFFICES ASSUME Base, Clean => Apart, [Next]_vars PROVE IInv'
  BY DEF IInv
<1>1. Base'
  BY NextBase
<1>2. SUFFICES ASSUME Clean' PROVE Apart'
  BY <1>1 DEF IInv
<1>3. Apart
  BY <1>2, CleanBefore
<1>4. CASE UNCHANGED vars
  BY <1>3, <1>4, SMTT(30) DEF vars, world, setup, maps, Apart, Inboxes, Setup, Routed, Replies,
                    IsFor, IsReplyTo, Owner, Linked, Fed, On, From
<1>5. CASE \E u \in Peers : Arrive(u)
  BY <1>1, <1>2, <1>3, <1>5, ArriveApart
<1>6. CASE Tunnel \/ NoClient \/ \E f \in Fds : Frame(f)
  BY <1>1, <1>2, <1>3, <1>6, TunnelApart, NoClientApart, FrameApart
<1>7. CASE Start \/ Receive \/ ConnectUser \/ TakePromise
  BY <1>1, <1>2, <1>3, <1>7, InsertApart, ReceiveApart, ConnectUserApart, TakePromiseApart
<1>8. CASE Push \/ Dispatch \/ InsertPeer \/ \E i \in Slots : ReadPeer(i) \/ WritePeer(i)
  BY <1>1, <1>2, <1>3, <1>8, PushApart, DispatchApart, InsertApart, ReadPeerApart, WritePeerApart
<1>9. CASE NetThread
  BY <1>1, <1>3, <1>9, TakeTunnelApart, ReadTunnelApart, WriteTunnelApart DEF NetThread
<1> QED BY <1>4, <1>5, <1>6, <1>7, <1>8, <1>9 DEF Next, ProxyThread

\* Until something went wrong, what waits on a socket, in a buffer or in a
\* map belongs to the one peer of its tunnel.
THEOREM Invariance == Spec => []IInv
<1>1. Init => IInv
  BY InitBase, InitApart DEF IInv
<1> QED BY <1>1, NextIInv, PTL DEF Spec

\* No datagram of the UDP relay reaches a stranger: a tunnel takes those of
\* one peer, and its replies go to that peer - as long as no number is given
\* out again that the maps or buffers still mention, and no datagram of
\* another user comes to a socket before connect.
THEOREM NothingMixed == Spec => []NoMixing
<1>1. IInv => NoMixing
  BY DEF IInv, Apart, Routed, Replies, IsReplyTo, Clean, NoMixing
<1> QED BY <1>1, Invariance, PTL
-----------------------------------------------------------------------------
(* In which order, and how often.                                          *)

\* What p has of a sender is older than what q has of it.
Less(p, q) == \A i \in DOMAIN p, j \in DOMAIN q : p[i][1] = q[j][1] => p[i][2] < q[j][2]
None(q, t) == \A i \in DOMAIN q : q[i][1] # t
Foreign(p, q) == \A i \in DOMAIN p, j \in DOMAIN q : p[i][1] # q[j][1]

\* A run of a sequence, at any place of it.
Part(r, q) == \E d \in Nat : \A i \in DOMAIN r : i + d \in DOMAIN q /\ r[i] = q[i + d]

\* Where units can be.
Places == ({"in", "net", "proxy"} \X Fds) \cup ({"out"} \X Tunnels)
             \cup ({"got"} \X Peers) \cup {<<"hand", 0>>}
QueuesOf(s, b, o, g, h) ==
    [p \in Places |-> CASE p[1] = "in" -> s[p[2]].inbox
                        [] p[1] = "net" -> b["net"][p[2]]
                        [] p[1] = "proxy" -> b["proxy"][p[2]]
                        [] p[1] = "out" -> o[p[2]]
                        [] p[1] = "got" -> g[p[2]]
                        [] OTHER -> h]
Hand == IF pc \in {"bound", "await", "push"} THEN <<msg>> ELSE <<>>
Queues == QueuesOf(sock, buffer, out, got, Hand)

\* No unit is in two places, and all have been sent.
SentBy(e, s, a) == IF e \in Datagrams THEN e[2] <= s[e[1]] ELSE e[2] <= a[e[1]]
Numbered == \A p \in Places : \A i \in DOMAIN Queues[p] : SentBy(Queues[p][i], sent, asked)
Counted == Once(Queues) /\ Numbered

\* No frame of tunnel t was read.
Unheard(t) == /\ \A f \in Fds : None(buffer["proxy"][f], t)
              /\ \A u \in Peers : None(got[u], t)

\* What waits at a socket is younger than what was read from it.
Inflow ==
    /\ \A f \in Fds : InOrder(sock[f].inbox)
    /\ pc \in {"bound", "await", "push"} /\ Kind(sock[cur]) \in {"bound", "peer"} =>
          Less(Hand, sock[cur].inbox)
    /\ \A g \in Fds : Kind(sock[g]) = "tunnel" =>
          /\ From(sock[g].inbox, On(g)[2])
          /\ \A f \in Fds : Less(buffer["proxy"][f], sock[g].inbox)
          /\ \A u \in Peers : Less(got[u], sock[g].inbox)
    /\ \A i \in DOMAIN tunnels : tunnels[i] # NoFd =>
          Unheard(On(tunnels[i])[2])

\* Nothing went to the tunnel on descriptor g.
Unused(g) == out[On(g)[2]] = <<>> /\ buffer["net"][g] = <<>>

\* A socket and a tunnel that take each other's units, or will.
IsTunnel(g) == g \in Fds /\ Kind(sock[g]) = "tunnel"
IsUser(f) == f \in Fds /\ Kind(sock[f]) \in {"bound", "peer"}
Coupling ==
    /\ \A f \in Linked : LET g == partner["proxy"][f] IN
          IsTunnel(g) => g \in Fed /\ partner["net"][g] = f
    /\ pc = "push" => LET g == partner["proxy"][cur] IN
          IsTunnel(g) => g \in Fed /\ partner["net"][g] = cur
    /\ pc = "bound" => /\ buffer["proxy"][cur] = <<>>
                       /\ \A g \in Fed : partner["net"][g] # cur
    /\ pc \in {"bound", "push"} /\ type = "CLIENT" => partner["proxy"][cur] = NoFd
    /\ \A i \in DOMAIN tunnels : tunnels[i] # NoFd =>
          Unused(tunnels[i])

\* From the sockets to the tunnels.
Outward ==
    /\ \A t \in Tunnels : InOrder(out[t])
    /\ \A g \in Fds : Kind(sock[g]) = "tunnel" =>
          InOrder(buffer["net"][g]) /\ Less(out[On(g)[2]], buffer["net"][g])
    /\ \A f \in Linked : LET g == partner["proxy"][f] IN
          IsTunnel(g) => /\ Less(out[On(g)[2]], sock[f].inbox)
                         /\ Less(buffer["net"][g], sock[f].inbox)
    /\ pc = "push" => LET g == partner["proxy"][cur] IN
          IsTunnel(g) => Less(out[On(g)[2]], Hand) /\ Less(buffer["net"][g], Hand)

\* From the tunnels to the sockets.
Homeward ==
    /\ \A u \in Peers : InOrder(got[u])
    /\ \A f \in Fds : IsUser(f) =>
          /\ InOrder(buffer["proxy"][f])
          /\ Kind(sock[f]) = "peer" => Less(got[On(f)[2]], buffer["proxy"][f])
          /\ \A g \in Fed : partner["net"][g] # f => None(buffer["proxy"][f], On(g)[2])
          /\ \A h \in Fds \ {f} : IsUser(h) => Foreign(buffer["proxy"][f], buffer["proxy"][h])

Unstale == "stale" \notin seen
Queued == Counted /\ Inflow /\ (Unstale => Coupling /\ Outward /\ Homeward)
-----------------------------------------------------------------------------
(* Sequences.                                                              *)

\* Runs of a sequence.
LEMMA Parts ==
  ASSUME NEW S, NEW q \in Seq(S)
  PROVE  /\ Part(q, q) /\ Part(<<>>, q)
         /\ q # <<>> => Part(Tail(q), q)
         /\ \A n \in 1 .. Len(q) : Part(SubSeq(q, n + 1, Len(q)), q)
<1>0. 0 \in Nat /\ 1 \in Nat
  OBVIOUS
<1>1. \A i \in DOMAIN q : i + 0 \in DOMAIN q /\ q[i] = q[i + 0]
  OBVIOUS
<1>2. Part(q, q)
  BY <1>0, <1>1 DEF Part
<1>3. Part(<<>>, q)
  BY <1>0 DEF Part
<1>4. q # <<>> => Part(Tail(q), q)
  BY <1>0, TailFields DEF Part
<1>5. ASSUME NEW n \in 1 .. Len(q)
      PROVE  Part(SubSeq(q, n + 1, Len(q)), q)
  <2>1. n \in Nat /\ \A i \in DOMAIN SubSeq(q, n + 1, Len(q)) :
           i + n \in DOMAIN q /\ SubSeq(q, n + 1, Len(q))[i] = q[i + n]
    BY PartsOf
  <2> QED BY <2>1 DEF Part
<1> QED BY <1>2, <1>3, <1>4, <1>5

\* What holds of a sequence holds of its runs.
LEMMA PartKeeps ==
  ASSUME NEW S, NEW q \in Seq(S), NEW r \in Seq(S), Part(r, q)
  PROVE  /\ InOrder(q) => InOrder(r)
         /\ q = <<>> => r = <<>>
         /\ \A t : None(q, t) => None(r, t)
         /\ \A t : From(q, t) => From(r, t)
         /\ \A i \in DOMAIN r : \E j \in DOMAIN q : r[i] = q[j]
<1>1. PICK d \in Nat : \A i \in DOMAIN r : i + d \in DOMAIN q /\ r[i] = q[i + d]
  BY DEF Part
<1>2. InOrder(q) => InOrder(r)
  <2>1. \A i, j \in DOMAIN r : i < j => i + d < j + d
    OBVIOUS
  <2> QED BY <1>1, <2>1 DEF InOrder
<1>3. q = <<>> => r = <<>>
  <2>0. q = <<>> => DOMAIN q = {}
    OBVIOUS
  <2>1. q = <<>> => DOMAIN r = {}
    BY <1>1, <2>0
  <2>2. DOMAIN r = {} => r = <<>>
    OBVIOUS
  <2> QED BY <2>1, <2>2
<1> QED BY <1>1, <1>2, <1>3 DEF None, From

\* Runs of an older and a younger sequence.
LEMMA PartLess ==
  ASSUME NEW q1, NEW r1, Part(r1, q1), NEW q2, NEW r2, Part(r2, q2), Less(q1, q2)
  PROVE  Less(r1, r2)
  BY DEF Part, Less

\* Units go from a to the end of q, which becomes r, and a becomes b.
Joins(q, a, n, r, b) ==
    n \in 1 .. Len(a) /\ r = q \o SubSeq(a, 1, n) /\ b = SubSeq(a, n + 1, Len(a))

\* What is where then.
LEMMA Joining ==
  ASSUME NEW q \in Seq(Units), NEW a \in Seq(Units), NEW n, NEW r, NEW b, Joins(q, a, n, r, b)
  PROVE  /\ n \in Nat /\ r \in Seq(Units) /\ b \in Seq(Units) /\ Len(q) \in Nat
         /\ \A i \in DOMAIN r :
               \/ i \in DOMAIN q /\ r[i] = q[i]
               \/ i \notin DOMAIN q /\ i - Len(q) \in DOMAIN a /\ i - Len(q) <= n
                  /\ r[i] = a[i - Len(q)]
         /\ \A i \in DOMAIN q : i <= Len(q)
         /\ \A i \in DOMAIN b : n + i \in DOMAIN a /\ n < n + i /\ b[i] = a[n + i]
<1>0. n \in 1 .. Len(a) /\ r = q \o SubSeq(a, 1, n) /\ b = SubSeq(a, n + 1, Len(a))
  BY DEF Joins
<1>1. /\ SubSeq(a, 1, n) \in Seq(Units) /\ Len(SubSeq(a, 1, n)) = n
      /\ \A i \in 1 .. n : SubSeq(a, 1, n)[i] = a[i] /\ i \in DOMAIN a
  BY <1>0
<1>2. /\ b \in Seq(Units) /\ n \in Nat
      /\ \A i \in DOMAIN b : n + i \in DOMAIN a /\ n < n + i /\ b[i] = a[n + i]
  BY <1>0
<1>3. PICK c \in Seq(Units) : c = SubSeq(a, 1, n)
  BY <1>1
<1>4. /\ r \in Seq(Units) /\ Len(q) \in Nat
      /\ \A i \in DOMAIN r : \/ i \in DOMAIN q /\ r[i] = q[i]
                             \/ i \notin DOMAIN q /\ i - Len(q) \in 1 .. Len(c) /\ r[i] = c[i - Len(q)]
      /\ \A i \in DOMAIN q : i <= Len(q)
  BY <1>0, <1>3
<1> QED BY <1>1, <1>2, <1>3, <1>4

\* The order of such sequences.
LEMMA JoinLess ==
  ASSUME NEW q \in Seq(Units), NEW a \in Seq(Units), NEW n, NEW r, NEW b, Joins(q, a, n, r, b)
  PROVE  /\ r \in Seq(Units) /\ b \in Seq(Units)
         /\ \A p : Less(p, q) /\ Less(p, a) => Less(p, r)
         /\ \A p : Less(q, p) /\ Less(a, p) => Less(r, p)
         /\ InOrder(a) /\ Less(q, a) => Less(r, b)
         /\ InOrder(q) /\ InOrder(a) /\ Less(q, a) => InOrder(r)
         /\ \A t : None(q, t) /\ None(a, t) => None(r, t)
<1>1. /\ n \in Nat /\ r \in Seq(Units) /\ b \in Seq(Units) /\ Len(q) \in Nat
      /\ \A i \in DOMAIN r :
               \/ i \in DOMAIN q /\ r[i] = q[i]
               \/ i \notin DOMAIN q /\ i - Len(q) \in DOMAIN a /\ i - Len(q) <= n
                  /\ r[i] = a[i - Len(q)]
      /\ \A i \in DOMAIN q : i <= Len(q)
      /\ \A i \in DOMAIN b : n + i \in DOMAIN a /\ n < n + i /\ b[i] = a[n + i]
  BY Joining
<1>2. ASSUME NEW p, Less(p, q), Less(p, a), NEW i \in DOMAIN p, NEW j \in DOMAIN r,
             p[i][1] = r[j][1]
      PROVE  p[i][2] < r[j][2]
  <2>1. \/ j \in DOMAIN q /\ r[j] = q[j]
        \/ j - Len(q) \in DOMAIN a /\ r[j] = a[j - Len(q)]
    BY <1>1
  <2> QED BY <1>2, <2>1 DEF Less
<1>3. ASSUME NEW p, Less(q, p), Less(a, p), NEW i \in DOMAIN r, NEW j \in DOMAIN p,
             r[i][1] = p[j][1]
      PROVE  r[i][2] < p[j][2]
  <2>1. \/ i \in DOMAIN q /\ r[i] = q[i]
        \/ i - Len(q) \in DOMAIN a /\ r[i] = a[i - Len(q)]
    BY <1>1
  <2> QED BY <1>3, <2>1 DEF Less
<1>4. ASSUME InOrder(a), Less(q, a), NEW i \in DOMAIN r, NEW j \in DOMAIN b, r[i][1] = b[j][1]
      PROVE  r[i][2] < b[j][2]
  <2>1. CASE i \in DOMAIN q /\ r[i] = q[i]
    BY <1>1, <1>4, <2>1 DEF Less
  <2>2. CASE i - Len(q) \in DOMAIN a /\ i - Len(q) <= n /\ r[i] = a[i - Len(q)]
    <3>1. n + j \in DOMAIN a /\ b[j] = a[n + j] /\ i - Len(q) < n + j
      <4>1. i \in Nat /\ j \in Nat /\ n \in Nat /\ n + j \in DOMAIN a /\ n < n + j /\ b[j] = a[n + j]
        BY <1>1
      <4> QED BY <4>1, <2>2, <1>1
    <3> QED BY <2>2, <3>1, <1>4 DEF InOrder
  <2> QED BY <2>1, <2>2, <1>1
<1>5. ASSUME InOrder(q), InOrder(a), Less(q, a),
             NEW i \in DOMAIN r, NEW j \in DOMAIN r, i < j, r[i][1] = r[j][1]
      PROVE  r[i][2] < r[j][2]
  <2>0. i \in Nat /\ j \in Nat /\ DOMAIN q = 1 .. Len(q)
    BY <1>1
  <2>1. CASE j \in DOMAIN q
    <3>1. i \in DOMAIN q
      BY <2>0, <2>1, <1>5, <1>1
    <3>2. r[i] = q[i] /\ r[j] = q[j]
      BY <1>1, <2>1, <3>1
    <3> QED BY <3>1, <3>2, <2>1, <1>5 DEF InOrder
  <2>2. CASE j \notin DOMAIN q /\ i \in DOMAIN q
    <3>1. j - Len(q) \in DOMAIN a /\ r[j] = a[j - Len(q)] /\ r[i] = q[i]
      <4>1. i \notin DOMAIN q \/ r[i] = q[i]
        BY <1>1
      <4> QED BY <4>1, <1>1, <2>2
    <3> QED BY <3>1, <1>5, <2>2 DEF Less
  <2>3. CASE j \notin DOMAIN q /\ i \notin DOMAIN q
    <3>1. /\ i - Len(q) \in DOMAIN a /\ r[i] = a[i - Len(q)]
          /\ j - Len(q) \in DOMAIN a /\ r[j] = a[j - Len(q)]
      BY <1>1, <2>3
    <3>2. i - Len(q) < j - Len(q)
      BY <2>0, <1>1, <1>5
    <3> QED BY <3>1, <3>2, <1>5 DEF InOrder
  <2> QED BY <2>1, <2>2, <2>3
<1>6. \A t : None(q, t) /\ None(a, t) => None(r, t)
  BY <1>1 DEF None
<1> QED BY <1>1, <1>2, <1>3, <1>4, <1>5, <1>6 DEF Less, InOrder

\* A sequence that grows by the head of another.
LEMMA JoinHead ==
  ASSUME NEW S, NEW q \in Seq(S), NEW a \in Seq(S), a # <<>>
  PROVE  /\ 1 \in 1 .. Len(a) /\ Append(q, Head(a)) = q \o SubSeq(a, 1, 1)
         /\ Tail(a) = SubSeq(a, 1 + 1, Len(a))
<1>0. 1 \in 1 .. Len(a) /\ Head(a) = a[1] /\ a[1] \in S
  OBVIOUS
<1>1. SubSeq(a, 1, 1) = <<Head(a)>>
  <2>1. /\ SubSeq(a, 1, 1) \in Seq(S) /\ Len(SubSeq(a, 1, 1)) = 1
        /\ SubSeq(a, 1, 1)[1] = a[1]
    BY <1>0
  <2>2. PICK c \in Seq(S) : c = SubSeq(a, 1, 1) /\ Len(c) = 1 /\ c[1] = a[1]
    BY <2>1
  <2>3. c = <<a[1]>>
    <3>1. PICK e \in S : e = a[1]
      BY <1>0
    <3>2. <<e>> \in Seq(S) /\ Len(<<e>>) = 1 /\ <<e>>[1] = e
      OBVIOUS
    <3>3. \A i \in 1 .. Len(c) : c[i] = <<e>>[i]
      BY <2>2, <3>1, <3>2
    <3>4. c = <<e>>
      BY <2>2, <3>2, <3>3, SeqEqual
    <3> QED BY <3>1, <3>4
  <2> QED BY <1>0, <2>2, <2>3
<1>2. Append(q, Head(a)) = q \o <<Head(a)>>
  <2>1. Head(a) \in S
    OBVIOUS
  <2> QED BY <2>1
<1>3. Tail(a) = SubSeq(a, 1 + 1, Len(a))
  OBVIOUS
<1> QED BY <1>0, <1>1, <1>2, <1>3

\* A sequence that grows by what is younger than all.
LEMMA GrowLess ==
  ASSUME NEW S, NEW q \in Seq(S), NEW e \in S
  PROVE  /\ \A p : Less(p, q) /\ Less(p, <<e>>) => Less(p, Append(q, e))
         /\ InOrder(q) /\ Less(q, <<e>>) => InOrder(Append(q, e))
<1>1. /\ Append(q, e) \in Seq(S) /\ Len(q) \in Nat
      /\ DOMAIN Append(q, e) = DOMAIN q \cup {Len(q) + 1}
      /\ \A i \in DOMAIN q : Append(q, e)[i] = q[i] /\ i <= Len(q) /\ i \in Nat
      /\ Append(q, e)[Len(q) + 1] = e
  BY AppendFields
<1>2. DOMAIN <<e>> = {1} /\ <<e>>[1] = e
  OBVIOUS
<1>3. \A p : Less(p, q) /\ Less(p, <<e>>) => Less(p, Append(q, e))
  BY <1>1, <1>2 DEF Less
<1>4. InOrder(q) /\ Less(q, <<e>>) => InOrder(Append(q, e))
  BY <1>1, <1>2 DEF Less, InOrder
<1> QED BY <1>3, <1>4
-----------------------------------------------------------------------------
(* The queues.                                                             *)

\* The queues, one by one.
LEMMA QueueAt ==
  ASSUME NEW s, NEW b, NEW o, NEW g, NEW h
  PROVE  LET Q == QueuesOf(s, b, o, g, h) IN
         /\ DOMAIN Q = Places
         /\ \A f \in Fds : /\ <<"in", f>> \in Places /\ Q[<<"in", f>>] = s[f].inbox
                           /\ <<"net", f>> \in Places /\ Q[<<"net", f>>] = b["net"][f]
                           /\ <<"proxy", f>> \in Places /\ Q[<<"proxy", f>>] = b["proxy"][f]
         /\ \A t \in Tunnels : <<"out", t>> \in Places /\ Q[<<"out", t>>] = o[t]
         /\ \A u \in Peers : <<"got", u>> \in Places /\ Q[<<"got", u>>] = g[u]
         /\ <<"hand", 0>> \in Places /\ Q[<<"hand", 0>>] = h
  BY DEF QueuesOf, Places

\* The places, one by one.
LEMMA PlaceOf ==
  ASSUME NEW p \in Places
  PROVE  \/ \E f \in Fds : p = <<"in", f>> \/ p = <<"net", f>> \/ p = <<"proxy", f>>
         \/ \E t \in Tunnels : p = <<"out", t>>
         \/ \E u \in Peers : p = <<"got", u>>
         \/ p = <<"hand", 0>>
  BY DEF Places

\* What is in the queues.
LEMMA QueueTypes ==
  ASSUME Base
  PROVE  /\ Queues \in [Places -> Seq(Units)] /\ Hand \in Seq(Datagrams)
         /\ \A f \in Fds : /\ sock[f].inbox \in Seq(Units) /\ buffer["net"][f] \in Seq(Datagrams)
                           /\ buffer["proxy"][f] \in Seq(Frames)
                           /\ Kind(sock[f]) = "tunnel" => sock[f].inbox \in Seq(Frames)
                           /\ Kind(sock[f]) # "tunnel" => sock[f].inbox \in Seq(Datagrams)
         /\ \A t \in Tunnels : out[t] \in Seq(Datagrams)
         /\ \A u \in Peers : got[u] \in Seq(Frames)
<1>1. Hand \in Seq(Datagrams)
  BY DEF Hand, Base, Hands
<1>2. \A f \in Fds : /\ sock[f].inbox \in Seq(Units) /\ buffer["net"][f] \in Seq(Datagrams)
                     /\ buffer["proxy"][f] \in Seq(Frames)
                     /\ Kind(sock[f]) = "tunnel" => sock[f].inbox \in Seq(Frames)
                     /\ Kind(sock[f]) # "tunnel" => sock[f].inbox \in Seq(Datagrams)
  BY UnitSeqs, SockFields DEF Base, Typed, InboxesOf, Kind
<1>3. /\ \A t \in Tunnels : out[t] \in Seq(Datagrams)
      /\ \A u \in Peers : got[u] \in Seq(Frames)
  BY DEF Base, Typed
<1>4. ASSUME NEW p \in Places
      PROVE  Queues[p] \in Seq(Units)
  <2>1. CASE \E f \in Fds : p = <<"in", f>> \/ p = <<"net", f>> \/ p = <<"proxy", f>>
    <3>1. PICK f \in Fds : p = <<"in", f>> \/ p = <<"net", f>> \/ p = <<"proxy", f>>
      BY <2>1
    <3>2. /\ Queues[<<"in", f>>] = sock[f].inbox
          /\ Queues[<<"net", f>>] = buffer["net"][f]
          /\ Queues[<<"proxy", f>>] = buffer["proxy"][f]
      BY QueueAt DEF Queues
    <3>3. /\ sock[f].inbox \in Seq(Units) /\ buffer["net"][f] \in Seq(Units)
          /\ buffer["proxy"][f] \in Seq(Units)
      BY <1>2, UnitSeqs
    <3> QED BY <3>1, <3>2, <3>3
  <2>2. CASE \E t \in Tunnels : p = <<"out", t>>
    BY <1>3, <2>2, UnitSeqs, QueueAt DEF Queues
  <2>3. CASE \E u \in Peers : p = <<"got", u>>
    BY <1>3, <2>3, UnitSeqs, QueueAt DEF Queues
  <2>4. CASE p = <<"hand", 0>>
    BY <1>1, <2>4, UnitSeqs, QueueAt DEF Queues
  <2> QED BY <2>1, <2>2, <2>3, <2>4, PlaceOf
<1>5. Queues = [p \in Places |-> Queues[p]]
  BY DEF Queues, QueuesOf
<1> QED BY <1>1, <1>2, <1>3, <1>4, <1>5

\* A frame is no datagram.
LEMMA FramesApart == Frames \cap Datagrams = {}
<1>1. \A e \in Frames : Len(e) = 2
  BY DEF Frames
<1>2. \A e \in Datagrams : Len(e) = 3
  BY DEF Datagrams
<1> QED BY <1>1, <1>2

\* Units leave queues.
LEMMA OnceLess ==
  ASSUME NEW Q \in [Places -> Seq(Units)], NEW R \in [Places -> Seq(Units)], Once(Q),
         \A p \in Places : Part(R[p], Q[p])
  PROVE  /\ Once(R)
         /\ \A p \in Places : \A i \in DOMAIN R[p] : \E o \in Places : \E j \in DOMAIN Q[o] : R[p][i] = Q[o][j]
<1>1. ASSUME NEW p \in Places, NEW o \in Places, NEW i \in DOMAIN R[p], NEW j \in DOMAIN R[o],
             R[p][i] = R[o][j]
      PROVE  p = o /\ i = j
  <2>1. PICK d \in Nat : \A k \in DOMAIN R[p] : k + d \in DOMAIN Q[p] /\ R[p][k] = Q[p][k + d]
    BY DEF Part
  <2>2. PICK c \in Nat : \A k \in DOMAIN R[o] : k + c \in DOMAIN Q[o] /\ R[o][k] = Q[o][k + c]
    BY DEF Part
  <2>3. p = o /\ i + d = j + c
    BY <1>1, <2>1, <2>2 DEF Once
  <2>4. \A k, l \in DOMAIN Q[p] : Q[p][k] = Q[p][l] => k = l
    BY DEF Once
  <2>5. i + d = i + c
    <3>1. i + c \in DOMAIN Q[p] /\ R[p][i] = Q[p][i + c]
      BY <2>2, <2>3
    <3> QED BY <2>1, <2>4, <3>1
  <2> QED BY <2>3, <2>5
<1>2. ASSUME NEW p \in Places, NEW i \in DOMAIN R[p]
      PROVE  \E o \in Places : \E j \in DOMAIN Q[o] : R[p][i] = Q[o][j]
  BY DEF Part
<1>3. DOMAIN R = Places
  OBVIOUS
<1> QED BY <1>1, <1>2, <1>3 DEF Once

\* Units go from one queue to the end of another.
LEMMA OnceMoved ==
  ASSUME NEW Q \in [Places -> Seq(Units)], NEW R \in [Places -> Seq(Units)], Once(Q),
         NEW a \in Places, NEW b \in Places, a # b, NEW n \in 1 .. Len(Q[a]),
         R[b] = Q[b] \o SubSeq(Q[a], 1, n), R[a] = SubSeq(Q[a], n + 1, Len(Q[a])),
         \A p \in Places : p # a /\ p # b => R[p] = Q[p]
  PROVE  /\ Once(R)
         /\ \A p \in Places : \A i \in DOMAIN R[p] : \E o \in Places : \E j \in DOMAIN Q[o] : R[p][i] = Q[o][j]
<1> DEFINE from(p, i) == IF p = a THEN <<a, n + i>>
                         ELSE IF p = b /\ i \notin DOMAIN Q[b] THEN <<a, i - Len(Q[b])>>
                         ELSE <<p, i>>
<1>1. /\ Len(Q[b]) \in Nat /\ n \in Nat
      /\ \A i \in DOMAIN R[b] :
               \/ i \in DOMAIN Q[b] /\ R[b][i] = Q[b][i]
               \/ i \notin DOMAIN Q[b] /\ i - Len(Q[b]) \in DOMAIN Q[a] /\ i - Len(Q[b]) <= n
                  /\ R[b][i] = Q[a][i - Len(Q[b])]
      /\ \A i \in DOMAIN R[a] : n + i \in DOMAIN Q[a] /\ n < n + i /\ R[a][i] = Q[a][n + i]
  <2>1. PICK q \in Seq(Units), y \in Seq(Units) : q = Q[b] /\ y = Q[a]
    OBVIOUS
  <2>2. PICK r \in Seq(Units), c \in Seq(Units) : r = R[b] /\ c = R[a]
    OBVIOUS
  <2>3. Joins(q, y, n, r, c)
    BY <2>1, <2>2 DEF Joins
  <2>4. /\ Len(q) \in Nat /\ n \in Nat
        /\ \A i \in DOMAIN r :
               \/ i \in DOMAIN q /\ r[i] = q[i]
               \/ i \notin DOMAIN q /\ i - Len(q) \in DOMAIN y /\ i - Len(q) <= n
                  /\ r[i] = y[i - Len(q)]
        /\ \A i \in DOMAIN c : n + i \in DOMAIN y /\ n < n + i /\ c[i] = y[n + i]
    BY <2>3, Joining
  <2> QED BY <2>1, <2>2, <2>4
<1>2. \A p \in Places : \A i \in DOMAIN R[p] : i \in Int
  OBVIOUS
<1>3. ASSUME NEW p \in Places, NEW i \in DOMAIN R[p]
      PROVE  /\ from(p, i)[1] \in Places /\ from(p, i)[2] \in DOMAIN Q[from(p, i)[1]]
             /\ R[p][i] = Q[from(p, i)[1]][from(p, i)[2]]
  <2>1. CASE p = a
    BY <1>1, <2>1
  <2>2. CASE p = b
    BY <1>1, <2>2
  <2>3. CASE p # a /\ p # b
    BY <2>3
  <2> QED BY <2>1, <2>2, <2>3
<1>4. ASSUME NEW p \in Places, NEW o \in Places, NEW i \in DOMAIN R[p], NEW j \in DOMAIN R[o],
             from(p, i)[1] = from(o, j)[1], from(p, i)[2] = from(o, j)[2]
      PROVE  p = o /\ i = j
  <2>1. i \in Int /\ j \in Int
    BY <1>2
  <2>2. CASE p = a /\ o = a
    BY <1>1, <1>4, <2>1, <2>2
  <2>3. CASE p = b /\ o = b
    BY <1>1, <1>4, <2>1, <2>3
  <2>4. CASE p = a /\ o = b
    BY <1>1, <1>4, <2>1, <2>4
  <2>5. CASE p = b /\ o = a
    BY <1>1, <1>4, <2>1, <2>5
  <2>6. CASE p \notin {a, b} \/ o \notin {a, b}
    BY <1>4, <2>6
  <2> QED BY <2>2, <2>3, <2>4, <2>5, <2>6
<1> HIDE DEF from
<1>5. ASSUME NEW p \in Places, NEW o \in Places, NEW i \in DOMAIN R[p], NEW j \in DOMAIN R[o],
             R[p][i] = R[o][j]
      PROVE  p = o /\ i = j
  <2>1. PICK x, y : x = from(p, i) /\ y = from(o, j)
    OBVIOUS
  <2>2. /\ x[1] \in Places /\ x[2] \in DOMAIN Q[x[1]] /\ R[p][i] = Q[x[1]][x[2]]
        /\ y[1] \in Places /\ y[2] \in DOMAIN Q[y[1]] /\ R[o][j] = Q[y[1]][y[2]]
    BY <1>3, <2>1
  <2>4. x[1] = y[1] /\ x[2] = y[2]
    <3>0. PICK k \in Places, l \in Places : k = x[1] /\ l = y[1]
      BY <2>2
    <3>1. PICK v \in DOMAIN Q[k], w \in DOMAIN Q[l] :
             v = x[2] /\ w = y[2] /\ Q[k][v] = Q[l][w]
      BY <1>5, <2>2, <3>0, ZenonT(40)
    <3>2. \A c, d \in Places : \A t \in DOMAIN Q[c], z \in DOMAIN Q[d] :
             Q[c][t] = Q[d][z] => c = d /\ t = z
      BY DEF Once
    <3>3. \A t \in DOMAIN Q[k], z \in DOMAIN Q[l] : Q[k][t] = Q[l][z] => k = l /\ t = z
      BY <3>2
    <3>4. k = l /\ v = w
      BY <3>1, <3>3
    <3> QED BY <3>0, <3>1, <3>4
  <2>5. from(p, i)[1] = from(o, j)[1] /\ from(p, i)[2] = from(o, j)[2]
    BY <2>1, <2>4
  <2> QED BY <1>4, <2>5
<1>6. ASSUME NEW p \in Places, NEW i \in DOMAIN R[p]
      PROVE  \E o \in Places : \E j \in DOMAIN Q[o] : R[p][i] = Q[o][j]
  <2>1. PICK x : x = from(p, i)
    OBVIOUS
  <2>2. x[1] \in Places /\ x[2] \in DOMAIN Q[x[1]] /\ R[p][i] = Q[x[1]][x[2]]
    BY <1>3, <2>1
  <2> QED BY <2>2
<1>7. DOMAIN R = Places
  OBVIOUS
<1> QED BY <1>5, <1>6, <1>7 DEF Once

\* A new unit comes to a queue.
LEMMA OnceMore ==
  ASSUME NEW Q \in [Places -> Seq(Units)], NEW R \in [Places -> Seq(Units)], Once(Q),
         NEW b \in Places, NEW e \in Units, R[b] = Append(Q[b], e),
         \A p \in Places : p # b => R[p] = Q[p],
         \A p \in Places : \A i \in DOMAIN Q[p] : Q[p][i] # e
  PROVE  /\ Once(R)
         /\ \A p \in Places : \A i \in DOMAIN R[p] :
               R[p][i] = e \/ \E j \in DOMAIN Q[p] : R[p][i] = Q[p][j]
<1>1. \A i \in DOMAIN R[b] : \/ i \in DOMAIN Q[b] /\ R[b][i] = Q[b][i]
                             \/ i = Len(Q[b]) + 1 /\ R[b][i] = e
  BY AppendFields
<1>2. \A p \in Places : \A i \in DOMAIN R[p] :
         \/ i \in DOMAIN Q[p] /\ R[p][i] = Q[p][i]
         \/ p = b /\ i = Len(Q[b]) + 1 /\ R[p][i] = e
  BY <1>1
<1>3. ASSUME NEW p \in Places, NEW o \in Places, NEW i \in DOMAIN R[p], NEW j \in DOMAIN R[o],
             R[p][i] = R[o][j]
      PROVE  p = o /\ i = j
  <2>1. CASE i \in DOMAIN Q[p] /\ R[p][i] = Q[p][i] /\ j \in DOMAIN Q[o] /\ R[o][j] = Q[o][j]
    <3>1. PICK v \in DOMAIN Q[p], w \in DOMAIN Q[o] : v = i /\ w = j /\ Q[p][v] = Q[o][w]
      BY <1>3, <2>1
    <3>2. \A c, d \in Places : \A t \in DOMAIN Q[c], z \in DOMAIN Q[d] :
             Q[c][t] = Q[d][z] => c = d /\ t = z
      BY DEF Once
    <3>3. \A t \in DOMAIN Q[p], z \in DOMAIN Q[o] : Q[p][t] = Q[o][z] => p = o /\ t = z
      BY <3>2
    <3> QED BY <3>1, <3>3
  <2>2. CASE /\ p = b /\ i = Len(Q[b]) + 1 /\ R[p][i] = e
             /\ o = b /\ j = Len(Q[b]) + 1
    BY <2>2
  <2>3. CASE R[p][i] = e /\ j \in DOMAIN Q[o] /\ R[o][j] = Q[o][j]
    BY <1>3, <2>3
  <2>4. CASE R[o][j] = e /\ i \in DOMAIN Q[p] /\ R[p][i] = Q[p][i]
    BY <1>3, <2>4
  <2> QED BY <1>2, <2>1, <2>2, <2>3, <2>4
<1>4. DOMAIN R = Places
  OBVIOUS
<1> QED BY <1>2, <1>3, <1>4 DEF Once
-----------------------------------------------------------------------------
(* What steps do to the queues.                                            *)

\* A step that only takes from queues.
InsFewer == \A f \in Fds : Part(sock'[f].inbox, sock[f].inbox)
NetsFewer == \A f \in Fds : Part(buffer'["net"][f], buffer["net"][f])
ProxiesFewer == \A f \in Fds : Part(buffer'["proxy"][f], buffer["proxy"][f])
OutsFewer == \A t \in Tunnels : Part(out'[t], out[t])
GotsFewer == \A u \in Peers : Part(got'[u], got[u])
HandFewer == Part(Hand', Hand)

\* Nothing is unsent.
Onward == /\ \A u \in Peers : sent[u] <= sent'[u]
          /\ \A t \in Tunnels : asked[t] <= asked'[t]

\* Only the queues at a and b change.
OnlyAt(a, b) ==
    /\ \A f \in Fds : /\ <<"in", f>> \notin {a, b} => sock'[f].inbox = sock[f].inbox
                      /\ <<"net", f>> \notin {a, b} => buffer'["net"][f] = buffer["net"][f]
                      /\ <<"proxy", f>> \notin {a, b} => buffer'["proxy"][f] = buffer["proxy"][f]
    /\ \A t \in Tunnels : <<"out", t>> \notin {a, b} => out'[t] = out[t]
    /\ \A u \in Peers : <<"got", u>> \notin {a, b} => got'[u] = got[u]
    /\ <<"hand", 0>> \notin {a, b} => Hand' = Hand

\* The queues of the two states, one by one.
LEMMA QueuesAt ==
  /\ \A f \in Fds :
        /\ <<"in", f>> \in Places /\ <<"net", f>> \in Places /\ <<"proxy", f>> \in Places
        /\ Queues[<<"in", f>>] = sock[f].inbox /\ Queues'[<<"in", f>>] = sock'[f].inbox
        /\ Queues[<<"net", f>>] = buffer["net"][f] /\ Queues'[<<"net", f>>] = buffer'["net"][f]
        /\ Queues[<<"proxy", f>>] = buffer["proxy"][f] /\ Queues'[<<"proxy", f>>] = buffer'["proxy"][f]
  /\ \A t \in Tunnels :
        <<"out", t>> \in Places /\ Queues[<<"out", t>>] = out[t] /\ Queues'[<<"out", t>>] = out'[t]
  /\ \A u \in Peers :
        <<"got", u>> \in Places /\ Queues[<<"got", u>>] = got[u] /\ Queues'[<<"got", u>>] = got'[u]
  /\ <<"hand", 0>> \in Places /\ Queues[<<"hand", 0>>] = Hand /\ Queues'[<<"hand", 0>>] = Hand'
<1>1. Queues = QueuesOf(sock, buffer, out, got, Hand)
  BY DEF Queues
<1>2. Queues' = QueuesOf(sock', buffer', out', got', Hand')
  BY DEF Queues
<1> QED BY <1>1, <1>2, QueueAt

\* What is left alone has not become more.
LEMMA SameFewer ==
  ASSUME Base
  PROVE  /\ (\A f \in Fds : sock'[f].inbox = sock[f].inbox) => InsFewer
         /\ buffer'["net"] = buffer["net"] => NetsFewer
         /\ buffer'["proxy"] = buffer["proxy"] => ProxiesFewer
         /\ out' = out => OutsFewer
         /\ got' = got => GotsFewer
         /\ msg' = msg /\ pc \in {"bound", "await", "push"} => HandFewer
         /\ pc' \notin {"bound", "await", "push"} => HandFewer
<1>1. \A q \in Seq(Units) : Part(q, q) /\ Part(<<>>, q)
  BY Parts
<1>2. /\ \A f \in Fds : /\ sock[f].inbox \in Seq(Units) /\ buffer["net"][f] \in Seq(Units)
                        /\ buffer["proxy"][f] \in Seq(Units)
      /\ \A t \in Tunnels : out[t] \in Seq(Units)
      /\ \A u \in Peers : got[u] \in Seq(Units)
      /\ Hand \in Seq(Units)
  BY QueueTypes, UnitSeqs
<1>3. pc' \notin {"bound", "await", "push"} => Hand' = <<>>
  BY DEF Hand
<1>4. msg' = msg /\ pc \in {"bound", "await", "push"} => Hand' = Hand \/ Hand' = <<>>
  BY DEF Hand
<1> QED BY <1>1, <1>2, <1>3, <1>4 DEF InsFewer, NetsFewer, ProxiesFewer, OutsFewer, GotsFewer, HandFewer

\* What was sent before was sent.
LEMMA SentOnward ==
  ASSUME Base, Onward, Base'
  PROVE  \A e \in Units : SentBy(e, sent, asked) => SentBy(e, sent', asked')
<1>1. /\ \A e \in Datagrams : e[1] \in Peers /\ e[2] \in Nat
      /\ \A e \in Frames : e[1] \in Tunnels /\ e[2] \in Nat
  BY DEF Datagrams, Frames
<1>2. /\ \A u \in Peers : sent[u] \in Nat /\ sent'[u] \in Nat
      /\ \A t \in Tunnels : asked[t] \in Int /\ asked'[t] \in Int
  BY Constants DEF Base, Typed
<1> QED BY <1>1, <1>2 DEF Units, SentBy, Onward

\* The queues after a step.
Queueing == Queues \in [Places -> Seq(Units)]
LEMMA QueuesNext == Base' => Queues' \in [Places -> Seq(Units)]
<1>1. Base => Queueing
  BY QueueTypes DEF Queueing
<1>2. Base' => Queueing'
  BY <1>1, PTL
<1> QED BY <1>2 DEF Queueing

\* Units leave queues.
LEMMA CountedFewer ==
  ASSUME Base, Base', Counted, Onward,
         InsFewer, NetsFewer, ProxiesFewer, OutsFewer, GotsFewer, HandFewer
  PROVE  Counted'
<1>1. ASSUME NEW p \in Places
      PROVE  Part(Queues'[p], Queues[p])
  <2>1. CASE \E f \in Fds : p = <<"in", f>> \/ p = <<"net", f>> \/ p = <<"proxy", f>>
    <3>1. PICK f \in Fds : p = <<"in", f>> \/ p = <<"net", f>> \/ p = <<"proxy", f>>
      BY <2>1
    <3>2. /\ Part(Queues'[<<"in", f>>], Queues[<<"in", f>>])
          /\ Part(Queues'[<<"net", f>>], Queues[<<"net", f>>])
          /\ Part(Queues'[<<"proxy", f>>], Queues[<<"proxy", f>>])
      BY QueuesAt DEF InsFewer, NetsFewer, ProxiesFewer
    <3> QED BY <3>1, <3>2
  <2>2. CASE \E t \in Tunnels : p = <<"out", t>>
    BY <2>2, QueuesAt DEF OutsFewer
  <2>3. CASE \E u \in Peers : p = <<"got", u>>
    BY <2>3, QueuesAt DEF GotsFewer
  <2>4. CASE p = <<"hand", 0>>
    BY <2>4, QueuesAt DEF HandFewer
  <2> QED BY <2>1, <2>2, <2>3, <2>4, PlaceOf
<1>2. Queues \in [Places -> Seq(Units)] /\ Queues' \in [Places -> Seq(Units)]
  BY QueueTypes, QueuesNext
<1>3. Once(Queues') /\ \A p \in Places : \A i \in DOMAIN Queues'[p] :
         \E o \in Places : \E j \in DOMAIN Queues[o] : Queues'[p][i] = Queues[o][j]
  <2>1. PICK Q \in [Places -> Seq(Units)], R \in [Places -> Seq(Units)] : Q = Queues /\ R = Queues'
    BY <1>2
  <2>2. Once(Q) /\ \A p \in Places : Part(R[p], Q[p])
    BY <1>1, <2>1 DEF Counted
  <2>3. /\ Once(R)
        /\ \A p \in Places : \A i \in DOMAIN R[p] : \E o \in Places : \E j \in DOMAIN Q[o] : R[p][i] = Q[o][j]
    BY <2>2, OnceLess
  <2> QED BY <2>1, <2>3
<1>4. Numbered'
  <2>1. ASSUME NEW p \in Places, NEW i \in DOMAIN Queues'[p]
        PROVE  SentBy(Queues'[p][i], sent', asked')
    <3>1. PICK o \in Places : \E j \in DOMAIN Queues[o] : Queues'[p][i] = Queues[o][j]
      BY <1>3
    <3>2. PICK j \in DOMAIN Queues[o] : Queues'[p][i] = Queues[o][j]
      BY <3>1
    <3>3. PICK e \in Units : e = Queues[o][j] /\ e = Queues'[p][i]
      BY <1>2, <3>2
    <3>4. SentBy(e, sent, asked)
      BY <3>3 DEF Counted, Numbered
    <3>5. SentBy(e, sent', asked')
      BY <3>4, SentOnward
    <3> QED BY <3>3, <3>5
  <2> QED BY <2>1 DEF Numbered
<1> QED BY <1>3, <1>4 DEF Counted

\* The queues that a step leaves alone.
LEMMA OthersKept ==
  ASSUME NEW a, NEW b, OnlyAt(a, b)
  PROVE  \A p \in Places : p # a /\ p # b => Queues'[p] = Queues[p]
<1> SUFFICES ASSUME NEW p \in Places, p # a, p # b
             PROVE  Queues'[p] = Queues[p]
  OBVIOUS
<1>1. CASE \E f \in Fds : p = <<"in", f>> \/ p = <<"net", f>> \/ p = <<"proxy", f>>
  <2>1. PICK f \in Fds : p = <<"in", f>> \/ p = <<"net", f>> \/ p = <<"proxy", f>>
    BY <1>1
  <2>2. CASE p = <<"in", f>>
    BY <2>2, QueuesAt DEF OnlyAt
  <2>3. CASE p = <<"net", f>>
    BY <2>3, QueuesAt DEF OnlyAt
  <2>4. CASE p = <<"proxy", f>>
    BY <2>4, QueuesAt DEF OnlyAt
  <2> QED BY <2>1, <2>2, <2>3, <2>4
<1>2. CASE \E t \in Tunnels : p = <<"out", t>>
  BY <1>2, QueuesAt DEF OnlyAt
<1>3. CASE \E u \in Peers : p = <<"got", u>>
  BY <1>3, QueuesAt DEF OnlyAt
<1>4. CASE p = <<"hand", 0>>
  BY <1>4, QueuesAt DEF OnlyAt
<1> QED BY <1>1, <1>2, <1>3, <1>4, PlaceOf

\* Units go from one queue to the end of another.
LEMMA CountedMoved ==
  ASSUME Base, Base', Counted, UNCHANGED <<sent, asked>>,
         NEW a \in Places, NEW b \in Places, a # b, OnlyAt(a, b),
         NEW n \in 1 .. Len(Queues[a]),
         Queues'[b] = Queues[b] \o SubSeq(Queues[a], 1, n),
         Queues'[a] = SubSeq(Queues[a], n + 1, Len(Queues[a]))
  PROVE  Counted'
<1>1. PICK Q \in [Places -> Seq(Units)], R \in [Places -> Seq(Units)] : Q = Queues /\ R = Queues'
  BY QueueTypes, QueuesNext
<1>2. /\ Once(Q) /\ a # b /\ n \in 1 .. Len(Q[a])
      /\ R[b] = Q[b] \o SubSeq(Q[a], 1, n) /\ R[a] = SubSeq(Q[a], n + 1, Len(Q[a]))
      /\ \A p \in Places : p # a /\ p # b => R[p] = Q[p]
  BY <1>1, OthersKept DEF Counted
<1>3. /\ Once(R)
      /\ \A p \in Places : \A i \in DOMAIN R[p] : \E o \in Places : \E j \in DOMAIN Q[o] : R[p][i] = Q[o][j]
  BY <1>2, OnceMoved
<1>4. \A p \in Places : \A i \in DOMAIN Q[p] : SentBy(Q[p][i], sent, asked)
  BY <1>1 DEF Counted, Numbered
<1>5. \A p \in Places : \A i \in DOMAIN R[p] : SentBy(R[p][i], sent', asked')
  BY <1>3, <1>4
<1> QED BY <1>1, <1>3, <1>5 DEF Counted, Numbered

\* A unit that was not sent before comes to a queue.
LEMMA CountedMore ==
  ASSUME Base, Base', Counted, Onward, NEW b \in Places, OnlyAt(b, b), NEW e \in Units,
         Queues'[b] = Append(Queues[b], e),
         ~SentBy(e, sent, asked), SentBy(e, sent', asked')
  PROVE  Counted'
<1>1. PICK Q \in [Places -> Seq(Units)], R \in [Places -> Seq(Units)] : Q = Queues /\ R = Queues'
  BY QueueTypes, QueuesNext
<1>2. \A p \in Places : \A i \in DOMAIN Q[p] : SentBy(Q[p][i], sent, asked) /\ Q[p][i] \in Units
  BY <1>1 DEF Counted, Numbered
<1>3. /\ Once(Q) /\ R[b] = Append(Q[b], e)
      /\ \A p \in Places : p # b => R[p] = Q[p]
      /\ \A p \in Places : \A i \in DOMAIN Q[p] : Q[p][i] # e
  BY <1>1, <1>2, OthersKept DEF Counted
<1>4. /\ Once(R)
      /\ \A p \in Places : \A i \in DOMAIN R[p] :
               R[p][i] = e \/ \E j \in DOMAIN Q[p] : R[p][i] = Q[p][j]
  BY <1>3, OnceMore, Zenon
<1>5. \A p \in Places : \A i \in DOMAIN R[p] : SentBy(R[p][i], sent', asked')
  <2>1. \A c \in Units : SentBy(c, sent, asked) => SentBy(c, sent', asked')
    BY SentOnward
  <2> QED BY <2>1, <1>2, <1>4, Zenon
<1> QED BY <1>1, <1>4, <1>5 DEF Counted, Numbered
-----------------------------------------------------------------------------
(* Steps that leave the order alone.                                       *)

\* The queues after a step, one by one.
LEMMA TypesNext ==
  ASSUME Base, Base'
  PROVE  /\ \A f \in Fds : /\ sock[f].inbox \in Seq(Units) /\ sock'[f].inbox \in Seq(Units)
                           /\ buffer["net"][f] \in Seq(Units) /\ buffer'["net"][f] \in Seq(Units)
                           /\ buffer["proxy"][f] \in Seq(Units) /\ buffer'["proxy"][f] \in Seq(Units)
         /\ \A t \in Tunnels : out[t] \in Seq(Units) /\ out'[t] \in Seq(Units)
         /\ \A u \in Peers : got[u] \in Seq(Units) /\ got'[u] \in Seq(Units)
         /\ Hand \in Seq(Units) /\ Hand' \in Seq(Units)
<1>1. \A p \in Places : Queues[p] \in Seq(Units) /\ Queues'[p] \in Seq(Units)
  BY QueueTypes, QueuesNext
<1>2. ASSUME NEW f \in Fds
      PROVE  /\ sock[f].inbox \in Seq(Units) /\ sock'[f].inbox \in Seq(Units)
             /\ buffer["net"][f] \in Seq(Units) /\ buffer'["net"][f] \in Seq(Units)
             /\ buffer["proxy"][f] \in Seq(Units) /\ buffer'["proxy"][f] \in Seq(Units)
  <2>1. <<"in", f>> \in Places /\ <<"net", f>> \in Places /\ <<"proxy", f>> \in Places
    BY QueuesAt
  <2>2. /\ Queues[<<"in", f>>] \in Seq(Units) /\ Queues'[<<"in", f>>] \in Seq(Units)
        /\ Queues[<<"net", f>>] \in Seq(Units) /\ Queues'[<<"net", f>>] \in Seq(Units)
        /\ Queues[<<"proxy", f>>] \in Seq(Units) /\ Queues'[<<"proxy", f>>] \in Seq(Units)
    BY <1>1, <2>1
  <2> QED BY <2>2, QueuesAt
<1>3. ASSUME NEW t \in Tunnels
      PROVE  out[t] \in Seq(Units) /\ out'[t] \in Seq(Units)
  <2>1. Queues[<<"out", t>>] \in Seq(Units) /\ Queues'[<<"out", t>>] \in Seq(Units)
    BY <1>1, QueuesAt
  <2> QED BY <2>1, QueuesAt
<1>4. ASSUME NEW u \in Peers
      PROVE  got[u] \in Seq(Units) /\ got'[u] \in Seq(Units)
  <2>1. Queues[<<"got", u>>] \in Seq(Units) /\ Queues'[<<"got", u>>] \in Seq(Units)
    BY <1>1, QueuesAt
  <2> QED BY <2>1, QueuesAt
<1>5. Hand \in Seq(Units) /\ Hand' \in Seq(Units)
  BY <1>1, QueuesAt
<1> QED BY <1>2, <1>3, <1>4, <1>5

\* Nothing is older, younger, in order.
LEMMA Empties ==
  /\ \A p : Less(p, <<>>) /\ Less(<<>>, p)
  /\ InOrder(<<>>) /\ \A t : None(<<>>, t) /\ From(<<>>, t)
  BY DEF Less, InOrder, None, From

\* The inboxes, and what has come from tunnels, when nothing comes.
LEMMA InflowKept ==
  ASSUME Base, Base', Inflow, InsFewer, ProxiesFewer, GotsFewer,
         \A g \in Fds : Kind(sock'[g]) = "tunnel" => sock'[g].on = sock[g].on \/ sock'[g].inbox = <<>>,
         pc' \in {"bound", "await", "push"} /\ Kind(sock'[cur']) \in {"bound", "peer"} =>
            \/ sock'[cur'].inbox = <<>>
            \/ /\ pc \in {"bound", "await", "push"} /\ Kind(sock[cur]) \in {"bound", "peer"}
               /\ cur' = cur /\ msg' = msg,
         \A i \in DOMAIN tunnels' : tunnels'[i] # NoFd => Unheard(sock'[tunnels'[i]].on[2])
  PROVE  Inflow'
<1>1. \A f \in Fds : InOrder(sock'[f].inbox)
  BY TypesNext, PartKeeps DEF InsFewer, Inflow
<1>2. pc' \in {"bound", "await", "push"} /\ Kind(sock'[cur']) \in {"bound", "peer"} =>
          Less(Hand', sock'[cur'].inbox)
  <2>1. ASSUME pc \in {"bound", "await", "push"}, pc' \in {"bound", "await", "push"},
               cur' = cur, msg' = msg, Kind(sock[cur]) \in {"bound", "peer"}
        PROVE  Less(Hand', sock'[cur'].inbox)
    <3>1. Hand' = Hand /\ cur \in Fds
      BY <2>1 DEF Hand, Base, Hands
    <3>2. Less(Hand, sock[cur].inbox)
      BY <2>1 DEF Inflow
    <3>3. Part(Hand, Hand)
      BY TypesNext, Parts
    <3> QED BY <2>1, <3>1, <3>2, <3>3, PartLess DEF InsFewer
  <2> QED BY <2>1, Empties
<1>3. ASSUME NEW g \in Fds, Kind(sock'[g]) = "tunnel"
      PROVE  /\ From(sock'[g].inbox, sock'[g].on[2])
             /\ \A f \in Fds : Less(buffer'["proxy"][f], sock'[g].inbox)
             /\ \A u \in Peers : Less(got'[u], sock'[g].inbox)
  <2>1. CASE sock'[g].inbox = <<>>
    BY <2>1, Empties
  <2>2. CASE sock'[g].on = sock[g].on
    <3>1. /\ From(sock[g].inbox, sock[g].on[2])
          /\ \A f \in Fds : Less(buffer["proxy"][f], sock[g].inbox)
          /\ \A u \in Peers : Less(got[u], sock[g].inbox)
      BY <1>3, <2>2 DEF Inflow, On, Kind
    <3>2. From(sock'[g].inbox, sock'[g].on[2])
      BY <2>2, <3>1, TypesNext, PartKeeps DEF InsFewer
    <3>3. \A f \in Fds : Less(buffer'["proxy"][f], sock'[g].inbox)
      BY <3>1, PartLess DEF InsFewer, ProxiesFewer
    <3>4. \A u \in Peers : Less(got'[u], sock'[g].inbox)
      BY <3>1, PartLess DEF InsFewer, GotsFewer
    <3> QED BY <3>2, <3>3, <3>4
  <2> QED BY <1>3, <2>1, <2>2
<1>4. \A t : Unheard(t) => Unheard(t)'
  BY TypesNext, PartKeeps DEF Unheard, ProxiesFewer, GotsFewer
<1> QED BY <1>1, <1>2, <1>3, <1>4 DEF Inflow, On, Unheard

\* The way to the tunnels, when nothing goes there.
LEMMA OutwardKept ==
  ASSUME Base, Base', Outward, InsFewer, NetsFewer, OutsFewer,
         \A g \in Fds : Kind(sock'[g]) = "tunnel" => sock'[g].on = sock[g].on \/ Unused(g)',
         \A f \in Linked' : \A g \in Fds : partner'["proxy"][f] = g /\ Kind(sock'[g]) = "tunnel" =>
            Unused(g)' \/ (f \in Linked /\ partner["proxy"][f] = g),
         pc' = "push" => \A g \in Fds : partner'["proxy"][cur'] = g /\ Kind(sock'[g]) = "tunnel" =>
            \/ Unused(g)'
            \/ pc = "push" /\ cur' = cur /\ msg' = msg /\ partner["proxy"][cur] = g
  PROVE  Outward'
<1>1. \A t \in Tunnels : InOrder(out'[t])
  BY TypesNext, PartKeeps DEF OutsFewer, Outward
<1>2. ASSUME NEW g \in Fds, Kind(sock'[g]) = "tunnel"
      PROVE  InOrder(buffer'["net"][g]) /\ Less(out'[sock'[g].on[2]], buffer'["net"][g])
  <2>1. CASE Unused(g)'
    BY <2>1, Empties DEF Unused, On
  <2>2. CASE sock'[g].on = sock[g].on
    <3>1. Kind(sock[g]) = "tunnel" /\ sock[g].on[2] \in Tunnels
      BY <1>2, <2>2, LinkedFed DEF Kind, On
    <3>2. InOrder(buffer["net"][g]) /\ Less(out[sock[g].on[2]], buffer["net"][g])
      BY <3>1 DEF Outward, On
    <3>3. InOrder(buffer'["net"][g])
      BY <3>2, TypesNext, PartKeeps DEF NetsFewer
    <3> QED BY <2>2, <3>1, <3>2, <3>3, PartLess DEF NetsFewer, OutsFewer
  <2> QED BY <1>2, <2>1, <2>2
<1>3. ASSUME NEW g \in Fds, Kind(sock'[g]) = "tunnel", ~Unused(g)'
      PROVE  /\ IsTunnel(g) /\ On(g)' = On(g)
             /\ Part(out'[On(g)[2]], out[On(g)[2]]) /\ Part(buffer'["net"][g], buffer["net"][g])
  <2>1. g \in Fds /\ sock'[g].on = sock[g].on /\ Kind(sock[g]) = "tunnel"
    BY <1>3 DEF IsTunnel, Kind
  <2>2. On(g)[2] \in Tunnels
    BY <2>1, LinkedFed
  <2> QED BY <2>1, <2>2 DEF IsTunnel, On, OutsFewer, NetsFewer
<1>4. ASSUME NEW f \in Linked', NEW g \in Fds, g = partner'["proxy"][f], Kind(sock'[g]) = "tunnel"
      PROVE  Less(out'[sock'[g].on[2]], sock'[f].inbox) /\ Less(buffer'["net"][g], sock'[f].inbox)
  <2>1. CASE Unused(g)'
    BY <2>1, Empties DEF Unused, On
  <2>2. CASE ~Unused(g)'
    <3>1. f \in Linked /\ partner["proxy"][f] = g /\ f \in Fds
      BY <1>4, <2>2 DEF Linked
    <3>2. /\ IsTunnel(g) /\ sock'[g].on = sock[g].on
          /\ Part(out'[On(g)[2]], out[On(g)[2]]) /\ Part(buffer'["net"][g], buffer["net"][g])
      BY <1>3, <1>4, <2>2 DEF On
    <3>3. Less(out[On(g)[2]], sock[f].inbox) /\ Less(buffer["net"][g], sock[f].inbox)
      BY <3>1, <3>2 DEF Outward
    <3>4. Part(sock'[f].inbox, sock[f].inbox)
      BY <3>1 DEF InsFewer
    <3> QED BY <3>2, <3>3, <3>4, PartLess DEF On
  <2> QED BY <2>1, <2>2
<1>5. ASSUME pc' = "push", NEW g \in Fds, g = partner'["proxy"][cur'], Kind(sock'[g]) = "tunnel"
      PROVE  Less(out'[sock'[g].on[2]], Hand') /\ Less(buffer'["net"][g], Hand')
  <2>1. CASE Unused(g)'
    BY <2>1, Empties DEF Unused, On
  <2>2. CASE ~Unused(g)'
    <3>1. pc = "push" /\ cur' = cur /\ msg' = msg /\ partner["proxy"][cur] = g
      BY <1>5, <2>2
    <3>2. /\ IsTunnel(g) /\ sock'[g].on = sock[g].on
          /\ Part(out'[On(g)[2]], out[On(g)[2]]) /\ Part(buffer'["net"][g], buffer["net"][g])
      BY <1>3, <1>5, <2>2 DEF On
    <3>3. Less(out[On(g)[2]], Hand) /\ Less(buffer["net"][g], Hand)
      BY <3>1, <3>2 DEF Outward
    <3>4. Hand' = Hand /\ Part(Hand, Hand)
      BY <1>5, <3>1, TypesNext, Parts DEF Hand
    <3> QED BY <3>2, <3>3, <3>4, PartLess DEF On
  <2> QED BY <2>1, <2>2
<1> QED BY <1>1, <1>2, <1>4, <1>5 DEF Outward, IsTunnel, On

\* The way from the tunnels, when nothing comes.
LEMMA HomewardKept ==
  ASSUME Base, Base', Homeward, ProxiesFewer, GotsFewer,
         \A f \in Fds : Kind(sock'[f]) \in {"bound", "peer"} =>
            \/ buffer'["proxy"][f] = <<>>
            \/ /\ Kind(sock[f]) \in {"bound", "peer"}
               /\ Kind(sock'[f]) = "peer" => sock'[f].on = sock[f].on,
         \A g \in Fed' : \/ Unheard(sock'[g].on[2])
                         \/ /\ g \in Fed /\ sock'[g].on = sock[g].on
                            /\ partner'["net"][g] = partner["net"][g]
  PROVE  Homeward'
<1>1. \A u \in Peers : InOrder(got'[u])
  BY TypesNext, PartKeeps DEF GotsFewer, Homeward
<1>2. ASSUME NEW f \in Fds, Kind(sock'[f]) \in {"bound", "peer"}
      PROVE  /\ InOrder(buffer'["proxy"][f])
             /\ Kind(sock'[f]) = "peer" => Less(got'[sock'[f].on[2]], buffer'["proxy"][f])
             /\ \A g \in Fed' : partner'["net"][g] # f => None(buffer'["proxy"][f], sock'[g].on[2])
  <2>1. CASE buffer'["proxy"][f] = <<>>
    BY <2>1, Empties
  <2>2. CASE buffer'["proxy"][f] # <<>>
    <3>1. /\ IsUser(f) /\ Part(buffer'["proxy"][f], buffer["proxy"][f])
          /\ Kind(sock'[f]) = "peer" => sock'[f].on = sock[f].on
      BY <1>2, <2>2 DEF IsUser, ProxiesFewer
    <3>2. /\ InOrder(buffer["proxy"][f])
          /\ Kind(sock[f]) = "peer" => Less(got[sock[f].on[2]], buffer["proxy"][f])
          /\ \A g \in Fed : partner["net"][g] # f => None(buffer["proxy"][f], sock[g].on[2])
      BY <3>1 DEF Homeward, On
    <3>3. /\ InOrder(buffer'["proxy"][f])
          /\ \A t : None(buffer["proxy"][f], t) => None(buffer'["proxy"][f], t)
      BY <3>1, <3>2, TypesNext, PartKeeps
    <3>4. ASSUME Kind(sock'[f]) = "peer"
          PROVE  Less(got'[sock'[f].on[2]], buffer'["proxy"][f])
      <4>1. PICK u : u = sock[f].on[2]
        OBVIOUS
      <4>2. /\ Kind(sock[f]) = "peer" /\ sock'[f].on[2] = u /\ u \in Peers
            /\ Less(got[u], buffer["proxy"][f])
        BY <3>1, <3>2, <3>4, <4>1, Holds, SockFields, WhatFields DEF Kind
      <4>3. Part(got'[u], got[u])
        BY <4>2 DEF GotsFewer
      <4> QED BY <3>1, <4>2, <4>3, PartLess
    <3>5. \A g \in Fed' : partner'["net"][g] # f => None(buffer["proxy"][f], sock'[g].on[2])
      BY <3>2 DEF Unheard
    <3> QED BY <3>3, <3>4, <3>5
  <2> QED BY <2>1, <2>2
<1>3. ASSUME NEW f \in Fds, NEW h \in Fds, h # f, Kind(sock'[f]) \in {"bound", "peer"},
             Kind(sock'[h]) \in {"bound", "peer"}
      PROVE  Foreign(buffer'["proxy"][f], buffer'["proxy"][h])
  <2>1. CASE buffer'["proxy"][f] = <<>> \/ buffer'["proxy"][h] = <<>>
    BY <2>1 DEF Foreign
  <2>2. CASE buffer'["proxy"][f] # <<>> /\ buffer'["proxy"][h] # <<>>
    <3>1. IsUser(f) /\ IsUser(h)
      BY <1>3, <2>2 DEF IsUser
    <3>2. Foreign(buffer["proxy"][f], buffer["proxy"][h])
      BY <1>3, <3>1 DEF Homeward
    <3>3. /\ Part(buffer'["proxy"][f], buffer["proxy"][f])
          /\ Part(buffer'["proxy"][h], buffer["proxy"][h])
      BY DEF ProxiesFewer
    <3> QED BY <3>2, <3>3 DEF Foreign, Part
  <2> QED BY <2>1, <2>2
<1> QED BY <1>1, <1>2, <1>3 DEF Homeward, IsUser, On

\* Who takes whose units, when no socket, no tunnel and no route is new.
LEMMA CouplingKept ==
  ASSUME Base, Base', Coupling, UNCHANGED <<type, partner>>,
         Linked' \subseteq Linked, Fed' \subseteq Fed,
         \A g \in Fds : Kind(sock'[g]) = "tunnel" => /\ Kind(sock[g]) = "tunnel"
                                                     /\ g \in Fed => g \in Fed',
         pc' \in {"bound", "push"} => pc' = pc /\ cur' = cur,
         pc' = "bound" => buffer'["proxy"][cur] = <<>>,
         \A i \in DOMAIN tunnels' : \A g \in Fds : tunnels'[i] = g => Unused(g)'
  PROVE  Coupling'
<1>1. \A g : IsTunnel(g)' => IsTunnel(g) /\ (g \in Fed => g \in Fed')
  BY DEF IsTunnel
<1>2. \A f \in Linked' : LET g == partner["proxy"][f] IN
          IsTunnel(g)' => g \in Fed' /\ partner["net"][g] = f
  BY <1>1 DEF Coupling
<1>3. pc' = "push" => LET g == partner["proxy"][cur] IN
          IsTunnel(g)' => g \in Fed' /\ partner["net"][g] = cur
  BY <1>1 DEF Coupling
<1>4. \A i \in DOMAIN tunnels' : tunnels'[i] # NoFd => tunnels'[i] \in Fds
  BY DEF Base, Typed
<1> QED BY <1>2, <1>3, <1>4 DEF Coupling, Unused, IsTunnel, On

\* Nothing went to a tunnel, and still does not.
LEMMA UnusedKept ==
  ASSUME Base, Base', NetsFewer, OutsFewer, NEW g \in Fds, sock'[g].on = sock[g].on,
         Kind(sock[g]) = "tunnel", Unused(g)
  PROVE  Unused(g)'
<1>1. PICK t \in Tunnels : t = On(g)[2] /\ On(g)' = On(g)
  BY LinkedFed DEF On
<1>2. out'[t] = <<>> /\ buffer'["net"][g] = <<>>
  BY <1>1, TypesNext, PartKeeps DEF Unused, NetsFewer, OutsFewer
<1> QED BY <1>1, <1>2 DEF Unused

\* Nothing is sent.
LEMMA NoneSent == Base /\ UNCHANGED <<sent, asked>> => Onward
<1>1. Base => /\ \A u \in Peers : sent[u] \in Nat
              /\ \A t \in Tunnels : asked[t] \in Int
  BY Constants DEF Base, Typed
<1> QED BY <1>1 DEF Onward

\* A step that adds no unit, no route and no socket.
LEMMA QueuedShrinks ==
  ASSUME Base, Base', Queued, UNCHANGED <<type, partner>>, Onward, Unstale' => Unstale,
         InsFewer, NetsFewer, ProxiesFewer, OutsFewer, GotsFewer,
         (pc' = pc /\ cur' = cur /\ msg' = msg) \/ pc' = "loop",
         \A i \in DOMAIN tunnels' : tunnels'[i] = NoFd \/ \E j \in DOMAIN tunnels : tunnels'[i] = tunnels[j],
         Linked' \subseteq Linked, Fed' \subseteq Fed,
         \A f \in Fds : \/ sock'[f].on = sock[f].on
                        \/ Kind(sock'[f]) \notin {"peer", "tunnel", "bound"},
         \A g \in Fed : Kind(sock'[g]) = "tunnel" => g \in Fed'
  PROVE  Queued'
<1>1. HandFewer
  <2>1. pc' = "loop" => HandFewer
    BY SameFewer
  <2>2. pc' = pc /\ msg' = msg => HandFewer
    BY SameFewer
  <2> QED BY <2>1, <2>2
<1>3. Counted'
  BY <1>1, CountedFewer DEF Queued
<1>4. \A f \in Fds : Kind(sock'[f]) \in {"peer", "tunnel", "bound"} =>
          sock'[f].on = sock[f].on /\ Kind(sock'[f]) = Kind(sock[f])
  BY DEF Kind
<1>5. \A i \in DOMAIN tunnels' : \A g \in Fds : tunnels'[i] = g =>
          /\ \E j \in DOMAIN tunnels : g = tunnels[j] /\ g # NoFd
          /\ sock'[g].on = sock[g].on /\ Kind(sock[g]) = "tunnel"
  <2>1. \A i \in DOMAIN tunnels' : \A g \in Fds : tunnels'[i] = g =>
           Kind(sock'[g]) = "tunnel" /\ g # NoFd
    BY Constants DEF Base, Waiting
  <2> QED BY <1>4, <2>1
<1>6. Inflow'
  <2>1. pc' \in {"bound", "await", "push"} /\ Kind(sock'[cur']) \in {"bound", "peer"} =>
            /\ pc \in {"bound", "await", "push"} /\ Kind(sock[cur]) \in {"bound", "peer"}
            /\ cur' = cur /\ msg' = msg
    <3>1. pc' \in {"bound", "await", "push"} => cur' \in Fds
      BY DEF Base, Hands
    <3> QED BY <3>1, <1>4
  <2>2. \A i \in DOMAIN tunnels' : tunnels'[i] # NoFd => Unheard(sock'[tunnels'[i]].on[2])
    <3>1. \A i \in DOMAIN tunnels' : tunnels'[i] # NoFd => tunnels'[i] \in Fds
      BY DEF Base, Typed
    <3>2. \A j \in DOMAIN tunnels : tunnels[j] # NoFd => Unheard(sock[tunnels[j]].on[2])
      BY DEF Queued, Inflow, On
    <3> QED BY <3>1, <3>2, <1>5
  <2> QED BY <1>4, <2>1, <2>2, InflowKept DEF Queued
<1>7. ASSUME Unstale'
      PROVE  Coupling' /\ Outward' /\ Homeward'
  <2>0. Coupling /\ Outward /\ Homeward
    BY <1>7 DEF Queued
  <2>1. Coupling'
    <3>1. pc' = "bound" => buffer'["proxy"][cur] = <<>>
      <4>1. pc' = "bound" => cur \in Fds /\ buffer["proxy"][cur] = <<>>
        BY <2>0 DEF Coupling, Base, Hands
      <4> QED BY <4>1, TypesNext, PartKeeps DEF ProxiesFewer
    <3>2. ASSUME NEW i \in DOMAIN tunnels', NEW g \in Fds, tunnels'[i] = g
          PROVE  Unused(g)'
      <4>1. PICK j \in DOMAIN tunnels : g = tunnels[j] /\ g # NoFd
        BY <1>5, <3>2
      <4>2. Unused(g) /\ sock'[g].on = sock[g].on /\ Kind(sock[g]) = "tunnel"
        BY <1>5, <2>0, <3>2, <4>1 DEF Coupling
      <4> QED BY <4>2, UnusedKept
    <3>3. \A g \in Fds : Kind(sock'[g]) = "tunnel" => Kind(sock[g]) = "tunnel" /\ (g \in Fed => g \in Fed')
      BY <1>4
    <3> QED BY <2>0, <3>1, <3>2, <3>3, CouplingKept
  <2>2. Outward'
    BY <1>4, <2>0, OutwardKept
  <2>3. Homeward'
    <3>1. \A f \in Fds : Kind(sock'[f]) \in {"bound", "peer"} =>
             /\ Kind(sock[f]) \in {"bound", "peer"}
             /\ Kind(sock'[f]) = "peer" => sock'[f].on = sock[f].on
      BY <1>4
    <3>2. \A g \in Fed' : g \in Fed /\ sock'[g].on = sock[g].on
      <4>1. \A g \in Fed' : g \in Fds /\ Kind(sock'[g]) = "tunnel"
        <5>1. \A g \in Fed' : g \in Registered(table'["net"]) \/ \E i \in DOMAIN actualfds' : g = actualfds'[i]
          BY DEF Fed
        <5>2. \A g \in Fed : g \in Fds
          BY LinkedFed
        <5> QED BY <5>1, <5>2 DEF Base, Waiting, Kinds
      <4> QED BY <1>4, <4>1
    <3> QED BY <2>0, <3>1, <3>2, HomewardKept
  <2> QED BY <2>1, <2>2, <2>3
<1> QED BY <1>3, <1>6, <1>7 DEF Queued
-----------------------------------------------------------------------------
(* The steps that add nothing.                                             *)

\* insert leaves the socket open, or it is closed.
LEMMA InsertQueued ==
  ASSUME Base, Base', Queued, Unstale' => Unstale, Start \/ InsertPeer
  PROVE  Queued'
<1>1. PICK f \in Fds : /\ InsertInto("proxy", f, sock[f])
                       /\ f \notin Registered(table["proxy"]) /\ pc \in {"start", "insert"}
                       /\ IF pc = "start" THEN Kind(sock[f]) = "listening" ELSE f = cur
  BY Constants DEF Start, InsertPeer, Base, Hands
<1>2. /\ UNCHANGED <<type, sent, asked, out, got, partner, buffer, tunnels, actualfds>> /\ pc' = "loop"
  BY DEF Start, InsertPeer, world, maps
<1>3. /\ sock[f] \in Socks /\ "proxy" \in Sides /\ "net" \in Sides
  BY Holds DEF Sides
<1>4. /\ \A g \in Fds : g # f => sock'[g] = sock[g]
      /\ sock'[f] \in {sock[f], Closed}
      /\ Registered(table'["proxy"]) \subseteq Registered(table["proxy"]) \cup {f}
      /\ table'["net"] = table["net"]
  BY <1>1, <1>3, Inserting
<1>5. \A g \in Fds : sock'[g] = sock[g] \/ (Kind(sock'[g]) = "closed" /\ sock'[g].inbox = <<>>)
  <2>1. Kind(Closed) = "closed" /\ Closed.inbox = <<>>
    BY NewSocks DEF Closed, NewSock
  <2> QED BY <1>4, <2>1
<1>6. Fed' = Fed
  BY <1>2, <1>4 DEF Fed
<1>7. Linked' \subseteq Linked
  <2>1. ASSUME NEW g \in Fds, g \in Linked'
        PROVE  g \in Linked
    <3>1. Kind(sock'[g]) = "peer" /\ g \in Registered(table'["proxy"])
      BY <2>1, <1>2 DEF Linked
    <3>2. sock'[g] = sock[g]
      BY <3>1, <1>5
    <3>3. g \in Registered(table["proxy"]) \/ g = f
      BY <3>1, <1>4
    <3> QED BY <3>1, <3>2, <3>3, <1>1 DEF Linked
  <2> QED BY <2>1 DEF Linked
<1>8. InsFewer
  BY <1>5, TypesNext, Parts DEF InsFewer
<1>9. NetsFewer /\ ProxiesFewer /\ OutsFewer /\ GotsFewer
  BY <1>2, SameFewer
<1> QED BY <1>2, <1>5, <1>6, <1>7, <1>8, <1>9, NoneSent, QueuedShrinks

\* A promise without a client.
LEMMA NoClientQueued ==
  ASSUME Base, Base', Queued, Unstale' => Unstale, NoClient
  PROVE  Queued'
<1>1. /\ UNCHANGED <<type, sent, asked, out, got, partner, buffer, table, pc, cur, msg, actualfds, sock>>
      /\ tunnels' = <<NoFd>>
  BY DEF NoClient, world, maps
<1>2. Linked' = Linked /\ Fed' = Fed
  BY <1>1 DEF Linked, Fed
<1>3. InsFewer /\ NetsFewer /\ ProxiesFewer /\ OutsFewer /\ GotsFewer
  BY <1>1, SameFewer
<1>4. \A i \in DOMAIN tunnels' : tunnels'[i] = NoFd
  BY <1>1
<1> QED BY <1>1, <1>2, <1>3, <1>4, NoneSent, QueuedShrinks

\* A tunnel is registered, or closed.
LEMMA TakeTunnelQueued ==
  ASSUME Base, Base', Queued, Unstale' => Unstale, TakeTunnel
  PROVE  Queued'
<1>h. PICK h : h = Head(actualfds)
  OBVIOUS
<1>1. /\ actualfds # <<>> /\ actualfds' = Tail(actualfds)
      /\ InsertInto("net", h, sock[h])
      /\ UNCHANGED <<type, sent, asked, out, got, pc, cur, msg, tunnels, partner, buffer>>
  BY <1>h DEF TakeTunnel, world, setup
<1>2. /\ h \in Fds /\ h = actualfds[1] /\ 1 \in DOMAIN actualfds
      /\ \A i \in DOMAIN actualfds' : i + 1 \in DOMAIN actualfds /\ actualfds'[i] = actualfds[i + 1]
      /\ \A i \in DOMAIN actualfds : i = 1 \/ \E j \in DOMAIN actualfds' : actualfds'[j] = actualfds[i]
  <2>1. actualfds \in Seq(Fds)
    BY DEF Base, Typed
  <2>2. \A i \in DOMAIN actualfds : i = 1 \/ (i - 1 \in DOMAIN actualfds' /\ actualfds'[i - 1] = actualfds[i])
    BY <1>1, <2>1
  <2> QED BY <1>1, <1>h, <2>1, <2>2, TailFields
<1>3. /\ sock[h] \in Socks /\ "proxy" \in Sides /\ "net" \in Sides
      /\ h \notin Registered(table["net"]) /\ Kind(sock[h]) = "tunnel" /\ h \in Fed
  BY <1>2, Holds DEF Sides, Fed, Base, Waiting
<1>4. /\ \A g \in Fds : g # h => sock'[g] = sock[g]
      /\ \/ sock'[h] = sock[h] /\ Registered(table'["net"]) = Registered(table["net"]) \cup {h}
         \/ sock'[h] = Closed /\ Registered(table'["net"]) = Registered(table["net"])
      /\ table'["proxy"] = table["proxy"]
  BY <1>1, <1>2, <1>3, Inserting
<1>5. \A g \in Fds : sock'[g] = sock[g] \/ (Kind(sock'[g]) = "closed" /\ sock'[g].inbox = <<>>)
  <2>1. Kind(Closed) = "closed" /\ Closed.inbox = <<>>
    BY NewSocks DEF Closed, NewSock
  <2> QED BY <1>4, <2>1
<1>6. Fed' \subseteq Fed
  BY <1>2, <1>3, <1>4 DEF Fed
<1>7. \A g \in Fed : Kind(sock'[g]) = "tunnel" => g \in Fed'
  BY <1>2, <1>4, NewSocks DEF Fed
<1>8. Linked' \subseteq Linked
  <2>1. \A g \in Fds : Kind(sock'[g]) = "peer" => Kind(sock[g]) = "peer"
    BY <1>5
  <2> QED BY <2>1, <1>1, <1>4 DEF Linked
<1>9. InsFewer
  BY <1>5, TypesNext, Parts DEF InsFewer
<1>10. NetsFewer /\ ProxiesFewer /\ OutsFewer /\ GotsFewer
  BY <1>1, SameFewer
<1> QED BY <1>1, <1>5, <1>6, <1>7, <1>8, <1>9, <1>10, NoneSent, QueuedShrinks

\* A failed read takes from an inbox and closes a descriptor.
LEMMA FailQueued ==
  ASSUME Base, Base', Queued, Unstale' => Unstale, NEW s \in Sides, NEW i \in Slots, table[s].fd[i] # NoFd,
         NEW x \in Socks, x.on = sock[table[s].fd[i]].on, Part(x.inbox, sock[table[s].fd[i]].inbox),
         ReadFails(s, i, x), UNCHANGED <<world, setup, maps, inserted>>
  PROVE  Queued'
<1>f. PICK f : f = table[s].fd[i]
  OBVIOUS
<1>v. PICK v : v = Victim(table[s], i)
  OBVIOUS
<1>1. /\ Registered(table'[s]) = Registered(table[s]) \ {v}
      /\ \A r \in Sides : r # s => table'[r] = table[r]
      /\ \A g \in Fds : IF g = v THEN sock'[g] = Closed ELSE sock'[g].on = sock[g].on
      /\ \A g \in Fds : g # v /\ g # f => sock'[g] = sock[g]
      /\ v # f => sock'[f] = x
      /\ buffer' = buffer
  <2>1. Failed(s, i, x)
    BY Failing
  <2> QED BY <2>1, <1>f, <1>v DEF Failed
<1>2. UNCHANGED <<type, sent, asked, out, got, partner, pc, cur, msg, tunnels, actualfds>>
  BY DEF world, setup, maps
<1>3. \A g \in Fds : sock'[g].on = sock[g].on \/ Kind(sock'[g]) = "closed"
  BY <1>1, NewSocks
<1>4. \A r \in Sides : Registered(table'[r]) \subseteq Registered(table[r])
  BY <1>1
<1>5. Linked' \subseteq Linked /\ Fed' \subseteq Fed
  <2>1. \A g \in Fds : Kind(sock'[g]) = "peer" => Kind(sock[g]) = "peer"
    BY <1>3 DEF Kind
  <2> QED BY <2>1, <1>2, <1>4 DEF Linked, Fed, Sides
<1>6. \A g \in Fed : Kind(sock'[g]) = "tunnel" => g \in Fed'
  <2>1. \A g \in Fds : Kind(sock'[g]) = "tunnel" => g # v
    BY <1>1, NewSocks
  <2>2. \A g \in Registered(table["net"]) : g # v => g \in Registered(table'["net"])
    BY <1>1 DEF Sides
  <2> QED BY <2>1, <2>2, <1>2, LinkedFed DEF Fed
<1>7. InsFewer
  <2>1. ASSUME NEW g \in Fds
        PROVE  Part(sock'[g].inbox, sock[g].inbox)
    <3>1. CASE g = v
      <4>1. sock'[g].inbox = <<>>
        BY <3>1, <1>1 DEF Closed, NewSock
      <4> QED BY <4>1, TypesNext, Parts
    <3>2. CASE g # v /\ g = f
      BY <3>2, <1>1, <1>f
    <3>3. CASE g # v /\ g # f
      BY <3>3, <1>1, TypesNext, Parts
    <3> QED BY <3>1, <3>2, <3>3
  <2> QED BY <2>1 DEF InsFewer
<1>8. NetsFewer /\ ProxiesFewer /\ OutsFewer /\ GotsFewer
  BY <1>1, <1>2, SameFewer
<1> QED BY <1>1, <1>2, <1>3, <1>5, <1>6, <1>7, <1>8, NoneSent, QueuedShrinks

\* No unit, or fewer, with all else as it was.
LEMMA StillQueued ==
  ASSUME Base, Base', Queued, Unstale' => Unstale,
         UNCHANGED <<type, partner, table, pc, cur, msg, tunnels, actualfds>>, Onward,
         \A f \in Fds : sock'[f].on = sock[f].on,
         InsFewer, NetsFewer, ProxiesFewer, OutsFewer, GotsFewer
  PROVE  Queued'
<1>1. \A f \in Fds : Kind(sock'[f]) = Kind(sock[f])
  BY DEF Kind
<1>2. Linked' = Linked /\ Fed' = Fed
  BY <1>1 DEF Linked, Fed
<1> QED BY <1>2, QueuedShrinks
-----------------------------------------------------------------------------
(* The steps that bring units.                                             *)

\* A unit that was not sent before is younger than all of its kind.
LEMMA Newest ==
  ASSUME Base, Counted, NEW e \in Units, ~SentBy(e, sent, asked), NEW p \in Places,
         \/ e \in Datagrams /\ Queues[p] \in Seq(Datagrams)
         \/ e \in Frames /\ Queues[p] \in Seq(Frames)
  PROVE  Less(Queues[p], <<e>>)
<1>1. /\ \A c \in Datagrams : c[1] \in Peers /\ c[2] \in Nat
      /\ \A c \in Frames : c[1] \in Tunnels /\ c[2] \in Nat /\ c \notin Datagrams
  <2>1. \A c \in Frames : c \notin Datagrams
    BY FramesApart
  <2> QED BY <2>1 DEF Datagrams, Frames
<1>2. /\ \A u \in Peers : sent[u] \in Nat
      /\ \A t \in Tunnels : asked[t] \in Int
  BY Constants DEF Base, Typed
<1>3. ASSUME NEW i \in DOMAIN Queues[p], Queues[p][i][1] = e[1]
      PROVE  Queues[p][i][2] < e[2]
  <2>1. PICK c : c = Queues[p][i]
    OBVIOUS
  <2>2. SentBy(c, sent, asked) /\ c[1] = e[1]
    BY <1>3, <2>1 DEF Counted, Numbered
  <2>3. CASE e \in Datagrams /\ c \in Datagrams
    BY <1>1, <1>2, <2>1, <2>2, <2>3 DEF SentBy
  <2>4. CASE e \in Frames /\ c \in Frames
    BY <1>1, <1>2, <2>1, <2>2, <2>4 DEF SentBy
  <2> QED BY <2>1, <2>3, <2>4
<1> QED BY <1>3 DEF Less

\* A new unit waits at a socket.
LEMMA MoreQueued ==
  ASSUME Base, Base', Queued, Unstale' => Unstale, Onward,
         UNCHANGED <<type, out, got, partner, buffer, table, pc, cur, msg, tunnels, actualfds>>,
         \A g \in Fds : sock'[g].on = sock[g].on,
         NEW f \in Fds, NEW e \in Units, ~SentBy(e, sent, asked), SentBy(e, sent', asked'),
         sock'[f].inbox = Append(sock[f].inbox, e), \A g \in Fds : g # f => sock'[g].inbox = sock[g].inbox,
         IF Kind(sock[f]) = "tunnel" THEN e \in Frames /\ e[1] = On(f)[2] ELSE e \in Datagrams
  PROVE  Queued'
<1>1. /\ \A g \in Fds : Kind(sock'[g]) = Kind(sock[g]) /\ On(g)' = On(g)
      /\ Hand' = Hand
  BY DEF Kind, On, Hand
<1>2. Linked' = Linked /\ Fed' = Fed
  BY <1>1 DEF Linked, Fed
<1>3. Counted'
  <2>1. PICK b \in Places : b = <<"in", f>>
    BY QueuesAt
  <2>2. Queues'[b] = Append(Queues[b], e)
    BY <2>1, QueuesAt
  <2>3. OnlyAt(b, b)
    BY <1>1, <2>1 DEF OnlyAt
  <2> QED BY <2>1, <2>2, <2>3, CountedMore DEF Queued
<1>4. NetsFewer /\ ProxiesFewer /\ OutsFewer /\ GotsFewer
  BY SameFewer
<1>5. /\ InOrder(sock'[f].inbox)
      /\ \A p : Less(p, sock[f].inbox) /\ Less(p, <<e>>) => Less(p, sock'[f].inbox)
  <2>1. sock[f].inbox \in Seq(Units)
    BY QueueTypes
  <2>2. InOrder(sock[f].inbox) /\ Less(sock[f].inbox, <<e>>)
    <3>1. PICK p \in Places : Queues[p] = sock[f].inbox
      BY QueuesAt
    <3> QED BY <3>1, QueueTypes, Newest DEF Queued, Inflow
  <2> QED BY <2>1, <2>2, GrowLess
<1>6. e \in Datagrams => /\ Less(Hand, <<e>>)
                         /\ \A g \in Fds : Less(buffer["net"][g], <<e>>)
                         /\ \A t \in Tunnels : Less(out[t], <<e>>)
  BY QueuesAt, QueueTypes, Newest DEF Queued
<1>7. e \in Frames => /\ \A g \in Fds : Less(buffer["proxy"][g], <<e>>)
                      /\ \A u \in Peers : Less(got[u], <<e>>)
  BY QueuesAt, QueueTypes, Newest DEF Queued
<1>8. Inflow'
  <2>1. \A g \in Fds : InOrder(sock'[g].inbox)
    BY <1>5 DEF Queued, Inflow
  <2>2. pc' \in {"bound", "await", "push"} /\ Kind(sock'[cur']) \in {"bound", "peer"} =>
          Less(Hand', sock'[cur'].inbox)
    <3>1. pc \in {"bound", "await", "push"} => cur \in Fds
      BY DEF Base, Hands
    <3>2. pc \in {"bound", "await", "push"} /\ Kind(sock[cur]) \in {"bound", "peer"} =>
            Less(Hand, sock[cur].inbox)
      BY DEF Queued, Inflow
    <3> QED BY <1>1, <1>5, <1>6, <3>1, <3>2
  <2>3. ASSUME NEW g \in Fds, Kind(sock'[g]) = "tunnel"
        PROVE  /\ From(sock'[g].inbox, sock'[g].on[2])
               /\ \A h \in Fds : Less(buffer'["proxy"][h], sock'[g].inbox)
               /\ \A u \in Peers : Less(got'[u], sock'[g].inbox)
    <3>1. /\ From(sock[g].inbox, On(g)[2])
          /\ \A h \in Fds : Less(buffer["proxy"][h], sock[g].inbox)
          /\ \A u \in Peers : Less(got[u], sock[g].inbox)
      BY <1>1, <2>3 DEF Queued, Inflow
    <3>2. CASE g = f
      <4>1. e \in Frames /\ e[1] = On(g)[2]
        BY <1>1, <2>3, <3>2
      <4>2. From(Append(sock[f].inbox, e), On(g)[2])
        <5>1. sock[f].inbox \in Seq(Units)
          BY QueueTypes
        <5> QED BY <3>1, <3>2, <4>1, <5>1, FromMore
      <4> QED BY <1>5, <1>7, <3>1, <3>2, <4>1, <4>2 DEF On
    <3>3. CASE g # f
      BY <3>1, <3>3 DEF On
    <3> QED BY <3>2, <3>3
  <2>4. \A i \in DOMAIN tunnels' : tunnels'[i] # NoFd => Unheard(sock'[tunnels'[i]].on[2])
    <3>1. \A i \in DOMAIN tunnels : tunnels[i] # NoFd => tunnels[i] \in Fds
      BY LinkedFed
    <3> QED BY <3>1, <1>1 DEF Queued, Inflow, On
  <2> QED BY <2>1, <2>2, <2>3, <2>4 DEF Inflow, On, Unheard
<1>9. ASSUME Unstale'
      PROVE  Coupling' /\ Outward' /\ Homeward'
  <2>0. Coupling /\ Outward /\ Homeward
    BY <1>9 DEF Queued
  <2>1. Coupling'
    <3>1. pc' = "bound" => buffer'["proxy"][cur] = <<>>
      BY <2>0 DEF Coupling
    <3>2. ASSUME NEW i \in DOMAIN tunnels', NEW g \in Fds, tunnels'[i] = g
          PROVE  Unused(g)'
      <4>1. Unused(g)
        BY <2>0, <3>2, Constants DEF Coupling
      <4> QED BY <1>1, <4>1 DEF Unused
    <3> QED BY <1>1, <1>2, <2>0, <3>1, <3>2, CouplingKept
  <2>2. Outward'
    <3>1. ASSUME NEW h \in Linked, NEW g \in Fds, g = partner["proxy"][h], Kind(sock[g]) = "tunnel"
          PROVE  Less(out[On(g)[2]], sock'[h].inbox) /\ Less(buffer["net"][g], sock'[h].inbox)
      <4>1. Less(out[On(g)[2]], sock[h].inbox) /\ Less(buffer["net"][g], sock[h].inbox)
        BY <2>0, <3>1 DEF Outward, IsTunnel
      <4>2. h \in Fds /\ Kind(sock[h]) = "peer" /\ On(g)[2] \in Tunnels
        BY <3>1, LinkedFed
      <4> QED BY <1>5, <1>6, <4>1, <4>2
    <3> QED BY <1>1, <1>2, <2>0, <3>1 DEF Outward, IsTunnel
  <2>3. Homeward'
    <3>1. \A f2 \in Fds : Kind(sock'[f2]) \in {"bound", "peer"} => Kind(sock[f2]) \in {"bound", "peer"}
      BY <1>1
    <3>2. \A g \in Fed' : g \in Fed /\ sock'[g].on = sock[g].on
      BY <1>2, LinkedFed
    <3> QED BY <1>4, <2>0, <3>1, <3>2, HomewardKept
  <2> QED BY <2>1, <2>2, <2>3
<1> QED BY <1>3, <1>8, <1>9 DEF Queued

\* A datagram comes to a socket, or nobody is there.
LEMMA ArriveQueued ==
  ASSUME Base, Base', Queued, Unstale' => Unstale, NEW u \in Peers, Arrive(u)
  PROVE  Queued'
<1>1. UNCHANGED <<type, out, got, partner, buffer, table, pc, cur, msg, tunnels, actualfds, asked>>
  BY DEF Arrive, setup, maps
<1>2. /\ sent \in [Peers -> Nat] /\ asked \in [Tunnels -> -1 .. MaxReply] /\ MaxReply \in Nat
      /\ sent' = [sent EXCEPT ![u] = @ + 1]
  BY Constants DEF Arrive, Base, Typed
<1>3. Onward
  BY <1>1, <1>2 DEF Onward
<1>4. CASE UNCHANGED sock
  <2>1. InsFewer /\ NetsFewer /\ ProxiesFewer /\ OutsFewer /\ GotsFewer
    BY <1>1, <1>4, SameFewer
  <2> QED BY <1>1, <1>3, <1>4, <2>1, StillQueued
<1>5. CASE ~UNCHANGED sock
  <2>1. PICK f \in Fds, n \in {0, 1} :
            /\ On(f) \in {<<"peer", u>>, Listening.on, Bound.on}
            /\ sock' = [sock EXCEPT ![f].inbox = Append(@, <<u, sent[u] + 1, n>>)]
    BY <1>5 DEF Arrive
  <2>e. PICK e : e = <<u, sent[u] + 1, n>>
    OBVIOUS
  <2>2. e \in Datagrams /\ e[1] = u /\ e[2] = sent[u] + 1 /\ e \in Units
    BY <1>2, <2>e DEF Datagrams, Units
  <2>3. Kind(sock[f]) # "closed" /\ Kind(sock[f]) # "tunnel"
    BY <2>1, NewSocks DEF On, Kind
  <2>4. /\ sock'[f].inbox = Append(sock[f].inbox, e)
        /\ \A g \in Fds : g # f => sock'[g] = sock[g]
        /\ \A g \in Fds : sock'[g].on = sock[g].on
    BY <2>1, <2>e, <2>2, <2>3, OneMore
  <2>5. ~SentBy(e, sent, asked) /\ SentBy(e, sent', asked')
    BY <1>2, <2>2 DEF SentBy
  <2>6. \A g \in Fds : g # f => sock'[g].inbox = sock[g].inbox
    BY <2>4
  <2> QED BY <1>1, <1>3, <2>2, <2>3, <2>4, <2>5, <2>6, MoreQueued
<1> QED BY <1>4, <1>5

\* A frame comes, or the stream ends.
LEMMA FrameQueued ==
  ASSUME Base, Base', Queued, Unstale' => Unstale, NEW f \in Fds, Frame(f)
  PROVE  Queued'
<1>1. UNCHANGED <<type, sent, out, got, partner, buffer, table, pc, cur, msg, tunnels, actualfds>>
  BY DEF Frame, setup, maps
<1>t. PICK t : t = On(f)[2]
  OBVIOUS
<1>k. Kind(sock[f]) = "tunnel" /\ t \in Tunnels /\ sock \in [Fds -> Socks]
  BY <1>t, LinkedFed DEF Frame, Kind, On, Base, Typed
<1>2. /\ sent \in [Peers -> Nat] /\ asked \in [Tunnels -> -1 .. MaxReply] /\ MaxReply \in Nat
  BY Constants DEF Base, Typed
<1>3. CASE sock' = [sock EXCEPT ![f].down = TRUE] /\ UNCHANGED asked
  <2>1. \A g \in Fds : sock'[g].inbox = sock[g].inbox /\ sock'[g].on = sock[g].on
    <3>1. [sock[f] EXCEPT !.down = TRUE].inbox = sock[f].inbox /\ [sock[f] EXCEPT !.down = TRUE].on = sock[f].on
      BY <1>k, SockFields
    <3> QED BY <1>3, <1>k, <3>1
  <2>2. InsFewer /\ NetsFewer /\ ProxiesFewer /\ OutsFewer /\ GotsFewer
    BY <1>1, <2>1, SameFewer
  <2> QED BY <1>1, <1>3, <2>1, <2>2, NoneSent, StillQueued
<1>4. CASE /\ asked' = [asked EXCEPT ![t] = @ + 1]
           /\ sock' = [sock EXCEPT ![f].inbox = Append(@, <<t, asked[t] + 1>>)]
  <2>e. PICK e : e = <<t, asked[t] + 1>>
    OBVIOUS
  <2>1. asked[t] \in -1 .. MaxReply /\ asked[t] # -1
    BY <1>k, <1>t, LinkedFed DEF Base, Typed, OneEach
  <2>2. e \in Frames /\ e[1] = t /\ e[2] = asked[t] + 1 /\ e \in Units
    BY <2>e, <2>1, <1>k, Constants DEF Frames, Units
  <2>3. /\ sock'[f].inbox = Append(sock[f].inbox, e)
        /\ \A g \in Fds : g # f => sock'[g] = sock[g]
        /\ \A g \in Fds : sock'[g].on = sock[g].on
    BY <1>4, <1>k, <2>e, <2>2, OneMore
  <2>4. ~SentBy(e, sent, asked) /\ SentBy(e, sent', asked')
    <3>1. e \notin Datagrams
      BY <2>2, FramesApart
    <3> QED BY <1>2, <1>4, <1>k, <2>1, <2>2, <3>1 DEF SentBy
  <2>5. Onward
    BY <1>1, <1>2, <1>4 DEF Onward
  <2>6. \A g \in Fds : g # f => sock'[g].inbox = sock[g].inbox
    BY <2>3
  <2> QED BY <1>1, <1>k, <1>t, <2>2, <2>3, <2>4, <2>5, <2>6, MoreQueued
<1> QED BY <1>3, <1>4, <1>t DEF Frame
-----------------------------------------------------------------------------
(* Units that go from one queue to another.                                *)

\* The head goes.
LEMMA HeadJoins ==
  ASSUME NEW q \in Seq(Units), NEW a \in Seq(Units), a # <<>>
  PROVE  Joins(q, a, 1, Append(q, Head(a)), Tail(a))
  BY JoinHead DEF Joins

\* No unit is lost or doubled on its way.
LEMMA Moved ==
  ASSUME Base, Base', Counted, UNCHANGED <<sent, asked>>,
         NEW x \in Places, NEW y \in Places, x # y, OnlyAt(x, y), NEW n,
         Joins(Queues[y], Queues[x], n, Queues'[y], Queues'[x])
  PROVE  Counted'
<1>1. /\ n \in 1 .. Len(Queues[x]) /\ Queues'[y] = Queues[y] \o SubSeq(Queues[x], 1, n)
      /\ Queues'[x] = SubSeq(Queues[x], n + 1, Len(Queues[x]))
  BY DEF Joins
<1> QED BY <1>1, CountedMoved

\* What is left of a queue.
LEMMA JoinsLeft ==
  ASSUME NEW q \in Seq(Units), NEW a \in Seq(Units), NEW n, NEW r, NEW b, Joins(q, a, n, r, b)
  PROVE  Part(b, a)
  BY Parts DEF Joins

\* Two tunnels, and what is of one tunnel alone.
LEMMA JoinForeign ==
  ASSUME NEW q \in Seq(Units), NEW a \in Seq(Units), NEW n, NEW r, NEW b, Joins(q, a, n, r, b),
         NEW p, Foreign(p, q), Foreign(p, a)
  PROVE  Foreign(p, r) /\ Foreign(r, p)
<1>1. \A t : None(q, t) /\ None(a, t) => None(r, t)
  BY JoinLess
<1>2. \A i \in DOMAIN p : None(q, p[i][1]) /\ None(a, p[i][1])
  BY DEF Foreign, None
<1>3. \A i \in DOMAIN p : None(r, p[i][1])
  BY <1>1, <1>2
<1> QED BY <1>3 DEF Foreign, None

\* What is all of one sender is older and younger than what has none of it.
LEMMA FromNone ==
  /\ \A q, t, s : From(q, t) /\ s # t => None(q, s)
  /\ \A p, q, t : None(p, t) /\ From(q, t) => Foreign(p, q)
  /\ \A p, q, t, s : From(p, t) /\ From(q, s) /\ s # t => Less(p, q)
  /\ \A p, q : Foreign(p, q) => Foreign(q, p) /\ Less(p, q)
  BY DEF From, None, Foreign, Less

\* Runs of what two tunnels brought.
LEMMA PartForeign ==
  ASSUME NEW q1, NEW r1, Part(r1, q1), NEW q2, NEW r2, Part(r2, q2), Foreign(q1, q2)
  PROVE  Foreign(r1, r2)
  BY DEF Part, Foreign

-----------------------------------------------------------------------------
(* The steps that open sockets and couple them.                            *)

\* A new tunnel was never heard.
LEMMA NeverHeard ==
  ASSUME Base, Counted, NEW t \in Tunnels, asked[t] = -1
  PROVE  Unheard(t)
<1>1. /\ \A f \in Fds : buffer["proxy"][f] \in Seq(Frames)
      /\ \A u \in Peers : got[u] \in Seq(Frames)
  BY QueueTypes
<1>2. \A c \in Frames : SentBy(c, sent, asked) => c[1] # t
  <2>1. \A c \in Frames : c \notin Datagrams
    BY FramesApart
  <2>2. \A c \in Frames : c[2] \in Nat
    BY DEF Frames
  <2> QED BY <2>1, <2>2 DEF SentBy
<1>3. /\ \A f \in Fds : \A i \in DOMAIN buffer["proxy"][f] : SentBy(buffer["proxy"][f][i], sent, asked)
      /\ \A u \in Peers : \A i \in DOMAIN got[u] : SentBy(got[u][i], sent, asked)
  <2>1. ASSUME NEW f \in Fds, NEW i \in DOMAIN buffer["proxy"][f]
        PROVE  SentBy(buffer["proxy"][f][i], sent, asked)
    <3>1. PICK p \in Places : Queues[p] = buffer["proxy"][f]
      BY QueuesAt
    <3> QED BY <3>1 DEF Counted, Numbered
  <2>2. ASSUME NEW u \in Peers, NEW i \in DOMAIN got[u]
        PROVE  SentBy(got[u][i], sent, asked)
    <3>1. PICK p \in Places : Queues[p] = got[u]
      BY QueuesAt
    <3> QED BY <3>1 DEF Counted, Numbered
  <2> QED BY <2>1, <2>2
<1>4. /\ \A f \in Fds : \A i \in DOMAIN buffer["proxy"][f] : buffer["proxy"][f][i] \in Frames
      /\ \A u \in Peers : \A i \in DOMAIN got[u] : got[u][i] \in Frames
  BY <1>1
<1> QED BY <1>2, <1>3, <1>4 DEF Unheard, None

\* A new tunnel.
LEMMA TunnelQueued ==
  ASSUME Base, Base', Queued, Unstale' => Unstale, Tunnel
  PROVE  Queued'
<1>1. PICK t \in Tunnels, f \in Fds :
          /\ asked[t] = -1 /\ asked' = [asked EXCEPT ![t] = 0]
          /\ IsLowestFree(f)
          /\ sock' = [sock EXCEPT ![f] = NewSock(<<"tunnel", t>>)]
          /\ tunnels' = Append(tunnels, f)
          /\ seen' = seen \cup Stale(f)
  BY DEF Tunnel
<1>2. /\ UNCHANGED <<type, sent, out, got, table, pc, cur, msg, partner, actualfds, buffer>>
      /\ type = "SERVER" => pc = "await"
  BY DEF Tunnel, maps
<1>3. PICK x \in Socks : /\ x = NewSock(<<"tunnel", t>>) /\ x.on = <<"tunnel", t>> /\ x.inbox = <<>>
                         /\ Kind(x) = "tunnel"
  BY NewSocks DEF Whats, Kind
<1>4. /\ sock'[f] = x /\ \A g \in Fds : g # f => sock'[g] = sock[g]
  BY <1>1, <1>3 DEF Base, Typed
<1>5. /\ sock[f] = Closed /\ Kind(sock[f]) = "closed" /\ f # NoFd
      /\ \A s \in Sides : f \notin Registered(table[s])
      /\ \A i \in DOMAIN actualfds : actualfds[i] # f
      /\ \A i \in DOMAIN tunnels : tunnels[i] # f
  BY <1>1, Free, Constants
<1>6. \A g \in Fds : Kind(sock'[g]) = IF g = f THEN "tunnel" ELSE Kind(sock[g])
  BY <1>3, <1>4
<1>7. Linked' = Linked /\ Fed' = Fed /\ f \notin Fed
  <2>1. \A g \in Fds : Kind(sock'[g]) = "peer" <=> Kind(sock[g]) = "peer"
    BY <1>5, <1>6
  <2>2. f \notin Fed
    BY <1>5 DEF Fed, Sides
  <2> QED BY <2>1, <2>2, <1>2 DEF Linked, Fed
<1>8. /\ tunnels \in Seq(Fds \cup {NoFd})
      /\ \A i \in DOMAIN tunnels' : tunnels'[i] = IF i \in DOMAIN tunnels THEN tunnels[i] ELSE f
      /\ \A i \in DOMAIN tunnels : tunnels[i] # NoFd => tunnels[i] \in Fds /\ sock'[tunnels[i]] = sock[tunnels[i]]
  <2>1. tunnels \in Seq(Fds \cup {NoFd})
    BY DEF Base, Typed
  <2>2. \A i \in DOMAIN tunnels' : tunnels'[i] = IF i \in DOMAIN tunnels THEN tunnels[i] ELSE f
    BY <2>1, <1>1, AppendFields
  <2> QED BY <2>1, <2>2, <1>4, <1>5, Holds
<1>9. InsFewer
  BY <1>3, <1>4, TypesNext, Parts DEF InsFewer
<1>10. NetsFewer /\ ProxiesFewer /\ OutsFewer /\ GotsFewer /\ HandFewer
  BY <1>2, SameFewer
<1>11. Onward
  <2>1. /\ \A u \in Peers : sent[u] \in Nat
        /\ asked \in [Tunnels -> -1 .. MaxReply] /\ MaxReply \in Nat
    BY Constants DEF Base, Typed
  <2> QED BY <2>1, <1>1, <1>2 DEF Onward
<1>12. Counted'
  BY <1>9, <1>10, <1>11, CountedFewer DEF Queued
<1>13. Inflow'
  <2>1. \A g \in Fds : Kind(sock'[g]) = "tunnel" => sock'[g].on = sock[g].on \/ sock'[g].inbox = <<>>
    BY <1>3, <1>4
  <2>2. pc \in {"bound", "await", "push"} /\ Kind(sock'[cur]) \in {"bound", "peer"} =>
           Kind(sock[cur]) \in {"bound", "peer"}
    <3>1. pc \in {"bound", "await", "push"} => cur \in Fds
      BY DEF Base, Hands
    <3> QED BY <3>1, <1>6
  <2>3. Unheard(t)
    BY <1>1, NeverHeard DEF Queued
  <2>4. \A i \in DOMAIN tunnels : tunnels[i] # NoFd => Unheard(sock[tunnels[i]].on[2])
    BY DEF Queued, Inflow, On
  <2>5. \A i \in DOMAIN tunnels' : tunnels'[i] # NoFd => Unheard(sock'[tunnels'[i]].on[2])
    BY <2>3, <2>4, <1>3, <1>4, <1>8
  <2> QED BY <2>1, <2>2, <2>5, <1>2, <1>9, <1>10, InflowKept DEF Queued
<1>14. ASSUME Unstale'
       PROVE  Coupling' /\ Outward' /\ Homeward'
  <2>0. Coupling /\ Outward /\ Homeward
    BY <1>14 DEF Queued
  <2>1. /\ buffer["net"][f] = <<>>
        /\ \A g \in Fds : Kind(sock[g]) # "closed" => partner["proxy"][g] # f
    <3>1. "stale" \notin Stale(f)
      BY <1>1, <1>14 DEF Unstale
    <3> QED BY <3>1, NewSocks DEF Stale, Sides
  <2>2. pc = "push" => partner["proxy"][cur] = NoFd
    <3>1. pc = "push" => type = "CLIENT"
      BY <1>2, Constants DEF Base, Typed
    <3> QED BY <3>1, <2>0 DEF Coupling
  <2>3. Unused(f)'
    <3>1. out[t] = <<>>
      BY <1>1 DEF Base, OneEach
    <3> QED BY <3>1, <2>1, <1>2, <1>3, <1>4 DEF Unused, On
  <2>4. Coupling'
    <3>1. ASSUME NEW h \in Linked, NEW g \in Fds, g = partner["proxy"][h], Kind(sock'[g]) = "tunnel"
          PROVE  g \in Fed /\ partner["net"][g] = h
      <4>1. h \in Fds /\ Kind(sock[h]) = "peer"
        BY LinkedFed
      <4>2. g # f
        BY <4>1, <2>1, <3>1
      <4> QED BY <3>1, <4>2, <1>6, <2>0 DEF Coupling, IsTunnel
    <3>2. ASSUME NEW i \in DOMAIN tunnels', tunnels'[i] # NoFd
          PROVE  out'[sock'[tunnels'[i]].on[2]] = <<>> /\ buffer'["net"][tunnels'[i]] = <<>>
      <4>1. CASE i \in DOMAIN tunnels
        BY <3>2, <4>1, <1>2, <1>8, <2>0 DEF Coupling, Unused, On
      <4>2. CASE i \notin DOMAIN tunnels
        BY <4>2, <1>8, <2>3 DEF Unused, On
      <4> QED BY <4>1, <4>2
    <3>3. \A h \in Linked' : LET g == partner["proxy"][h] IN
             IsTunnel(g)' => g \in Fed' /\ partner["net"][g] = h
      BY <3>1, <1>2, <1>7 DEF IsTunnel
    <3>4. pc = "push" => ~IsTunnel(partner["proxy"][cur])'
      BY <2>2, Constants, <1>2 DEF IsTunnel
    <3> QED BY <3>2, <3>3, <3>4, <1>2, <1>7, <2>0 DEF Coupling, IsTunnel, Unused, On
  <2>5. Outward'
    <3>1. \A g \in Fds : Kind(sock'[g]) = "tunnel" => sock'[g].on = sock[g].on \/ Unused(g)'
      BY <1>4, <2>3
    <3> QED BY <3>1, <1>2, <1>7, <1>9, <1>10, <2>0, OutwardKept
  <2>6. Homeward'
    <3>1. \A h \in Fds : Kind(sock'[h]) \in {"bound", "peer"} => sock'[h] = sock[h]
      BY <1>4, <1>6
    <3>2. \A g \in Fed' : g \in Fed /\ sock'[g].on = sock[g].on
      BY <1>4, <1>7, LinkedFed
    <3> QED BY <3>1, <3>2, <1>2, <1>10, <2>0, HomewardKept
  <2> QED BY <2>4, <2>5, <2>6
<1> QED BY <1>12, <1>13, <1>14 DEF Queued

\* The oldest datagram of the listening socket, and a number for its sender.
LEMMA ReceiveQueued ==
  ASSUME Base, Base', Queued, Unstale' => Unstale, Receive
  PROVE  Queued'
<1>1. /\ pc = "loop" /\ Listen \in Registered(table["proxy"])
      /\ sock[Listen].inbox # <<>> /\ pc' = "bound" /\ msg' = Head(sock[Listen].inbox)
      /\ UNCHANGED <<type, sent, asked, out, got, table, tunnels, partner, actualfds, buffer>>
  BY DEF Receive, world, maps
<1>2. PICK f \in Fds :
          /\ IsLowestFree(f)
          /\ sock' = [sock EXCEPT ![Listen].inbox = Tail(@), ![f] = Bound]
          /\ cur' = f
          /\ seen' = (seen \cup Stale(f))
                \cup {m \in {"stale"} : type = "CLIENT" /\ partner["proxy"][f] # NoFd}
  BY DEF Receive
<1>3. /\ sock[f] = Closed /\ Kind(sock[f]) = "closed" /\ f # NoFd /\ sock[f].inbox = <<>>
      /\ \A i \in DOMAIN tunnels : tunnels[i] # f
  BY <1>2, Free, Constants DEF Closed, NewSock
<1>4. /\ Listen \in Fds /\ Listen # f /\ sock[Listen] \in Socks
      /\ Kind(sock[Listen]) \in {"listening", "peer"}
  BY <1>1, <1>3, Holds, Constants DEF KindsOf, Sides
<1>5. /\ sock'[f] = Bound /\ sock'[Listen].on = sock[Listen].on
      /\ sock'[Listen].inbox = Tail(sock[Listen].inbox)
      /\ \A g \in Fds : g # f /\ g # Listen => sock'[g] = sock[g]
  <2>1. PICK y : y = [sock[Listen] EXCEPT !.inbox = Tail(sock[Listen].inbox)]
    OBVIOUS
  <2>2. sock' = [sock EXCEPT ![Listen] = y, ![f] = Bound]
    BY <1>2, <2>1
  <2>3. y.on = sock[Listen].on /\ y.inbox = Tail(sock[Listen].inbox)
    BY <2>1, <1>4, SockFields
  <2>4. sock \in [Fds -> Socks]
    BY DEF Base, Typed
  <2> QED BY <2>2, <2>3, <2>4, <1>4
<1>6. /\ Kind(sock'[f]) = "bound" /\ sock'[f].inbox = <<>>
      /\ \A g \in Fds : g # f => sock'[g].on = sock[g].on /\ Kind(sock'[g]) = Kind(sock[g])
      /\ \A g \in Fds : g # Listen => sock'[g].inbox = sock[g].inbox
  BY <1>3, <1>5, NewSocks DEF Kind, Bound, NewSock
<1>7. Linked' = Linked /\ Fed' = Fed
  <2>1. \A g \in Fds : Kind(sock'[g]) = "peer" <=> Kind(sock[g]) = "peer"
    BY <1>3, <1>6
  <2> QED BY <2>1, <1>1 DEF Linked, Fed
<1>8. NetsFewer /\ ProxiesFewer /\ OutsFewer /\ GotsFewer
  BY <1>1, SameFewer
<1>9. InsFewer
  BY <1>1, <1>5, <1>6, TypesNext, Parts DEF InsFewer
<1>10. Counted'
  <2>1. PICK a \in Places, b \in Places :
           /\ a = <<"in", Listen>> /\ b = <<"hand", 0>> /\ a # b
           /\ Queues[a] = sock[Listen].inbox /\ Queues'[a] = sock'[Listen].inbox
           /\ Queues[b] = Hand /\ Queues'[b] = Hand'
    BY <1>4, QueuesAt
  <2>2. Hand = <<>> /\ Hand' = <<msg'>>
    BY <1>1 DEF Hand
  <2>3. OnlyAt(a, b)
    BY <1>1, <1>6, <2>1 DEF OnlyAt
  <2>4. PICK q \in Seq(Units) : q = sock[Listen].inbox
    BY <1>4, QueueTypes
  <2>5. <<>> \in Seq(Units) /\ Append(<<>>, Head(q)) = <<Head(q)>>
    OBVIOUS
  <2>6. /\ 1 \in 1 .. Len(q) /\ Append(<<>>, Head(q)) = <<>> \o SubSeq(q, 1, 1)
        /\ Tail(q) = SubSeq(q, 1 + 1, Len(q))
    BY <1>1, <2>4, <2>5, JoinHead
  <2>7. PICK n \in 1 .. Len(Queues[a]) : n = 1
    BY <2>1, <2>4, <2>6
  <2>8. /\ Queues'[b] = Queues[b] \o SubSeq(Queues[a], 1, n)
        /\ Queues'[a] = SubSeq(Queues[a], n + 1, Len(Queues[a]))
    BY <1>1, <1>5, <2>1, <2>2, <2>4, <2>5, <2>6, <2>7
  <2> QED BY <1>1, <2>1, <2>3, <2>8, CountedMoved DEF Queued
<1>11. \A i \in DOMAIN tunnels : tunnels[i] # NoFd => tunnels[i] \in Fds /\ sock'[tunnels[i]].on = sock[tunnels[i]].on
  BY <1>3, <1>6, Holds
<1>12. Inflow'
  <2>1. \A i \in DOMAIN tunnels : tunnels[i] # NoFd => Unheard(sock'[tunnels[i]].on[2])
    BY <1>11 DEF Queued, Inflow, On
  <2> QED BY <2>1, <1>1, <1>2, <1>6, <1>8, <1>9, InflowKept DEF Queued
<1>13. ASSUME Unstale'
       PROVE  Coupling' /\ Outward' /\ Homeward'
  <2>0. Coupling /\ Outward /\ Homeward
    BY <1>13 DEF Queued
  <2>1. /\ buffer["proxy"][f] = <<>>
        /\ \A g \in Fds : Kind(sock[g]) # "closed" => partner["net"][g] # f
        /\ type = "CLIENT" => partner["proxy"][f] = NoFd
    <3>1. "stale" \notin Stale(f) /\ ~(type = "CLIENT" /\ partner["proxy"][f] # NoFd)
      BY <1>2, <1>13 DEF Unstale
    <3> QED BY <3>1, NewSocks DEF Stale, Sides
  <2>2. Coupling'
    <3>1. \A g : IsTunnel(g)' => IsTunnel(g)
      BY <1>6 DEF IsTunnel
    <3>2. \A g \in Fed : partner["net"][g] # f
      BY <2>1, LinkedFed
    <3>3. \A i \in DOMAIN tunnels : tunnels[i] # NoFd =>
             out[sock'[tunnels[i]].on[2]] = <<>> /\ buffer["net"][tunnels[i]] = <<>>
      BY <1>11, <2>0 DEF Coupling, Unused, On
    <3> QED BY <3>1, <3>2, <3>3, <1>1, <1>2, <1>7, <2>0, <2>1 DEF Coupling, Unused, On
  <2>3. Outward'
    <3>1. \A g \in Fds : Kind(sock'[g]) = "tunnel" => sock'[g].on = sock[g].on
      BY <1>6
    <3> QED BY <3>1, <1>1, <1>7, <1>8, <1>9, <2>0, OutwardKept
  <2>4. Homeward'
    <3>1. \A h \in Fds : Kind(sock'[h]) \in {"bound", "peer"} =>
             buffer'["proxy"][h] = <<>> \/ (Kind(sock[h]) \in {"bound", "peer"} /\ sock'[h].on = sock[h].on)
      BY <1>1, <1>6, <2>1
    <3>2. \A g \in Fed' : g \in Fed /\ sock'[g].on = sock[g].on
      BY <1>3, <1>6, <1>7, LinkedFed
    <3> QED BY <3>1, <3>2, <1>1, <1>8, <2>0, HomewardKept
  <2> QED BY <2>2, <2>3, <2>4
<1> QED BY <1>10, <1>12, <1>13 DEF Queued

\* The new user's socket is connected, or closed.
LEMMA ConnectUserQueued ==
  ASSUME Base, Base', Queued, Unstale' => Unstale, ConnectUser
  PROVE  Queued'
<1>x. PICK x : x = [sock[cur] EXCEPT !.on = <<"peer", msg[1]>>]
  OBVIOUS
<1>1. /\ pc = "bound" /\ InsertInto("proxy", cur, x)
      /\ pc' = IF type = "SERVER" THEN "await" ELSE "push"
      /\ UNCHANGED <<type, sent, asked, out, got, cur, msg, tunnels, partner, actualfds, buffer>>
  BY <1>x DEF ConnectUser, world, maps
<1>2. /\ cur \in Fds /\ sock[cur] \in Socks /\ Kind(sock[cur]) = "bound" /\ type \in {"SERVER", "CLIENT"}
      /\ "proxy" \in Sides /\ "net" \in Sides /\ cur \notin Registered(table["proxy"])
      /\ msg[1] \in Peers
  BY <1>1, Constants DEF Base, Hands, Typed, Kinds, Sides, Datagrams
<1>3. x \in Socks /\ x.on = <<"peer", msg[1]>> /\ x.inbox = sock[cur].inbox
  <2>1. PICK w : w = <<"peer", msg[1]>>
    OBVIOUS
  <2>2. w \in Whats /\ w[1] = "peer"
    BY <1>2, <2>1 DEF Whats
  <2>3. PICK y \in Socks : y = sock[cur] /\ Kind(y) = "bound"
    BY <1>2
  <2>4. /\ y.inbox \in InboxesOf(w) /\ y.err \in BOOLEAN /\ y.down \in BOOLEAN
        /\ y = [on |-> y.on, inbox |-> y.inbox, err |-> y.err, down |-> y.down]
    BY <2>2, <2>3, SockFields DEF InboxesOf, Kind
  <2>5. x = [on |-> w, inbox |-> y.inbox, err |-> y.err, down |-> y.down]
    BY <1>x, <2>1, <2>3, <2>4
  <2>6. w[1] # "closed"
    BY <2>2
  <2>7. x \in Socks
    BY <2>2, <2>4, <2>5, <2>6, SockMade
  <2> QED BY <2>1, <2>3, <2>5, <2>7
<1>4. /\ \A g \in Fds : g # cur => sock'[g] = sock[g]
      /\ sock'[cur] \in {x, Closed}
      /\ Registered(table'["proxy"]) \subseteq Registered(table["proxy"]) \cup {cur}
      /\ table'["net"] = table["net"]
  BY <1>1, <1>2, <1>3, Inserting
<1>5. /\ \A g \in Fds : g # cur => Kind(sock'[g]) = Kind(sock[g])
      /\ Kind(sock'[cur]) \in {"peer", "closed"}
      /\ sock'[cur].inbox \in {sock[cur].inbox, <<>>}
  <2>1. Kind(Closed) = "closed" /\ Closed.inbox = <<>>
    BY NewSocks DEF Closed, NewSock
  <2> QED BY <1>3, <1>4, <2>1 DEF Kind
<1>6. Fed' = Fed
  BY <1>1, <1>4 DEF Fed
<1>7. \A h \in Linked' : h \in Fds /\ ((h \in Linked /\ h # cur) \/ (h = cur /\ type = "CLIENT"))
  <2>1. ASSUME NEW h \in Linked'
        PROVE  h \in Fds /\ ((h \in Linked /\ h # cur) \/ (h = cur /\ type = "CLIENT"))
    <3>1. h \in Fds /\ Kind(sock'[h]) = "peer" /\ h \in Registered(table'["proxy"])
          /\ ~(pc' = "await" /\ h = cur)
      BY <1>1 DEF Linked
    <3>2. CASE h = cur
      BY <3>1, <3>2, <1>1, <1>2
    <3>3. CASE h # cur
      BY <3>1, <3>3, <1>1, <1>4, <1>5 DEF Linked
    <3> QED BY <3>1, <3>2, <3>3
  <2> QED BY <2>1
<1>8. NetsFewer /\ ProxiesFewer /\ OutsFewer /\ GotsFewer /\ HandFewer
  BY <1>1, SameFewer
<1>9. InsFewer
  BY <1>4, <1>5, TypesNext, Parts DEF InsFewer
<1>10. Counted'
  BY <1>1, <1>8, <1>9, NoneSent, CountedFewer DEF Queued
<1>11. \A i \in DOMAIN tunnels : tunnels[i] # NoFd => tunnels[i] \in Fds /\ sock'[tunnels[i]] = sock[tunnels[i]]
  BY <1>2, <1>4, LinkedFed
<1>12. \A g \in Fds : Kind(sock'[g]) = "tunnel" => g # cur /\ sock'[g] = sock[g]
  BY <1>4, <1>5
<1>13. Inflow'
  <2>1. \A i \in DOMAIN tunnels : tunnels[i] # NoFd => Unheard(sock'[tunnels[i]].on[2])
    BY <1>11 DEF Queued, Inflow, On
  <2> QED BY <2>1, <1>1, <1>2, <1>8, <1>9, <1>12, InflowKept DEF Queued
<1>14. ASSUME Unstale'
       PROVE  Coupling' /\ Outward' /\ Homeward'
  <2>0. Coupling /\ Outward /\ Homeward
    BY <1>14 DEF Queued
  <2>1. buffer["proxy"][cur] = <<>> /\ (type = "CLIENT" => partner["proxy"][cur] = NoFd)
    BY <1>1, <2>0 DEF Coupling
  <2>2. Coupling'
    <3>1. \A g : IsTunnel(g)' => IsTunnel(g)
      BY <1>12 DEF IsTunnel
    <3>2. ~IsTunnel(NoFd)
      BY Constants DEF IsTunnel
    <3>3. \A h \in Linked' : LET g == partner["proxy"][h] IN
             IsTunnel(g) => g \in Fed /\ partner["net"][g] = h
      BY <1>7, <2>0, <2>1, <3>2 DEF Coupling
    <3>4. pc' = "push" => type = "CLIENT"
      BY <1>1, <1>2
    <3>5. \A i \in DOMAIN tunnels : tunnels[i] # NoFd =>
             out[sock'[tunnels[i]].on[2]] = <<>> /\ buffer["net"][tunnels[i]] = <<>>
      BY <1>11, <2>0 DEF Coupling, Unused, On
    <3> QED BY <3>1, <3>2, <3>3, <3>4, <3>5, <1>1, <1>6, <2>1 DEF Coupling, Unused, On
  <2>3. Outward'
    <3>1. \A h \in Linked' : \A g \in Fds : partner["proxy"][h] = g => h \in Linked
      BY <1>7, <2>1, Constants
    <3>2. pc' = "push" => \A g \in Fds : partner["proxy"][cur] # g
      BY <1>1, <1>2, <2>1, Constants
    <3> QED BY <3>1, <3>2, <1>1, <1>8, <1>9, <1>12, <2>0, OutwardKept
  <2>4. Homeward'
    <3>1. \A h \in Fds : Kind(sock'[h]) \in {"bound", "peer"} =>
             buffer'["proxy"][h] = <<>> \/ (Kind(sock[h]) \in {"bound", "peer"} /\ sock'[h].on = sock[h].on)
      BY <1>1, <1>4, <1>5, <2>1
    <3>2. \A g \in Fed' : g \in Fed /\ sock'[g].on = sock[g].on
      BY <1>2, <1>4, <1>6, LinkedFed
    <3> QED BY <3>1, <3>2, <1>1, <1>8, <2>0, HomewardKept
  <2> QED BY <2>2, <2>3, <2>4
<1> QED BY <1>10, <1>13, <1>14 DEF Queued

\* A user and the tunnel that comes for it take each other's units; without a

\* tunnel, the map has none for the user.
LEMMA TakePromiseQueued ==
  ASSUME Base, Base', Queued, Unstale' => Unstale, TakePromise
  PROVE  Queued'
<1>1. /\ pc = "await" /\ tunnels # <<>> /\ tunnels' = Tail(tunnels) /\ pc' = "push"
      /\ UNCHANGED <<type, sent, asked, out, got, table, cur, msg, buffer>>
  BY DEF TakePromise, world
<1>h. PICK h : h = Head(tunnels)
  OBVIOUS
<1>2. cur \in Fds /\ type = "SERVER"
  BY <1>1 DEF Base, Hands
<1>3. /\ h \in Fds \cup {NoFd} /\ h = tunnels[1] /\ 1 \in DOMAIN tunnels
      /\ \A i \in DOMAIN tunnels' : /\ i + 1 \in DOMAIN tunnels /\ tunnels'[i] = tunnels[i + 1]
                                    /\ i + 1 # 1
  BY <1>1, <1>h, TailFields DEF Base, Typed
<1>4. /\ \A g \in Fds : sock'[g].on = sock[g].on /\ Kind(sock'[g]) = Kind(sock[g])
      /\ \A g \in Fds : sock'[g].inbox = sock[g].inbox
  <2>1. \A g \in Fds : ShutDown(sock[g]).on = sock[g].on /\ ShutDown(sock[g]).inbox = sock[g].inbox
    <3>1. \A g \in Fds : sock[g] \in Socks
      BY Holds
    <3>2. \A g \in Fds : \A q : /\ [sock[g] EXCEPT !.down = q].on = sock[g].on
                                /\ [sock[g] EXCEPT !.down = q].inbox = sock[g].inbox
      BY <3>1, SockFields
    <3> QED BY <3>2, Zenon DEF ShutDown
  <2>2. \A g \in Fds : sock'[g] \in {sock[g], ShutDown(sock[g])}
    BY DEF TakePromise
  <2> QED BY <2>1, <2>2 DEF Kind
<1>5. \A f \in Linked' : f \in Fds /\ f \in Linked \cup {cur}
  BY <1>1, <1>4 DEF Linked
<1>6. InsFewer /\ NetsFewer /\ ProxiesFewer /\ OutsFewer /\ GotsFewer /\ HandFewer
  BY <1>1, <1>4, SameFewer
<1>7. Counted'
  BY <1>1, <1>6, NoneSent, CountedFewer DEF Queued
<1>8. \A i \in DOMAIN tunnels : tunnels[i] # NoFd =>
          /\ tunnels[i] \in Fds /\ Kind(sock[tunnels[i]]) = "tunnel" /\ tunnels[i] \notin Fed
          /\ sock'[tunnels[i]].on = sock[tunnels[i]].on /\ Unheard(sock[tunnels[i]].on[2])
  BY <1>4, LinkedFed DEF Queued, Inflow, On
<1>9. Inflow'
  <2>1. \A i \in DOMAIN tunnels' : tunnels'[i] # NoFd => Unheard(sock'[tunnels'[i]].on[2])
    BY <1>3, <1>8
  <2> QED BY <2>1, <1>1, <1>2, <1>4, <1>6, InflowKept DEF Queued
<1>10. ASSUME Unstale'
       PROVE  Coupling' /\ Outward' /\ Homeward'
  <2>0. Coupling /\ Outward /\ Homeward
    BY <1>10 DEF Queued
  <2>1. \A i \in DOMAIN tunnels : tunnels[i] # NoFd =>
           out[sock[tunnels[i]].on[2]] = <<>> /\ buffer["net"][tunnels[i]] = <<>>
    BY <2>0 DEF Coupling, Unused, On
  <2>2. \A i \in DOMAIN tunnels' : tunnels'[i] # NoFd =>
           out'[sock'[tunnels'[i]].on[2]] = <<>> /\ buffer'["net"][tunnels'[i]] = <<>>
    BY <1>1, <1>3, <1>8, <2>1
  <2>3. \A f \in Linked : \A g \in Fds : partner["proxy"][f] = g /\ Kind(sock[g]) = "tunnel" =>
           g \in Fed /\ partner["net"][g] = f
    BY <2>0 DEF Coupling, IsTunnel
  <2>4. \A f \in Fds : Kind(sock'[f]) \in {"bound", "peer"} =>
           Kind(sock[f]) \in {"bound", "peer"} /\ sock'[f].on = sock[f].on
    BY <1>4
  <2>5. CASE h # NoFd
    <3>1. Couple(cur, h) /\ h \in Fds
      BY <2>5, <1>h, <1>3 DEF TakePromise
    <3>2. /\ partner'["proxy"][cur] = h /\ partner'["net"][h] = cur
          /\ \A g \in Fds : g # cur => partner'["proxy"][g] = partner["proxy"][g]
          /\ \A g \in Fds : g # h => partner'["net"][g] = partner["net"][g]
          /\ actualfds' = Append(actualfds, h)
      BY <1>2, <3>1, CoupleFields DEF Coupled
    <3>3. Fed' = Fed \cup {h} /\ h \notin Fed
      <4>1. actualfds \in Seq(Fds)
        BY DEF Base, Typed
      <4> QED BY <4>1, <1>1, <1>3, <1>8, <2>5, <3>1, <3>2, AppendFields DEF Fed
    <3>4. Unused(h)' /\ Unheard(sock[h].on[2])
      BY <1>1, <1>3, <1>8, <2>1, <2>5 DEF Unused, On
    <3>5. Coupling'
      <4>1. ASSUME NEW f \in Linked', NEW g \in Fds, g = partner'["proxy"][f], Kind(sock'[g]) = "tunnel"
            PROVE  g \in Fed' /\ partner'["net"][g] = f
        <5>1. CASE f = cur
          BY <4>1, <5>1, <3>2, <3>3
        <5>2. CASE f # cur
          BY <4>1, <5>2, <1>4, <1>5, <2>3, <3>2, <3>3
        <5> QED BY <5>1, <5>2
      <4> QED BY <4>1, <1>1, <1>2, <2>2, <3>2, <3>3 DEF Coupling, IsTunnel, Unused, On
    <3>6. Outward'
      <4>1. \A f \in Linked' : \A g \in Fds : partner'["proxy"][f] = g =>
               Unused(g)' \/ (f \in Linked /\ partner["proxy"][f] = g)
        <5>1. ASSUME NEW f \in Linked', NEW g \in Fds, partner'["proxy"][f] = g, ~Unused(g)'
              PROVE  f \in Linked /\ partner["proxy"][f] = g
          <6>1. g # h
            BY <3>4, <5>1
          <6> QED BY <5>1, <6>1, <1>5, <3>2
        <5> QED BY <5>1
      <4>2. \A g \in Fds : partner'["proxy"][cur'] = g => Unused(g)'
        BY <1>1, <3>2, <3>4
      <4> QED BY <4>1, <4>2, <1>4, <1>6, <2>0, OutwardKept
    <3>7. Homeward'
      <4>1. \A g \in Fed' : \/ Unheard(sock'[g].on[2])
                            \/ /\ g \in Fed /\ sock'[g].on = sock[g].on
                               /\ partner'["net"][g] = partner["net"][g]
        BY <1>4, <3>1, <3>2, <3>3, <3>4, LinkedFed
      <4> QED BY <4>1, <1>6, <2>0, <2>4, HomewardKept
    <3> QED BY <3>5, <3>6, <3>7
  <2>6. CASE h = NoFd
    <3>1. UNCHANGED maps /\ partner["proxy"][cur] = NoFd
      <4>1. UNCHANGED maps /\ \E keys : /\ keys = {f \in Fds : partner["proxy"][f] # NoFd}
                                        /\ seen' = seen \cup {m \in {"stale"} : cur \in keys}
        BY <2>6, <1>h DEF TakePromise
      <4> QED BY <4>1, <1>2, <1>10 DEF Unstale
    <3>2. UNCHANGED <<partner, actualfds>> /\ Fed' = Fed
      BY <1>1, <3>1 DEF maps, Fed
    <3>3. Coupling'
      <4>1. ASSUME NEW f \in Linked', NEW g \in Fds, g = partner["proxy"][f], Kind(sock'[g]) = "tunnel"
            PROVE  f \in Linked /\ g \in Fed /\ partner["net"][g] = f
        BY <4>1, <1>4, <1>5, <2>3, <3>1, Constants
      <4>2. \A g \in Fds : partner["proxy"][cur] # g
        BY <3>1, Constants
      <4> QED BY <4>1, <4>2, <1>1, <1>2, <2>2, <3>2 DEF Coupling, IsTunnel, Unused, On
    <3>4. Outward'
      <4>1. \A f \in Linked' : \A g \in Fds : partner["proxy"][f] = g => f \in Linked
        BY <1>5, <3>1, Constants
      <4>2. \A g \in Fds : partner["proxy"][cur] # g
        BY <3>1, Constants
      <4> QED BY <4>1, <4>2, <1>1, <1>4, <1>6, <2>0, <3>2, OutwardKept
    <3>5. Homeward'
      <4>1. \A g \in Fed' : g \in Fed /\ sock'[g].on = sock[g].on /\ partner'["net"][g] = partner["net"][g]
        BY <1>4, <3>2, LinkedFed
      <4> QED BY <4>1, <1>6, <2>0, <2>4, HomewardKept
    <3> QED BY <3>3, <3>4, <3>5
  <2> QED BY <2>5, <2>6
<1> QED BY <1>7, <1>9, <1>10 DEF Queued

\* The first datagram goes to the user's tunnel, before those that wait.
LEMMA PushQueued ==
  ASSUME Base, Base', Queued, Unstale' => Unstale, Push
  PROVE  Queued'
<1>1. /\ pc = "push" /\ pc' = "loop"
      /\ UNCHANGED <<type, sent, asked, out, got, sock, table, tunnels, actualfds, seen>>
  BY DEF Push, world
<1>2. cur \in Fds /\ msg \in Datagrams /\ Hand = <<msg>> /\ Hand' = <<>>
  BY <1>1 DEF Base, Hands, Hand
<1>d. PICK d : d = partner'["proxy"][cur]
  OBVIOUS
<1>3. /\ d = IF partner["proxy"][cur] = NoFd THEN 0 ELSE partner["proxy"][cur]
      /\ \A f \in Fds : f # cur => partner'["proxy"][f] = partner["proxy"][f]
      /\ partner'["net"] = partner["net"] /\ d \in Fds
  <2>1. partner' = [partner EXCEPT !["proxy"][cur] = IF @ = NoFd THEN 0 ELSE @]
    BY DEF Push
  <2>2. partner \in [Sides -> [Fds -> Fds \cup {NoFd}]] /\ "proxy" \in Sides /\ "net" \in Sides
    BY DEF Base, Typed, Sides
  <2> QED BY <2>1, <2>2, <1>2, <1>d, Constants
<1>4. /\ \A f \in Fds : buffer'["net"][f] = IF f = d THEN Append(buffer["net"][f], msg) ELSE buffer["net"][f]
      /\ buffer'["proxy"] = buffer["proxy"]
  <2>1. buffer' = [buffer EXCEPT !["net"][d] = Append(@, msg)]
    BY <1>d DEF Push
  <2> QED BY <2>1 DEF Base, Typed, Sides
<1>5. Linked' = Linked /\ Fed' = Fed
  BY <1>1 DEF Linked, Fed
<1>6. \A g \in Fds : Kind(sock[g]) = "tunnel" => (d = g <=> partner["proxy"][cur] = g)
  BY <1>3, LinkedFed, Constants
<1>7. InsFewer /\ ProxiesFewer /\ OutsFewer /\ GotsFewer
  BY <1>1, <1>4, SameFewer
<1>8. PICK q \in Seq(Units), a \in Seq(Units), n \in Nat, r \in Seq(Units), b \in Seq(Units) :
         /\ n \in 1 .. Len(a) /\ q = buffer["net"][d] /\ a = Hand /\ n = 1 /\ r = buffer'["net"][d] /\ b = Hand'
         /\ r = q \o SubSeq(a, 1, n) /\ b = SubSeq(a, n + 1, Len(a))
  <2>1. PICK q \in Seq(Units), a \in Seq(Units) : q = buffer["net"][d] /\ a = Hand
    BY <1>3, QueueTypes, UnitSeqs
  <2>2. a # <<>> /\ Head(a) = msg /\ Tail(a) = <<>>
    BY <1>2, <2>1
  <2>3. /\ 1 \in 1 .. Len(a) /\ Append(q, Head(a)) = q \o SubSeq(a, 1, 1)
        /\ Tail(a) = SubSeq(a, 1 + 1, Len(a))
    BY <2>2, JoinHead
  <2>4. PICK n \in 1 .. Len(a) : n = 1
    BY <2>3
  <2>5. Hand' \in Seq(Units) /\ buffer'["net"][d] \in Seq(Units)
    BY <1>3, TypesNext
  <2>6. /\ buffer'["net"][d] = q \o SubSeq(a, 1, 1)
        /\ Hand' = SubSeq(a, 1 + 1, Len(a))
    <3>1. buffer'["net"][d] = Append(q, Head(a))
      BY <1>3, <1>4, <2>1, <2>2
    <3> QED BY <3>1, <1>2, <2>2, <2>3
  <2> QED BY <2>1, <2>3, <2>5, <2>6
<1>j. /\ \A p : Less(p, q) /\ Less(p, a) => Less(p, r)
      /\ \A p : Less(q, p) /\ Less(a, p) => Less(r, p)
      /\ InOrder(q) /\ InOrder(a) /\ Less(q, a) => InOrder(r)
  <2>1. Joins(q, a, n, r, b)
    BY <1>8 DEF Joins
  <2> QED BY <2>1, JoinLess
<1>9. Counted'
  <2>1. PICK x \in Places, y \in Places :
           /\ x = <<"hand", 0>> /\ y = <<"net", d>> /\ x # y
           /\ Queues[x] = Hand /\ Queues'[x] = Hand'
           /\ Queues[y] = buffer["net"][d] /\ Queues'[y] = buffer'["net"][d]
    BY <1>3, QueuesAt
  <2>2. OnlyAt(x, y)
    BY <1>1, <1>4, <2>1 DEF OnlyAt
  <2>3. PICK m \in 1 .. Len(Queues[x]) : m = n
    BY <1>8, <2>1
  <2>4. /\ Queues'[y] = Queues[y] \o SubSeq(Queues[x], 1, m)
        /\ Queues'[x] = SubSeq(Queues[x], m + 1, Len(Queues[x]))
    BY <1>8, <2>1, <2>3
  <2> QED BY <1>1, <2>1, <2>2, <2>4, CountedMoved DEF Queued
<1>10. \A i \in DOMAIN tunnels : tunnels[i] # NoFd =>
          tunnels[i] \in Fds /\ Kind(sock[tunnels[i]]) = "tunnel" /\ tunnels[i] \notin Fed
  BY LinkedFed
<1>11. Inflow'
  <2>1. \A i \in DOMAIN tunnels : tunnels[i] # NoFd => Unheard(sock[tunnels[i]].on[2])
    BY DEF Queued, Inflow, On
  <2> QED BY <2>1, <1>1, <1>7, InflowKept DEF Queued
<1>12. ASSUME Unstale'
       PROVE  Coupling' /\ Outward' /\ Homeward'
  <2>0. Coupling /\ Outward /\ Homeward
    BY <1>12 DEF Queued
  <2>1. \A f \in Linked : \A g \in Fds : partner["proxy"][f] = g /\ Kind(sock[g]) = "tunnel" =>
           g \in Fed /\ partner["net"][g] = f
    BY <2>0 DEF Coupling, IsTunnel
  <2>2. Kind(sock[d]) = "tunnel" => /\ partner["proxy"][cur] = d
                                    /\ d \in Fed /\ partner["net"][d] = cur
                                    /\ Less(out[On(d)[2]], Hand) /\ Less(buffer["net"][d], Hand)
    BY <1>1, <1>3, <1>6, <2>0 DEF Coupling, Outward, IsTunnel
  <2>3. \A f \in Linked : \A g \in Fds : partner'["proxy"][f] = g /\ Kind(sock[g]) = "tunnel" =>
           partner["proxy"][f] = g
    BY <1>3, <1>d, <1>6, LinkedFed
  <2>4. Coupling'
    <3>1. ASSUME NEW i \in DOMAIN tunnels, tunnels[i] # NoFd
          PROVE  out[On(tunnels[i])[2]] = <<>> /\ buffer'["net"][tunnels[i]] = <<>>
      <4>1. d # tunnels[i]
        BY <1>10, <2>2, <3>1
      <4> QED BY <1>4, <1>10, <2>0, <3>1, <4>1 DEF Coupling, Unused
    <3>2. \A f \in Linked : \A g \in Fds : partner'["proxy"][f] = g /\ Kind(sock[g]) = "tunnel" =>
             g \in Fed /\ partner'["net"][g] = f
      BY <1>3, <2>1, <2>3
    <3> QED BY <3>1, <3>2, <1>1, <1>5 DEF Coupling, IsTunnel, Unused, On
  <2>5. Outward'
    <3>0. \A g \in Fds : Kind(sock[g]) = "tunnel" =>
             InOrder(buffer["net"][g]) /\ Less(out[On(g)[2]], buffer["net"][g])
      BY <2>0 DEF Outward
    <3>1. ASSUME Kind(sock[d]) = "tunnel"
          PROVE  InOrder(r) /\ Less(out[On(d)[2]], r)
      <4>1. InOrder(q) /\ Less(out[On(d)[2]], q) /\ Less(q, a) /\ Less(out[On(d)[2]], a)
        BY <1>3, <1>8, <2>2, <3>0, <3>1, Zenon
      <4>2. InOrder(a)
        BY <1>2, <1>8 DEF InOrder
      <4> QED BY <4>1, <4>2, <1>j, Zenon
    <3>2. \A g \in Fds : Kind(sock[g]) = "tunnel" =>
             InOrder(buffer'["net"][g]) /\ Less(out[On(g)[2]], buffer'["net"][g])
      BY <1>4, <1>8, <3>0, <3>1
    <3>3. ASSUME NEW f \in Linked, NEW g \in Fds, partner'["proxy"][f] = g, Kind(sock[g]) = "tunnel"
          PROVE  Less(out[On(g)[2]], sock[f].inbox) /\ Less(buffer'["net"][g], sock[f].inbox)
      <4>1. partner["proxy"][f] = g /\ f \in Fds /\ Kind(sock[f]) = "peer"
        BY <2>3, <3>3, LinkedFed
      <4>2. Less(out[On(g)[2]], sock[f].inbox) /\ Less(buffer["net"][g], sock[f].inbox)
        BY <2>0, <3>3, <4>1 DEF Outward, IsTunnel
      <4>3. CASE g # d
        BY <1>4, <4>2, <4>3
      <4>4. CASE g = d
        <5>1. f = cur
          BY <2>1, <2>2, <3>3, <4>1, <4>4
        <5>2. Less(Hand, sock[cur].inbox)
          BY <1>1, <4>1, <5>1 DEF Queued, Inflow
        <5>3. Less(r, sock[f].inbox)
          BY <1>8, <1>j, <4>2, <4>4, <5>1, <5>2
        <5> QED BY <1>8, <4>2, <4>4, <5>3
      <4> QED BY <4>3, <4>4
    <3>4. \A t \in Tunnels : InOrder(out[t])
      BY <2>0 DEF Outward
    <3> QED BY <3>2, <3>3, <3>4, <1>1, <1>5 DEF Outward, IsTunnel, On
  <2>6. Homeward'
    <3>1. \A f \in Fds : Kind(sock'[f]) \in {"bound", "peer"} =>
             Kind(sock[f]) \in {"bound", "peer"} /\ sock'[f].on = sock[f].on
      BY <1>1
    <3>2. \A g \in Fed' : g \in Fed /\ sock'[g].on = sock[g].on /\ partner'["net"][g] = partner["net"][g]
      BY <1>1, <1>3, <1>5
    <3> QED BY <3>1, <3>2, <1>7, <2>0, HomewardKept
  <2> QED BY <2>4, <2>5, <2>6
<1> QED BY <1>9, <1>11, <1>12 DEF Queued

\* A tunnel's own socket to the service.
LEMMA DispatchQueued ==
  ASSUME Base, Base', Queued, Unstale' => Unstale, Dispatch
  PROVE  Queued'
<1>1. /\ type = "CLIENT" /\ pc = "loop" /\ tunnels # <<>> /\ tunnels' = Tail(tunnels)
      /\ UNCHANGED <<type, sent, asked, out, got, table, msg, buffer>>
  BY DEF Dispatch, world
<1>h. PICK h : h = Head(tunnels)
  OBVIOUS
<1>2. PICK f \in Fds :
          /\ IsLowestFree(f)
          /\ \/ /\ sock' = [sock EXCEPT ![f] = NewSock(<<"peer", On(h)[2]>>)]
                /\ Couple(f, h)
                /\ pc' = "insert" /\ cur' = f
                /\ seen' = seen \cup Stale(f)
             \/ /\ sock' = [sock EXCEPT ![f] = Misc]
                /\ UNCHANGED <<pc, cur, maps>>
  BY <1>h DEF Dispatch
<1>3. /\ h = tunnels[1] /\ 1 \in DOMAIN tunnels
      /\ \A i \in DOMAIN tunnels' : /\ i + 1 \in DOMAIN tunnels /\ tunnels'[i] = tunnels[i + 1]
                                    /\ i + 1 # 1
  BY <1>1, <1>h, TailFields DEF Base, Typed
<1>4. h \in Fds /\ Kind(sock[h]) = "tunnel" /\ On(h)[2] \in Peers /\ h # NoFd
  BY <1>1, <1>3, Holds DEF Base, Waiting
<1>5. /\ sock[f] = Closed /\ Kind(sock[f]) = "closed" /\ f # NoFd
      /\ \A s \in Sides : f \notin Registered(table[s])
      /\ \A i \in DOMAIN tunnels : tunnels[i] # f
      /\ \A i \in DOMAIN actualfds : actualfds[i] # f
  BY <1>2, Free, Constants
<1>s. sock \in [Fds -> Socks]
  BY DEF Base, Typed
<1>b. NetsFewer /\ ProxiesFewer /\ OutsFewer /\ GotsFewer
  BY <1>1, SameFewer
<1>7. CASE /\ sock' = [sock EXCEPT ![f] = Misc]
           /\ UNCHANGED <<pc, cur, maps>>
  <2>1. /\ sock'[f] = Misc /\ Kind(sock'[f]) = "misc" /\ sock'[f].inbox = <<>>
        /\ \A g \in Fds : g # f => sock'[g] = sock[g]
    BY <1>7, <1>s, NewSocks DEF Misc, NewSock
  <2>2. Linked' \subseteq Linked /\ Fed' = Fed
    <3>1. \A g \in Fds : Kind(sock'[g]) = "peer" => Kind(sock[g]) = "peer"
      BY <2>1
    <3> QED BY <3>1, <1>1, <1>7 DEF Linked, Fed, maps
  <2>3. InsFewer
    BY <2>1, TypesNext, Parts DEF InsFewer
  <2>4. \A g \in Fds : \/ sock'[g].on = sock[g].on
                       \/ Kind(sock'[g]) \notin {"peer", "tunnel", "bound"}
    BY <2>1
  <2>5. \A i \in DOMAIN tunnels' : \E j \in DOMAIN tunnels : tunnels'[i] = tunnels[j]
    BY <1>3
  <2> QED BY <2>2, <2>3, <2>4, <2>5, <1>1, <1>7, <1>b, NoneSent, QueuedShrinks DEF maps
<1>8. CASE /\ sock' = [sock EXCEPT ![f] = NewSock(<<"peer", On(h)[2]>>)]
           /\ Couple(f, h)
           /\ pc' = "insert" /\ cur' = f
           /\ seen' = seen \cup Stale(f)
  <2>2. /\ partner'["proxy"][f] = h /\ partner'["net"][h] = f
        /\ \A g \in Fds : g # f => partner'["proxy"][g] = partner["proxy"][g]
        /\ \A g \in Fds : g # h => partner'["net"][g] = partner["net"][g]
        /\ actualfds' = Append(actualfds, h)
    BY <1>4, <1>8, CoupleFields DEF Coupled
  <2>3. /\ sock'[f].on = <<"peer", On(h)[2]>> /\ sock'[f].inbox = <<>>
        /\ \A g \in Fds : g # f => sock'[g] = sock[g]
    <3>1. <<"peer", On(h)[2]>> \in Whats
      BY <1>4 DEF Whats
    <3>2. PICK x : x = NewSock(<<"peer", On(h)[2]>>) /\ x.on = <<"peer", On(h)[2]>> /\ x.inbox = <<>>
      BY <3>1, NewSocks
    <3> QED BY <3>2, <1>8, <1>s
  <2>4. \A g \in Fds : Kind(sock'[g]) = IF g = f THEN "peer" ELSE Kind(sock[g])
    BY <2>3 DEF Kind
  <2>6. \A g \in Linked' : g \in Fds /\ g \in Linked \cup {f}
    <3>1. ASSUME NEW g \in Linked', g # f
          PROVE  g \in Fds /\ g \in Linked
      BY <3>1, <1>1, <1>8, <2>3, <2>4 DEF Linked
    <3> QED BY <3>1, <1>5
  <2>7. h # f
    BY <1>4, <1>5
  <2>8. \A i \in DOMAIN tunnels : tunnels[i] # NoFd =>
           /\ tunnels[i] \in Fds /\ Kind(sock[tunnels[i]]) = "tunnel" /\ tunnels[i] \notin Fed
           /\ sock'[tunnels[i]].on = sock[tunnels[i]].on /\ Unheard(sock[tunnels[i]].on[2])
    BY <1>5, <2>3, LinkedFed DEF Queued, Inflow, On
  <2>9. InsFewer /\ HandFewer
    <3>1. InsFewer
      BY <2>3, TypesNext, Parts DEF InsFewer
    <3> QED BY <3>1, <1>8, SameFewer
  <2>10. Counted'
    BY <1>1, <1>b, <2>9, NoneSent, CountedFewer DEF Queued
  <2>11. Inflow'
    <3>1. \A g \in Fds : Kind(sock'[g]) = "tunnel" => sock'[g] = sock[g]
      BY <2>3, <2>4
    <3>2. \A i \in DOMAIN tunnels' : tunnels'[i] # NoFd => Unheard(sock'[tunnels'[i]].on[2])
      BY <1>3, <2>8
    <3> QED BY <3>1, <3>2, <1>8, <1>b, <2>9, InflowKept DEF Queued
  <2>12. ASSUME Unstale'
         PROVE  Coupling' /\ Outward' /\ Homeward'
    <3>0. Coupling /\ Outward /\ Homeward
      BY <2>12 DEF Queued
    <3>1. buffer["proxy"][f] = <<>>
      <4>1. "stale" \notin Stale(f)
        BY <1>8, <2>12 DEF Unstale
      <4> QED BY <4>1 DEF Stale, Sides
    <3>2. \A i \in DOMAIN tunnels : tunnels[i] # NoFd =>
             out[sock[tunnels[i]].on[2]] = <<>> /\ buffer["net"][tunnels[i]] = <<>>
      BY <3>0 DEF Coupling, Unused, On
    <3>3. \A i \in DOMAIN tunnels' : tunnels'[i] # NoFd =>
             out'[sock'[tunnels'[i]].on[2]] = <<>> /\ buffer'["net"][tunnels'[i]] = <<>>
      BY <1>1, <1>3, <2>8, <3>2
    <3>4. \A k \in Linked : \A g \in Fds : partner["proxy"][k] = g /\ Kind(sock[g]) = "tunnel" =>
             g \in Fed /\ partner["net"][g] = k
      BY <3>0 DEF Coupling, IsTunnel
    <3>5. Fed' = Fed \cup {h} /\ h \notin Fed /\ f \notin Fed
      <4>1. actualfds \in Seq(Fds)
        BY DEF Base, Typed
      <4>2. f \notin Fed
        BY <1>5 DEF Fed, Sides
      <4> QED BY <4>1, <4>2, <1>1, <1>3, <1>4, <2>2, <2>8, AppendFields DEF Fed
    <3>6. Unused(h)' /\ Unheard(sock[h].on[2])
      BY <1>1, <1>3, <1>4, <2>3, <2>7, <2>8, <3>2 DEF Unused, On
    <3>7. Coupling'
      <4>1. ASSUME NEW k \in Linked', NEW g \in Fds, g = partner'["proxy"][k], Kind(sock'[g]) = "tunnel"
            PROVE  g \in Fed' /\ partner'["net"][g] = k
        <5>1. CASE k = f
          BY <4>1, <5>1, <2>2, <3>5
        <5>2. CASE k # f
          BY <4>1, <5>2, <2>2, <2>4, <2>6, <3>4, <3>5
        <5> QED BY <5>1, <5>2
      <4> QED BY <4>1, <1>8, <3>3, <2>2, <3>5 DEF Coupling, IsTunnel, Unused, On
    <3>8. Outward'
      <4>1. \A k \in Linked' : \A g \in Fds : partner'["proxy"][k] = g =>
               Unused(g)' \/ (k \in Linked /\ partner["proxy"][k] = g)
        <5>1. ASSUME NEW k \in Linked', NEW g \in Fds, partner'["proxy"][k] = g, ~Unused(g)'
              PROVE  k \in Linked /\ partner["proxy"][k] = g
          <6>1. g # h
            BY <3>6, <5>1
          <6> QED BY <5>1, <6>1, <2>2, <2>6
        <5> QED BY <5>1
      <4>2. \A g \in Fds : Kind(sock'[g]) = "tunnel" => sock'[g].on = sock[g].on
        BY <2>3, <2>4
      <4> QED BY <4>1, <4>2, <1>8, <1>b, <2>9, <3>0, OutwardKept
    <3>9. Homeward'
      <4>1. \A g \in Fed' : \/ Unheard(sock'[g].on[2])
                            \/ /\ g \in Fed /\ sock'[g].on = sock[g].on
                               /\ partner'["net"][g] = partner["net"][g]
        BY <2>2, <2>3, <2>7, <1>4, <3>5, <3>6, LinkedFed
      <4>2. \A k \in Fds : Kind(sock'[k]) \in {"bound", "peer"} =>
               buffer'["proxy"][k] = <<>> \/ (Kind(sock[k]) \in {"bound", "peer"} /\ sock'[k].on = sock[k].on)
        BY <1>1, <2>3, <2>4, <3>1
      <4> QED BY <4>1, <4>2, <1>b, <3>0, HomewardKept
    <3> QED BY <3>7, <3>8, <3>9
  <2> QED BY <2>10, <2>11, <2>12 DEF Queued
<1> QED BY <1>2, <1>7, <1>8

\* A datagram goes to the tunnel of its socket, before those that wait there.
LEMMA ReadPeerQueued ==
  ASSUME Base, Base', Queued, Unstale' => Unstale, NEW i \in Slots, ReadPeer(i)
  PROVE  Queued'
<1>f. PICK f : f = table["proxy"].fd[i]
  OBVIOUS
<1>x. PICK x : x = sock[f]
  BY Zenon
<1>1. /\ f \notin {NoFd, Listen} /\ (x.inbox # <<>> \/ x.down) /\ pc = "loop"
      /\ UNCHANGED <<world, setup, maps, inserted>>
      /\ IF x.err \/ x.inbox = <<>>
         THEN ReadFails("proxy", i, [x EXCEPT !.err = FALSE])
         ELSE IF Head(x.inbox)[3] = 0
         THEN ReadFails("proxy", i, [x EXCEPT !.inbox = Tail(@)])
         ELSE /\ sock' = [sock EXCEPT ![f].inbox = Tail(@)]
              /\ buffer' = [buffer EXCEPT
                         !["net"][Destination("proxy", f)] = Append(@, Head(x.inbox))]
              /\ Kept
  BY <1>f, <1>x, Zenon DEF ReadPeer
<1>2. /\ "proxy" \in Sides /\ f \in Registered(table["proxy"]) /\ f \in Fds /\ x \in Socks
      /\ Kind(x) = "peer" /\ f # NoFd /\ f \in Linked
  <2>1. /\ "proxy" \in Sides /\ f \in Registered(table["proxy"]) /\ f \in Fds /\ x \in Socks
        /\ Kind(x) \in {"listening", "peer"} /\ f # NoFd
    BY <1>1, <1>f, <1>x, Holds, Zenon DEF Sides, KindsOf
  <2>2. Kind(x) = "peer"
    BY <2>1, <1>1, <1>x DEF Base, Kinds
  <2> QED BY <2>1, <2>2, <1>1, <1>x, Zenon DEF Linked
<1>3. x.inbox \in Seq(Datagrams) /\ InboxesOf(x.on) = Seq(Datagrams) /\ x.inbox \in Seq(Units)
  BY <1>2, SockFields, UnitSeqs, Zenon DEF InboxesOf, Kind
<1>4. ASSUME NEW y \in Socks, y.on = x.on, ReadFails("proxy", i, y), Part(y.inbox, x.inbox)
      PROVE  Queued'
  BY <1>1, <1>2, <1>4, <1>f, <1>x, FailQueued, Zenon
<1>5. CASE x.err \/ x.inbox = <<>>
  <2>1. [x EXCEPT !.err = FALSE] \in Socks /\ [x EXCEPT !.err = FALSE].on = x.on
    BY <1>2, SockChanged
  <2>2. [x EXCEPT !.err = FALSE].inbox = x.inbox
    BY <1>2, SockFields
  <2>3. Part(x.inbox, x.inbox)
    BY <1>3, Parts
  <2> QED BY <1>1, <1>4, <1>5, <2>1, <2>2, <2>3
<1>t. ASSUME x.inbox # <<>>
      PROVE  /\ Tail(x.inbox) \in InboxesOf(x.on) /\ Head(x.inbox) \in Datagrams
             /\ Part(Tail(x.inbox), x.inbox)
  BY <1>t, <1>3, TailFields, Parts
<1>y. ASSUME x.inbox # <<>>
      PROVE  /\ [x EXCEPT !.inbox = Tail(x.inbox)] \in Socks
             /\ [x EXCEPT !.inbox = Tail(x.inbox)].on = x.on
             /\ [x EXCEPT !.inbox = Tail(x.inbox)].inbox = Tail(x.inbox)
  <2>1. [x EXCEPT !.inbox = Tail(x.inbox)].inbox = Tail(x.inbox)
    BY <1>2, SockFields
  <2> QED BY <1>2, <1>t, <1>y, <2>1, SockChanged
<1>6. CASE ~(x.err \/ x.inbox = <<>>) /\ Head(x.inbox)[3] = 0
  <2>1. PICK y : y = [x EXCEPT !.inbox = Tail(@)]
    OBVIOUS
  <2>2. y \in Socks /\ y.on = x.on /\ y.inbox = Tail(x.inbox) /\ ReadFails("proxy", i, y)
    BY <1>1, <1>6, <1>y, <2>1
  <2> QED BY <1>4, <1>6, <1>t, <2>2
<1>7. CASE ~(x.err \/ x.inbox = <<>>) /\ Head(x.inbox)[3] # 0
  <2>e. PICK e : e = Head(x.inbox)
    OBVIOUS
  <2>d. PICK d : d = partner["proxy"][f]
    OBVIOUS
  <2>1. /\ sock' = [sock EXCEPT ![f].inbox = Tail(@)]
        /\ buffer' = [buffer EXCEPT !["net"][d] = Append(@, e)]
        /\ UNCHANGED <<table, type, sent, asked, out, got, partner, pc, cur, msg, tunnels, actualfds>>
    BY <1>1, <1>7, <2>e, <2>d DEF Kept, Destination, world, setup, maps
  <2>3. PICK y \in Socks : y = [x EXCEPT !.inbox = Tail(x.inbox)] /\ y.on = x.on
                           /\ y.inbox = Tail(x.inbox)
    BY <1>7, <1>y
  <2>4. sock' = [sock EXCEPT ![f] = y]
    BY <2>1, <2>3, <1>x
  <2>5. /\ \A g \in Fds : sock'[g].on = sock[g].on /\ Kind(sock'[g]) = Kind(sock[g])
        /\ \A g \in Fds : g # f => sock'[g] = sock[g]
        /\ sock'[f].inbox = Tail(x.inbox)
    BY <1>2, <2>3, <2>4, <1>x DEF Base, Typed, Kind
  <2>6. /\ \A g \in Fds : buffer'["net"][g] = IF g = d THEN Append(buffer["net"][g], e) ELSE buffer["net"][g]
        /\ buffer'["proxy"] = buffer["proxy"]
    BY <2>1 DEF Base, Typed, Sides
  <2>7. Linked' = Linked /\ Fed' = Fed
    BY <2>1, <2>5 DEF Linked, Fed
  <2>8. Onward /\ ProxiesFewer /\ OutsFewer /\ GotsFewer /\ HandFewer
    BY <1>1, <2>1, <2>6, NoneSent, SameFewer
  <2>9. InsFewer
    <3>1. \A g \in Fds : Part(sock[g].inbox, sock[g].inbox)
      BY TypesNext, Parts
    <3> QED BY <3>1, <1>7, <1>t, <1>x, <2>5 DEF InsFewer
  <2>10. CASE d \notin Fds
    <3>1. NetsFewer
      <4>1. \A g \in Fds : Part(buffer["net"][g], buffer["net"][g])
        BY TypesNext, Parts
      <4> QED BY <4>1, <2>6, <2>10 DEF NetsFewer
    <3> QED BY <3>1, <2>1, <2>5, <2>8, <2>9, StillQueued
  <2>11. CASE d \in Fds
    <3>1. PICK q \in Seq(Units), a \in Seq(Units), r \in Seq(Units), b \in Seq(Units) :
             /\ q = buffer["net"][d] /\ a = sock[f].inbox /\ r = buffer'["net"][d] /\ b = sock'[f].inbox
             /\ Joins(q, a, 1, r, b)
      <4>1. PICK q \in Seq(Units), a \in Seq(Units) : q = buffer["net"][d] /\ a = sock[f].inbox
        BY <1>2, <2>11, TypesNext
      <4>2. buffer'["net"][d] \in Seq(Units) /\ sock'[f].inbox \in Seq(Units)
        BY <1>2, <2>11, TypesNext
      <4>3. buffer'["net"][d] = Append(q, Head(a)) /\ sock'[f].inbox = Tail(a)
        BY <1>x, <2>e, <2>5, <2>6, <2>11, <4>1
      <4>4. Joins(q, a, 1, Append(q, Head(a)), Tail(a))
        BY <1>7, <1>x, <4>1, HeadJoins
      <4> QED BY <4>1, <4>2, <4>3, <4>4
    <3>2. /\ \A p : Less(p, q) /\ Less(p, a) => Less(p, r)
          /\ InOrder(a) /\ Less(q, a) => Less(r, b)
          /\ InOrder(q) /\ InOrder(a) /\ Less(q, a) => InOrder(r)
      BY <3>1, JoinLess
    <3>3. Counted'
      <4>1. PICK z \in Places, w \in Places :
               /\ z = <<"in", f>> /\ w = <<"net", d>> /\ z # w
               /\ Queues[z] = sock[f].inbox /\ Queues'[z] = sock'[f].inbox
               /\ Queues[w] = buffer["net"][d] /\ Queues'[w] = buffer'["net"][d]
        BY <1>2, <2>11, QueuesAt
      <4>2. OnlyAt(z, w)
        BY <1>1, <2>1, <2>5, <2>6, <4>1 DEF OnlyAt, Hand
      <4>3. Joins(Queues[w], Queues[z], 1, Queues'[w], Queues'[z])
        BY <3>1, <4>1
      <4> QED BY <2>1, <4>1, <4>2, <4>3, Moved DEF Queued
    <3>4. Inflow'
      <4>1. \A k \in DOMAIN tunnels : tunnels[k] # NoFd => Unheard(sock[tunnels[k]].on[2])
        BY DEF Queued, Inflow, On
      <4>2. \A k \in DOMAIN tunnels : tunnels[k] # NoFd => tunnels[k] \in Fds
        BY LinkedFed
      <4> QED BY <4>1, <4>2, <1>1, <2>1, <2>5, <2>8, <2>9, InflowKept DEF Queued
    <3>5. ASSUME Unstale'
          PROVE  Coupling' /\ Outward' /\ Homeward'
      <4>0. Coupling /\ Outward /\ Homeward
        BY <3>5 DEF Queued
      <4>1. \A h \in Linked : \A g \in Fds : partner["proxy"][h] = g /\ Kind(sock[g]) = "tunnel" =>
               g \in Fed /\ partner["net"][g] = h
        BY <4>0 DEF Coupling, IsTunnel
      <4>2. Coupling'
        <5>1. ASSUME NEW k \in DOMAIN tunnels, NEW g \in Fds, tunnels[k] = g
              PROVE  Unused(g)'
          <6>1. g # NoFd /\ g # d
            BY <5>1, <4>1, <1>2, <2>d, LinkedFed, Constants
          <6>2. out[On(g)[2]] = <<>> /\ buffer["net"][g] = <<>>
            BY <4>0, <5>1, <6>1 DEF Coupling, Unused
          <6> QED BY <6>1, <6>2, <2>1, <2>5, <2>6 DEF Unused, On
        <5> QED BY <5>1, <4>0, <1>1, <2>1, <2>5, <2>7, CouplingKept
      <4>3. Outward'
        <5>1. \A g \in Fds : Kind(sock[g]) = "tunnel" =>
                 InOrder(buffer["net"][g]) /\ Less(out[On(g)[2]], buffer["net"][g])
          BY <4>0 DEF Outward
        <5>2. \A h \in Linked : \A g \in Fds : partner["proxy"][h] = g /\ Kind(sock[g]) = "tunnel" =>
                 Less(out[On(g)[2]], sock[h].inbox) /\ Less(buffer["net"][g], sock[h].inbox)
          BY <4>0 DEF Outward, IsTunnel
        <5>3. InOrder(a)
          BY <1>2, <3>1 DEF Queued, Inflow
        <5>4. \A g \in Fds : Kind(sock[g]) = "tunnel" =>
                 InOrder(buffer'["net"][g]) /\ Less(out[On(g)[2]], buffer'["net"][g])
          <6>1. ASSUME Kind(sock[d]) = "tunnel"
                PROVE  InOrder(r) /\ Less(out[On(d)[2]], r)
            BY <6>1, <5>1, <5>2, <5>3, <3>1, <3>2, <2>11, <2>d, <1>2
          <6> QED BY <6>1, <5>1, <3>1, <2>6
        <5>5. ASSUME NEW h \in Linked, NEW g \in Fds, partner["proxy"][h] = g, Kind(sock[g]) = "tunnel"
              PROVE  Less(out[On(g)[2]], sock'[h].inbox) /\ Less(buffer'["net"][g], sock'[h].inbox)
          <6>1. h \in Fds /\ Part(sock'[h].inbox, sock[h].inbox) /\ On(g)[2] \in Tunnels
            BY <5>5, <2>9, LinkedFed DEF InsFewer
          <6>2. /\ Part(out[On(g)[2]], out[On(g)[2]])
                /\ Part(buffer["net"][g], buffer["net"][g])
            BY <6>1, TypesNext, Parts
          <6>3. Less(out[On(g)[2]], sock'[h].inbox) /\ Less(buffer["net"][g], sock'[h].inbox)
            BY <6>1, <6>2, <5>2, <5>5, PartLess
          <6>4. CASE g # d
            BY <6>3, <6>4, <2>6
          <6>5. CASE g = d
            <7>1. h = f
              BY <6>5, <5>5, <4>1, <1>2, <2>d
            <7>2. Less(q, a)
              BY <7>1, <6>5, <5>2, <5>5, <3>1
            <7>3. Less(r, b)
              BY <7>2, <5>3, <3>2
            <7> QED BY <7>1, <7>3, <6>3, <6>5, <3>1
          <6> QED BY <6>4, <6>5
        <5>6. \A s \in Tunnels : InOrder(out[s])
          BY <4>0 DEF Outward
        <5> QED BY <5>4, <5>5, <5>6, <1>1, <2>1, <2>5, <2>7, ZenonT(40) DEF Outward, IsTunnel, On
      <4>4. Homeward'
        BY <4>0, <2>1, <2>5, <2>7, <2>8, LinkedFed, HomewardKept
      <4> QED BY <4>2, <4>3, <4>4
    <3> QED BY <3>3, <3>4, <3>5 DEF Queued
  <2> QED BY <2>10, <2>11
<1> QED BY <1>5, <1>6, <1>7

\* Frames go to the socket of their tunnel, before those that wait there.
LEMMA ReadTunnelQueued ==
  ASSUME Base, Base', Queued, Unstale' => Unstale, NEW i \in Slots, ReadTunnel(i)
  PROVE  Queued'
<1>f. PICK g : g = table["net"].fd[i]
  OBVIOUS
<1>x. PICK x : x = sock[g]
  OBVIOUS
<1>t. PICK t : t = On(g)[2]
  BY Zenon
<1>1. /\ g # NoFd /\ UNCHANGED <<world, setup, maps, inserted>>
      /\ \/ \E n \in 1 .. Len(x.inbox) :
               /\ sock' = [sock EXCEPT ![g].inbox = SubSeq(@, n + 1, Len(@))]
               /\ buffer' = [buffer EXCEPT
                       !["proxy"][Destination("net", g)] = @ \o SubSeq(x.inbox, 1, n)]
               /\ Kept
         \/ x.inbox = <<>> /\ x.down /\ ReadFails("net", i, x)
  BY <1>f, <1>x, Zenon DEF ReadTunnel
<1>2. /\ "net" \in Sides /\ g \in Registered(table["net"]) /\ g \in Fds /\ x \in Socks
      /\ Kind(x) = "tunnel" /\ g \in Fed
  BY <1>1, <1>f, <1>x, Holds, Zenon DEF Sides, KindsOf, Fed
<1>3. x.inbox \in Seq(Frames) /\ InboxesOf(x.on) = Seq(Frames) /\ t \in Tunnels /\ x.inbox \in Seq(Units)
  BY <1>2, <1>x, <1>t, SockFields, LinkedFed, UnitSeqs DEF InboxesOf, Kind
<1>4. CASE ReadFails("net", i, x)
  <2>1. Part(x.inbox, x.inbox)
    BY <1>3, Parts
  <2> QED BY <2>1, <1>1, <1>2, <1>4, <1>f, <1>x, FailQueued, Zenon
<1>5. ASSUME NEW n \in 1 .. Len(x.inbox),
             sock' = [sock EXCEPT ![g].inbox = SubSeq(@, n + 1, Len(@))],
             buffer' = [buffer EXCEPT
                       !["proxy"][Destination("net", g)] = @ \o SubSeq(x.inbox, 1, n)],
             Kept
      PROVE  Queued'
  <2>q. PICK c \in Seq(Frames) : c = SubSeq(x.inbox, 1, n)
    BY <1>3, PartsOf
  <2>r. PICK l \in Seq(Frames) : l = SubSeq(x.inbox, n + 1, Len(x.inbox))
    BY <1>3, PartsOf
  <2>d. PICK d : d = partner["net"][g]
    OBVIOUS
  <2>1. /\ buffer' = [buffer EXCEPT !["proxy"][d] = @ \o c]
        /\ UNCHANGED <<table, type, sent, asked, out, got, partner, pc, cur, msg, tunnels, actualfds>>
    BY <1>1, <1>5, <2>q, <2>d, Zenon DEF Kept, Destination, world, setup, maps
  <2>s. [x EXCEPT !.inbox = l].inbox = l
    BY <1>2, SockFields
  <2>3. PICK y \in Socks : y = [x EXCEPT !.inbox = l] /\ y.on = x.on /\ y.inbox = l
    BY <2>s, <1>2, <1>3, <2>r, SockChanged
  <2>4. sock' = [sock EXCEPT ![g] = y]
    BY <1>5, <2>3, <2>r, <1>x
  <2>5. /\ \A h \in Fds : sock'[h].on = sock[h].on /\ Kind(sock'[h]) = Kind(sock[h])
        /\ \A h \in Fds : h # g => sock'[h] = sock[h]
        /\ sock'[g].inbox = l
    BY <1>2, <2>3, <2>4, <1>x DEF Base, Typed, Kind
  <2>6. /\ \A h \in Fds : buffer'["proxy"][h] = IF h = d THEN buffer["proxy"][h] \o c ELSE buffer["proxy"][h]
        /\ buffer'["net"] = buffer["net"]
    BY <2>1 DEF Base, Typed, Sides
  <2>7. Linked' = Linked /\ Fed' = Fed
    BY <2>1, <2>5 DEF Linked, Fed
  <2>h. Hand' = Hand
    BY <2>1 DEF Hand
  <2>8. Onward /\ NetsFewer /\ OutsFewer /\ GotsFewer /\ HandFewer
    <3>1. Part(Hand, Hand)
      BY TypesNext, Parts
    <3> QED BY <2>1, <2>6, <2>h, <3>1, NoneSent, SameFewer DEF HandFewer
  <2>9. InsFewer
    <3>1. \A h \in Fds : Part(sock[h].inbox, sock[h].inbox)
      BY TypesNext, Parts
    <3>2. Part(l, x.inbox)
      BY <1>3, <2>r, Parts
    <3> QED BY <3>1, <3>2, <1>x, <2>5 DEF InsFewer
  <2>10. CASE d \notin Fds
    <3>1. ProxiesFewer
      <4>1. \A h \in Fds : Part(buffer["proxy"][h], buffer["proxy"][h])
        BY TypesNext, Parts
      <4> QED BY <4>1, <2>6, <2>10 DEF ProxiesFewer
    <3> QED BY <3>1, <2>1, <2>5, <2>8, <2>9, StillQueued
  <2>11. CASE d \in Fds
    <3>1. PICK q \in Seq(Units), a \in Seq(Units), r \in Seq(Units), b \in Seq(Units) :
             /\ q = buffer["proxy"][d] /\ a = sock[g].inbox /\ r = buffer'["proxy"][d] /\ b = sock'[g].inbox
             /\ Joins(q, a, n, r, b)
      <4>1. PICK q \in Seq(Units), a \in Seq(Units) : q = buffer["proxy"][d] /\ a = sock[g].inbox
        BY <1>2, <2>11, TypesNext
      <4>2. buffer'["proxy"][d] \in Seq(Units) /\ sock'[g].inbox \in Seq(Units)
        BY <1>2, <2>11, TypesNext
      <4>3. buffer'["proxy"][d] = q \o SubSeq(a, 1, n) /\ sock'[g].inbox = SubSeq(a, n + 1, Len(a))
        BY <1>x, <2>q, <2>r, <2>5, <2>6, <2>11, <4>1
      <4> QED BY <1>5, <1>x, <4>1, <4>2, <4>3 DEF Joins
    <3>2. /\ \A p : Less(p, q) /\ Less(p, a) => Less(p, r)
          /\ \A p : Less(q, p) /\ Less(a, p) => Less(r, p)
          /\ InOrder(a) /\ Less(q, a) => Less(r, b)
          /\ InOrder(q) /\ InOrder(a) /\ Less(q, a) => InOrder(r)
          /\ \A s : None(q, s) /\ None(a, s) => None(r, s)
      BY <3>1, JoinLess
    <3>3. Counted'
      <4>1. PICK z \in Places, w \in Places :
               /\ z = <<"in", g>> /\ w = <<"proxy", d>> /\ z # w
               /\ Queues[z] = sock[g].inbox /\ Queues'[z] = sock'[g].inbox
               /\ Queues[w] = buffer["proxy"][d] /\ Queues'[w] = buffer'["proxy"][d]
        BY <1>2, <2>11, QueuesAt
      <4>2. OnlyAt(z, w)
        BY <2>h, <2>1, <2>5, <2>6, <4>1 DEF OnlyAt
      <4>3. Joins(Queues[w], Queues[z], n, Queues'[w], Queues'[z])
        BY <3>1, <4>1
      <4> QED BY <2>1, <4>1, <4>2, <4>3, Moved DEF Queued
    <3>i. /\ \A f \in Fds : InOrder(sock[f].inbox)
          /\ pc \in {"bound", "await", "push"} /\ Kind(sock[cur]) \in {"bound", "peer"} =>
                Less(Hand, sock[cur].inbox)
          /\ \A h \in Fds : Kind(sock[h]) = "tunnel" =>
                /\ From(sock[h].inbox, On(h)[2])
                /\ \A f \in Fds : Less(buffer["proxy"][f], sock[h].inbox)
                /\ \A u \in Peers : Less(got[u], sock[h].inbox)
          /\ \A k \in DOMAIN tunnels : tunnels[k] # NoFd => Unheard(On(tunnels[k])[2])
      BY DEF Queued, Inflow
    <3>a. InOrder(a) /\ From(a, t) /\ Less(q, a) /\ \A u \in Peers : Less(got[u], a)
      BY <3>i, <3>1, <1>2, <1>x, <1>t, <2>11
    <3>o. \A h \in Fds : Kind(sock[h]) = "tunnel" /\ h # g => On(h)[2] \in Tunnels /\ On(h)[2] # t
      BY <1>2, <1>t, <1>x, LinkedFed DEF Base, OneEach
    <3>4. Inflow'
      <4>1. ASSUME NEW f \in Fds
            PROVE  InOrder(sock'[f].inbox)
        <5>1. Part(sock'[f].inbox, sock[f].inbox) /\ sock'[f].inbox \in Seq(Units) /\ sock[f].inbox \in Seq(Units)
          BY <2>9, TypesNext DEF InsFewer
        <5> QED BY <5>1, <3>i, PartKeeps
      <4>2. ASSUME pc \in {"bound", "await", "push"}, Kind(sock'[cur]) \in {"bound", "peer"}
            PROVE  Less(Hand', sock'[cur].inbox)
        <5>1. cur \in Fds
          BY <4>2 DEF Base, Hands
        <5>2. cur # g /\ Kind(sock[cur]) \in {"bound", "peer"}
          BY <4>2, <5>1, <1>2, <1>x, <2>5
        <5> QED BY <5>1, <5>2, <4>2, <2>5, <2>h, <3>i
      <4>3. ASSUME NEW h \in Fds, Kind(sock[h]) = "tunnel"
            PROVE  /\ From(sock'[h].inbox, On(h)[2])
                   /\ \A f \in Fds : Less(buffer'["proxy"][f], sock'[h].inbox)
                   /\ \A u \in Peers : Less(got[u], sock'[h].inbox)
        <5>1. Part(sock'[h].inbox, sock[h].inbox) /\ sock'[h].inbox \in Seq(Units) /\ sock[h].inbox \in Seq(Units)
          BY <2>9, TypesNext DEF InsFewer
        <5>2. From(sock'[h].inbox, On(h)[2])
          BY <5>1, <4>3, <3>i, PartKeeps
        <5>3. \A u \in Peers : Less(got[u], sock'[h].inbox)
          <6>1. \A u \in Peers : Part(got[u], got[u])
            BY TypesNext, Parts
          <6> QED BY <6>1, <5>1, <4>3, <3>i, PartLess
        <5>4. \A f \in Fds : Less(buffer["proxy"][f], sock'[h].inbox)
          <6>1. \A f \in Fds : Part(buffer["proxy"][f], buffer["proxy"][f])
            BY TypesNext, Parts
          <6> QED BY <6>1, <5>1, <4>3, <3>i, PartLess
        <5>5. Less(r, sock'[h].inbox)
          <6>1. CASE h = g
            BY <6>1, <3>1, <3>2, <3>a
          <6>2. CASE h # g
            <7>1. Less(a, sock'[h].inbox)
              BY <6>2, <4>3, <5>2, <3>a, <3>o, FromNone
            <7> QED BY <7>1, <5>4, <3>1, <3>2, <2>11
          <6> QED BY <6>1, <6>2
        <5> QED BY <5>2, <5>3, <5>4, <5>5, <3>1, <2>6
      <4>4. ASSUME NEW k \in DOMAIN tunnels, tunnels[k] # NoFd
            PROVE  /\ \A f \in Fds : None(buffer'["proxy"][f], On(tunnels[k])[2])
                   /\ \A u \in Peers : None(got[u], On(tunnels[k])[2])
        <5>1. tunnels[k] \in Fds /\ On(tunnels[k])[2] # t
          BY <4>4, <3>o, <1>2, LinkedFed
        <5>2. /\ \A f \in Fds : None(buffer["proxy"][f], On(tunnels[k])[2])
              /\ \A u \in Peers : None(got[u], On(tunnels[k])[2])
          BY <4>4, <3>i DEF Unheard
        <5>3. None(a, On(tunnels[k])[2])
          BY <5>1, <3>a, FromNone
        <5>4. None(r, On(tunnels[k])[2])
          BY <5>2, <5>3, <3>1, <3>2, <2>11
        <5> QED BY <5>2, <5>4, <3>1, <2>6
      <4>5. \A k \in DOMAIN tunnels : tunnels[k] # NoFd => tunnels[k] \in Fds
        BY LinkedFed
      <4> QED BY <4>1, <4>2, <4>3, <4>4, <4>5, <2>1, <2>5 DEF Inflow, Unheard, On
    <3>5. ASSUME Unstale'
          PROVE  Coupling' /\ Outward' /\ Homeward'
      <4>0. Coupling /\ Outward /\ Homeward
        BY <3>5 DEF Queued
      <4>1. Coupling'
        <5>1. ASSUME NEW k \in DOMAIN tunnels, NEW h \in Fds, tunnels[k] = h
              PROVE  Unused(h)'
          <6>1. h # NoFd /\ Kind(sock[h]) = "tunnel" /\ Unused(h)
            BY <5>1, <4>0, LinkedFed, Constants DEF Coupling
          <6> QED BY <6>1, <2>5, <2>8, UnusedKept
        <5>2. pc = "bound" => buffer'["proxy"][cur] = <<>>
          <6>1. pc = "bound" => cur \in Fds /\ d # cur /\ buffer["proxy"][cur] = <<>>
            BY <4>0, <1>2, <2>d DEF Base, Hands, Coupling
          <6> QED BY <6>1, <2>6
        <5> QED BY <5>1, <5>2, <4>0, <2>1, <2>5, <2>7, CouplingKept
      <4>2. Outward'
        BY <4>0, <2>1, <2>5, <2>7, <2>8, <2>9, OutwardKept
      <4>3. Homeward'
        <5>1. \A f \in Fds : IsUser(f) =>
                 /\ InOrder(buffer["proxy"][f])
                 /\ Kind(sock[f]) = "peer" => Less(got[On(f)[2]], buffer["proxy"][f])
                 /\ \A h \in Fed : partner["net"][h] # f => None(buffer["proxy"][f], On(h)[2])
                 /\ \A h \in Fds \ {f} : IsUser(h) => Foreign(buffer["proxy"][f], buffer["proxy"][h])
          BY <4>0 DEF Homeward
        <5>2. ASSUME NEW f \in Fds, IsUser(f), f # d
              PROVE  Foreign(buffer["proxy"][f], a)
          BY <5>2, <5>1, <1>2, <1>t, <2>d, <3>a, FromNone
        <5>3. ASSUME NEW f \in Fds, IsUser(f), f # d, IsUser(d)
              PROVE  Foreign(buffer["proxy"][f], r) /\ Foreign(r, buffer["proxy"][f])
          <6>1. Foreign(buffer["proxy"][f], q)
            BY <5>3, <5>1, <3>1, <2>11
          <6> QED BY <6>1, <5>2, <5>3, <3>1, JoinForeign
        <5>4. ASSUME IsUser(d)
              PROVE  /\ InOrder(r)
                     /\ Kind(sock[d]) = "peer" => Less(got[On(d)[2]], r)
                     /\ \A h \in Fed : partner["net"][h] # d => None(r, On(h)[2])
          <6>1. InOrder(r)
            BY <5>1, <5>4, <3>1, <3>2, <3>a, <2>11
          <6>2. ASSUME Kind(sock[d]) = "peer"
                PROVE  Less(got[On(d)[2]], r)
            <7>1. On(d)[2] \in Peers
              BY <6>2, <2>11, Holds, SockFields, WhatFields DEF On, Kind
            <7> QED BY <7>1, <6>2, <5>1, <5>4, <3>1, <3>2, <3>a, <2>11
          <6>3. ASSUME NEW h \in Fed, partner["net"][h] # d
                PROVE  None(r, On(h)[2])
            <7>1. h \in Fds /\ Kind(sock[h]) = "tunnel" /\ h # g
              BY <6>3, <2>d, LinkedFed
            <7>2. None(a, On(h)[2])
              BY <7>1, <3>a, <3>o, FromNone
            <7> QED BY <7>2, <6>3, <5>1, <5>4, <3>1, <3>2, <2>11
          <6> QED BY <6>1, <6>2, <6>3
        <5>5. \A u \in Peers : InOrder(got[u])
          BY <4>0 DEF Homeward
        <5>6. ASSUME NEW f \in Fds, IsUser(f)
              PROVE  /\ InOrder(buffer'["proxy"][f])
                     /\ Kind(sock[f]) = "peer" => Less(got[On(f)[2]], buffer'["proxy"][f])
                     /\ \A h \in Fed : partner["net"][h] # f => None(buffer'["proxy"][f], On(h)[2])
                     /\ \A h \in Fds \ {f} : IsUser(h) => Foreign(buffer'["proxy"][f], buffer'["proxy"][h])
          <6>1. CASE f # d
            <7>1. buffer'["proxy"][f] = buffer["proxy"][f]
              BY <6>1, <2>6
            <7>2. \A h \in Fds \ {f} : IsUser(h) => Foreign(buffer["proxy"][f], buffer'["proxy"][h])
              BY <6>1, <5>1, <5>3, <5>6, <3>1, <2>6
            <7> QED BY <7>1, <7>2, <5>1, <5>6
          <6>2. CASE f = d
            <7>1. buffer'["proxy"][f] = r
              BY <6>2, <3>1
            <7>2. \A h \in Fds \ {f} : IsUser(h) => Foreign(r, buffer'["proxy"][h])
              BY <6>2, <5>3, <5>6, <2>6
            <7> QED BY <7>1, <7>2, <6>2, <5>4, <5>6
          <6> QED BY <6>1, <6>2
        <5>7. \A f \in Fds : IsUser(f)' <=> IsUser(f)
          BY <2>5 DEF IsUser
        <5>8. Fed \subseteq Fds
          BY LinkedFed
        <5> QED BY <5>5, <5>6, <5>7, <5>8, <2>1, <2>5, <2>7 DEF Homeward, On
      <4> QED BY <4>1, <4>2, <4>3
    <3> QED BY <3>3, <3>4, <3>5 DEF Queued
  <2> QED BY <2>10, <2>11
<1> QED BY <1>1, <1>4, <1>5

\* The front of a peer's buffer goes to the peer.
LEMMA WritePeerQueued ==
  ASSUME Base, Base', Queued, Unstale' => Unstale, NEW i \in Slots, WritePeer(i)
  PROVE  Queued'
<1>f. PICK f : f = table["proxy"].fd[i]
  OBVIOUS
<1>x. PICK x : x = sock[f]
  OBVIOUS
<1>1. /\ f # NoFd /\ buffer["proxy"][f] # <<>> /\ Pop("proxy", f) /\ pc = "loop"
      /\ \/ /\ x.on[1] = "peer"
            /\ got' = [got EXCEPT ![x.on[2]] = Append(@, Head(buffer["proxy"][f]))]
            /\ \E e \in BOOLEAN : sock' = [sock EXCEPT ![f].err = e]
         \/ /\ sock' = [sock EXCEPT ![f].err = FALSE]
            /\ UNCHANGED got
      /\ UNCHANGED <<type, sent, asked, out, table, pc, cur, msg, tunnels, partner, actualfds>>
  BY <1>f, <1>x, Zenon DEF WritePeer, setup, maps
<1>2. /\ "proxy" \in Sides /\ "net" \in Sides /\ f \in Fds /\ x \in Socks
  BY <1>1, <1>f, <1>x, Holds, Zenon DEF Sides
<1>3. /\ \A g \in Fds : buffer'["proxy"][g] = IF g = f THEN Tail(buffer["proxy"][g]) ELSE buffer["proxy"][g]
      /\ buffer'["net"] = buffer["net"]
      /\ buffer["proxy"][f] \in Seq(Units)
  <2>1. buffer["proxy"][f] \in Seq(Units)
    BY <1>2, TypesNext
  <2> QED BY <2>1, <1>1, <1>2, Popped
<1>4. /\ \A g \in Fds : sock'[g].on = sock[g].on /\ Kind(sock'[g]) = Kind(sock[g])
      /\ \A g \in Fds : sock'[g].inbox = sock[g].inbox
  <2>1. PICK e \in BOOLEAN : sock' = [sock EXCEPT ![f].err = e]
    BY <1>1
  <2>2. [x EXCEPT !.err = e].on = x.on /\ [x EXCEPT !.err = e].inbox = x.inbox
    BY <1>2, SockFields
  <2>3. sock' = [sock EXCEPT ![f] = [x EXCEPT !.err = e]]
    BY <2>1, <1>x
  <2> QED BY <2>2, <2>3, <1>2, <1>x DEF Kind, Base, Typed
<1>5. Linked' = Linked /\ Fed' = Fed
  BY <1>1, <1>4 DEF Linked, Fed
<1>6. Onward /\ InsFewer /\ NetsFewer /\ OutsFewer /\ HandFewer
  BY <1>1, <1>3, <1>4, NoneSent, SameFewer
<1>7. ProxiesFewer
  <2>1. \A g \in Fds : Part(buffer["proxy"][g], buffer["proxy"][g])
    BY TypesNext, Parts
  <2>2. Part(Tail(buffer["proxy"][f]), buffer["proxy"][f])
    BY <1>1, <1>3, Parts
  <2> QED BY <2>1, <2>2, <1>3 DEF ProxiesFewer
<1>8. CASE UNCHANGED got
  <2>1. GotsFewer
    BY <1>8, SameFewer
  <2> QED BY <2>1, <1>1, <1>4, <1>6, <1>7, StillQueued
<1>9. CASE /\ x.on[1] = "peer"
           /\ got' = [got EXCEPT ![x.on[2]] = Append(@, Head(buffer["proxy"][f]))]
  <2>u. PICK u \in Peers : u = On(f)[2] /\ u = x.on[2]
    BY <1>9, <1>2, <1>x, SockFields, WhatFields DEF On
  <2>k. Kind(sock[f]) = "peer" /\ IsUser(f)
    BY <1>9, <1>2, <1>x DEF Kind, IsUser
  <2>1. PICK q \in Seq(Units), a \in Seq(Units), r \in Seq(Units), b \in Seq(Units) :
           /\ q = got[u] /\ a = buffer["proxy"][f] /\ r = got'[u] /\ b = buffer'["proxy"][f]
           /\ Joins(q, a, 1, r, b)
    <3>1. PICK q \in Seq(Units), a \in Seq(Units) : q = got[u] /\ a = buffer["proxy"][f]
      BY <1>2, TypesNext
    <3>2. got'[u] \in Seq(Units) /\ buffer'["proxy"][f] \in Seq(Units)
      BY <1>2, TypesNext
    <3>3. got'[u] = Append(q, Head(a)) /\ buffer'["proxy"][f] = Tail(a)
      BY <1>2, <1>3, <1>9, <2>u, <3>1 DEF Base, Typed
    <3>4. Joins(q, a, 1, Append(q, Head(a)), Tail(a))
      BY <1>1, <3>1, HeadJoins
    <3> QED BY <3>1, <3>2, <3>3, <3>4
  <2>2. /\ \A p : Less(q, p) /\ Less(a, p) => Less(r, p)
        /\ InOrder(a) /\ Less(q, a) => Less(r, b)
        /\ InOrder(q) /\ InOrder(a) /\ Less(q, a) => InOrder(r)
        /\ \A s : None(q, s) /\ None(a, s) => None(r, s)
    BY <2>1, JoinLess
  <2>3. \A v \in Peers : v # u => got'[v] = got[v]
    BY <1>9, <2>u DEF Base, Typed
  <2>4. Counted'
    <3>1. PICK z \in Places, w \in Places :
             /\ z = <<"proxy", f>> /\ w = <<"got", u>> /\ z # w
             /\ Queues[z] = buffer["proxy"][f] /\ Queues'[z] = buffer'["proxy"][f]
             /\ Queues[w] = got[u] /\ Queues'[w] = got'[u]
      BY <1>2, QueuesAt
    <3>2. OnlyAt(z, w)
      BY <1>1, <1>3, <1>4, <2>3, <3>1 DEF OnlyAt, Hand
    <3>3. Joins(Queues[w], Queues[z], 1, Queues'[w], Queues'[z])
      BY <2>1, <3>1
    <3> QED BY <1>1, <3>1, <3>2, <3>3, Moved DEF Queued
  <2>5. \A g \in Fds : /\ Part(buffer'["proxy"][g], buffer["proxy"][g])
                       /\ buffer'["proxy"][g] \in Seq(Units) /\ buffer["proxy"][g] \in Seq(Units)
    BY <1>7, TypesNext DEF ProxiesFewer
  <2>6. Inflow'
    <3>i. /\ \A g \in Fds : InOrder(sock[g].inbox)
          /\ \A h \in Fds : Kind(sock[h]) = "tunnel" =>
                /\ From(sock[h].inbox, On(h)[2])
                /\ \A g \in Fds : Less(buffer["proxy"][g], sock[h].inbox)
                /\ \A v \in Peers : Less(got[v], sock[h].inbox)
          /\ \A k \in DOMAIN tunnels : tunnels[k] # NoFd => Unheard(On(tunnels[k])[2])
      BY DEF Queued, Inflow
    <3>1. ASSUME NEW h \in Fds, Kind(sock[h]) = "tunnel"
          PROVE  /\ \A g \in Fds : Less(buffer'["proxy"][g], sock[h].inbox)
                 /\ \A v \in Peers : Less(got'[v], sock[h].inbox)
      <4>1. Part(sock[h].inbox, sock[h].inbox)
        BY TypesNext, Parts
      <4>2. \A g \in Fds : Less(buffer'["proxy"][g], sock[h].inbox)
        BY <4>1, <2>5, <3>1, <3>i, PartLess
      <4>3. Less(r, sock[h].inbox)
        BY <1>2, <2>1, <2>2, <3>1, <3>i
      <4> QED BY <4>2, <4>3, <2>1, <2>3, <3>1, <3>i
    <3>2. ASSUME NEW k \in DOMAIN tunnels, tunnels[k] # NoFd
          PROVE  /\ \A g \in Fds : None(buffer'["proxy"][g], On(tunnels[k])[2])
                 /\ \A v \in Peers : None(got'[v], On(tunnels[k])[2])
      <4>1. /\ \A g \in Fds : None(buffer["proxy"][g], On(tunnels[k])[2])
            /\ \A v \in Peers : None(got[v], On(tunnels[k])[2])
        BY <3>2, <3>i DEF Unheard
      <4>2. \A g \in Fds : None(buffer'["proxy"][g], On(tunnels[k])[2])
        BY <4>1, <2>5, PartKeeps
      <4>3. None(r, On(tunnels[k])[2])
        BY <4>1, <1>2, <2>1, <2>2
      <4> QED BY <4>1, <4>2, <4>3, <2>1, <2>3
    <3>3. \A k \in DOMAIN tunnels : tunnels[k] # NoFd => tunnels[k] \in Fds
      BY LinkedFed
    <3> QED BY <3>i, <3>1, <3>2, <3>3, <1>1, <1>4 DEF Inflow, Unheard, On
  <2>7. ASSUME Unstale'
        PROVE  Coupling' /\ Outward' /\ Homeward'
    <3>0. Coupling /\ Outward /\ Homeward
      BY <2>7 DEF Queued
    <3>1. Coupling'
      <4>1. ASSUME NEW k \in DOMAIN tunnels, NEW h \in Fds, tunnels[k] = h
            PROVE  Unused(h)'
        <5>1. h # NoFd /\ Kind(sock[h]) = "tunnel" /\ Unused(h)
          BY <4>1, <3>0, LinkedFed, Constants DEF Coupling
        <5> QED BY <5>1, <1>4, <1>6, UnusedKept
      <4> QED BY <4>1, <3>0, <1>1, <1>4, <1>5, CouplingKept
    <3>2. Outward'
      BY <3>0, <1>1, <1>4, <1>5, <1>6, OutwardKept
    <3>3. Homeward'
      <4>1. \A g \in Fds : IsUser(g) =>
               /\ InOrder(buffer["proxy"][g])
               /\ Kind(sock[g]) = "peer" => Less(got[On(g)[2]], buffer["proxy"][g])
               /\ \A h \in Fed : partner["net"][h] # g => None(buffer["proxy"][g], On(h)[2])
               /\ \A h \in Fds \ {g} : IsUser(h) => Foreign(buffer["proxy"][g], buffer["proxy"][h])
        BY <3>0 DEF Homeward
      <4>2. InOrder(a) /\ Less(q, a)
        BY <4>1, <1>2, <2>u, <2>k, <2>1
      <4>3. \A v \in Peers : InOrder(got'[v])
        <5>1. \A v \in Peers : InOrder(got[v])
          BY <3>0 DEF Homeward
        <5> QED BY <5>1, <4>2, <2>1, <2>2, <2>3
      <4>4. ASSUME NEW g \in Fds, IsUser(g)
            PROVE  /\ InOrder(buffer'["proxy"][g])
                   /\ Kind(sock[g]) = "peer" => Less(got'[On(g)[2]], buffer'["proxy"][g])
                   /\ \A h \in Fed : partner["net"][h] # g => None(buffer'["proxy"][g], On(h)[2])
                   /\ \A h \in Fds \ {g} : IsUser(h) => Foreign(buffer'["proxy"][g], buffer'["proxy"][h])
        <5>1. /\ InOrder(buffer'["proxy"][g])
              /\ \A h \in Fed : partner["net"][h] # g => None(buffer'["proxy"][g], On(h)[2])
          <6>1. /\ Part(buffer'["proxy"][g], buffer["proxy"][g])
                /\ buffer'["proxy"][g] \in Seq(Units) /\ buffer["proxy"][g] \in Seq(Units)
            BY <2>5
          <6>2. /\ InOrder(buffer["proxy"][g]) => InOrder(buffer'["proxy"][g])
                /\ \A s : None(buffer["proxy"][g], s) => None(buffer'["proxy"][g], s)
            BY <6>1, PartKeeps
          <6> QED BY <4>1, <4>4, <6>2
        <5>2. \A h \in Fds \ {g} : IsUser(h) => Foreign(buffer'["proxy"][g], buffer'["proxy"][h])
          BY <4>1, <4>4, <2>5, PartForeign
        <5>3. ASSUME Kind(sock[g]) = "peer"
              PROVE  Less(got'[On(g)[2]], buffer'["proxy"][g])
          <6>0. On(g)[2] \in Peers /\ Less(got[On(g)[2]], buffer["proxy"][g])
            BY <4>1, <4>4, <5>3, Holds, SockFields, WhatFields DEF On, Kind
          <6>1. CASE g = f
            BY <6>1, <4>2, <2>u, <2>1, <2>2
          <6>2. CASE g # f /\ On(g)[2] = u
            <7>1. Less(a, buffer["proxy"][g])
              BY <6>2, <4>1, <4>4, <1>2, <2>k, <2>1, FromNone
            <7>2. Less(r, buffer["proxy"][g])
              BY <6>0, <6>2, <7>1, <2>1, <2>2
            <7> QED BY <6>2, <7>2, <1>3, <2>1
          <6>3. CASE g # f /\ On(g)[2] # u
            BY <6>0, <6>3, <1>3, <2>3
          <6> QED BY <6>1, <6>2, <6>3
        <5> QED BY <5>1, <5>2, <5>3
      <4>5. \A g \in Fds : IsUser(g)' <=> IsUser(g)
        BY <1>4 DEF IsUser
      <4>6. Fed \subseteq Fds
        BY LinkedFed
      <4> QED BY <4>3, <4>4, <4>5, <4>6, <1>1, <1>4, <1>5 DEF Homeward, On
    <3> QED BY <3>1, <3>2, <3>3
  <2> QED BY <2>4, <2>6, <2>7 DEF Queued
<1> QED BY <1>1, <1>8, <1>9, Zenon

\* The front of a tunnel's buffer goes to the tunnel.
LEMMA WriteTunnelQueued ==
  ASSUME Base, Base', Queued, Unstale' => Unstale, NEW i \in Slots, WriteTunnel(i)
  PROVE  Queued'
<1>f. PICK g : g = table["net"].fd[i]
  OBVIOUS
<1>t. PICK t : t = On(g)[2]
  OBVIOUS
<1>1. /\ g # NoFd /\ buffer["net"][g] # <<>>
      /\ \/ /\ Pop("net", g)
            /\ UNCHANGED out \/ out' = [out EXCEPT ![t] = Append(@, Head(buffer["net"][g]))]
         \/ UNCHANGED <<buffer, out>>
      /\ UNCHANGED <<type, sent, asked, got, sock, table, pc, cur, msg, tunnels, partner, actualfds>>
  BY <1>f, <1>t, Zenon DEF WriteTunnel, setup, maps
<1>2. /\ "net" \in Sides /\ "proxy" \in Sides /\ g \in Registered(table["net"]) /\ g \in Fds
      /\ Kind(sock[g]) = "tunnel" /\ g \in Fed
  BY <1>1, <1>f, Holds DEF Sides, KindsOf, Fed
<1>3. t \in Tunnels /\ out \in [Tunnels -> Seq(Datagrams)]
  BY <1>2, <1>t, LinkedFed DEF Base, Typed
<1>4. \A h \in Fds : Kind(sock[h]) = "tunnel" /\ h # g => On(h)[2] \in Tunnels /\ On(h)[2] # t
  BY <1>2, <1>t, LinkedFed DEF Base, OneEach
<1>h. Hand' = Hand
  BY <1>1 DEF Hand
<1>5. Linked' = Linked /\ Fed' = Fed
  BY <1>1 DEF Linked, Fed
<1>6. /\ \A h \in Fds : Part(buffer["net"][h], buffer["net"][h])
      /\ Part(Tail(buffer["net"][g]), buffer["net"][g])
      /\ Part(Hand, Hand)
  BY <1>1, <1>2, TypesNext, Parts
<1>7. /\ Pop("net", g) => /\ \A h \in Fds : buffer'["net"][h] = IF h = g THEN Tail(buffer["net"][h])
                                                                ELSE buffer["net"][h]
                          /\ buffer'["proxy"] = buffer["proxy"]
  BY <1>1, <1>2, Popped
<1>8. Onward /\ InsFewer /\ NetsFewer /\ ProxiesFewer /\ GotsFewer /\ HandFewer
  <2>1. NetsFewer /\ buffer'["proxy"] = buffer["proxy"]
    <3>1. CASE Pop("net", g)
      BY <3>1, <1>6, <1>7 DEF NetsFewer
    <3>2. CASE UNCHANGED buffer
      BY <3>2, <1>6 DEF NetsFewer
    <3> QED BY <3>1, <3>2, <1>1
  <2> QED BY <2>1, <1>1, <1>6, <1>h, NoneSent, SameFewer DEF HandFewer
<1>9. CASE UNCHANGED out
  <2>1. OutsFewer
    BY <1>9, SameFewer
  <2> QED BY <2>1, <1>1, <1>8, StillQueued
<1>10. CASE Pop("net", g) /\ out' = [out EXCEPT ![t] = Append(@, Head(buffer["net"][g]))]
  <2>1. PICK q \in Seq(Units), a \in Seq(Units), r \in Seq(Units), b \in Seq(Units) :
           /\ q = out[t] /\ a = buffer["net"][g] /\ r = out'[t] /\ b = buffer'["net"][g]
           /\ Joins(q, a, 1, r, b)
    <3>1. PICK q \in Seq(Units), a \in Seq(Units) : q = out[t] /\ a = buffer["net"][g]
      BY <1>2, <1>3, TypesNext
    <3>2. out'[t] \in Seq(Units) /\ buffer'["net"][g] \in Seq(Units)
      BY <1>2, <1>3, TypesNext
    <3>3. out'[t] = Append(q, Head(a)) /\ buffer'["net"][g] = Tail(a)
      BY <1>2, <1>3, <1>7, <1>10, <3>1
    <3>4. Joins(q, a, 1, Append(q, Head(a)), Tail(a))
      BY <1>1, <3>1, HeadJoins
    <3> QED BY <3>1, <3>2, <3>3, <3>4
  <2>2. /\ \A p : Less(q, p) /\ Less(a, p) => Less(r, p)
        /\ InOrder(a) /\ Less(q, a) => Less(r, b)
        /\ InOrder(q) /\ InOrder(a) /\ Less(q, a) => InOrder(r)
        /\ Part(b, a)
    BY <2>1, JoinLess, JoinsLeft
  <2>3. /\ \A s \in Tunnels : s # t => out'[s] = out[s]
        /\ \A h \in Fds : h # g => buffer'["net"][h] = buffer["net"][h]
        /\ buffer'["proxy"] = buffer["proxy"]
    BY <1>3, <1>7, <1>10
  <2>4. Counted'
    <3>1. PICK z \in Places, w \in Places :
             /\ z = <<"net", g>> /\ w = <<"out", t>> /\ z # w
             /\ Queues[z] = buffer["net"][g] /\ Queues'[z] = buffer'["net"][g]
             /\ Queues[w] = out[t] /\ Queues'[w] = out'[t]
      BY <1>2, <1>3, QueuesAt
    <3>2. OnlyAt(z, w)
      BY <1>1, <1>h, <2>3, <3>1 DEF OnlyAt
    <3>3. Joins(Queues[w], Queues[z], 1, Queues'[w], Queues'[z])
      BY <2>1, <3>1
    <3> QED BY <1>1, <3>1, <3>2, <3>3, Moved DEF Queued
  <2>5. Inflow'
    <3>1. \A k \in DOMAIN tunnels : tunnels[k] # NoFd => Unheard(sock[tunnels[k]].on[2])
      BY DEF Queued, Inflow, On
    <3> QED BY <3>1, <1>1, <1>8, InflowKept DEF Queued
  <2>6. ASSUME Unstale'
        PROVE  Coupling' /\ Outward' /\ Homeward'
    <3>0. Coupling /\ Outward /\ Homeward
      BY <2>6 DEF Queued
    <3>1. Coupling'
      <4>1. ASSUME NEW k \in DOMAIN tunnels, NEW h \in Fds, tunnels[k] = h
            PROVE  Unused(h)'
        <5>1. h # NoFd /\ h # g /\ Kind(sock[h]) = "tunnel"
          BY <4>1, <1>2, LinkedFed, Constants
        <5>2. out[On(h)[2]] = <<>> /\ buffer["net"][h] = <<>>
          BY <4>1, <5>1, <3>0 DEF Coupling, Unused
        <5> QED BY <5>1, <5>2, <1>1, <1>4, <2>3 DEF Unused, On
      <4>2. pc = "bound" => buffer'["proxy"][cur] = <<>>
        BY <3>0, <2>3 DEF Coupling
      <4> QED BY <4>1, <4>2, <3>0, <1>1, <1>5, CouplingKept
    <3>2. Outward'
      <4>1. \A h \in Fds : Kind(sock[h]) = "tunnel" =>
               InOrder(buffer["net"][h]) /\ Less(out[On(h)[2]], buffer["net"][h])
        BY <3>0 DEF Outward
      <4>2. InOrder(a) /\ Less(q, a)
        BY <4>1, <1>2, <1>t, <2>1
      <4>3. \A s \in Tunnels : InOrder(out'[s])
        <5>1. \A s \in Tunnels : InOrder(out[s])
          BY <3>0 DEF Outward
        <5> QED BY <5>1, <4>2, <1>3, <2>1, <2>2, <2>3
      <4>4. ASSUME NEW h \in Fds, Kind(sock[h]) = "tunnel"
            PROVE  InOrder(buffer'["net"][h]) /\ Less(out'[On(h)[2]], buffer'["net"][h])
        <5>1. CASE h = g
          <6>1. InOrder(b)
            BY <4>2, <2>1, <2>2, PartKeeps
          <6> QED BY <5>1, <6>1, <4>2, <1>t, <2>1, <2>2
        <5>2. CASE h # g
          BY <5>2, <4>1, <4>4, <1>4, <2>3
        <5> QED BY <5>1, <5>2
      <4>5. ASSUME NEW p, Part(p, p), NEW h \in Fds, Kind(sock[h]) = "tunnel",
                   Less(out[On(h)[2]], p), Less(buffer["net"][h], p)
            PROVE  Less(out'[On(h)[2]], p) /\ Less(buffer'["net"][h], p)
        <5>1. CASE h = g
          <6>1. Less(q, p) /\ Less(a, p)
            BY <4>5, <5>1, <1>t, <2>1
          <6>2. Less(b, p)
            BY <6>1, <4>5, <2>2, PartLess
          <6> QED BY <5>1, <6>1, <6>2, <1>t, <2>1, <2>2
        <5>2. CASE h # g
          BY <5>2, <4>5, <1>4, <2>3
        <5> QED BY <5>1, <5>2
      <4>6. ASSUME NEW f \in Linked, NEW h \in Fds, partner["proxy"][f] = h, Kind(sock[h]) = "tunnel"
            PROVE  Less(out'[On(h)[2]], sock[f].inbox) /\ Less(buffer'["net"][h], sock[f].inbox)
        <5>1. Part(sock[f].inbox, sock[f].inbox)
          BY LinkedFed, TypesNext, Parts
        <5>2. Less(out[On(h)[2]], sock[f].inbox) /\ Less(buffer["net"][h], sock[f].inbox)
          BY <3>0, <4>6 DEF Outward, IsTunnel
        <5> QED BY <5>1, <5>2, <4>5, <4>6
      <4>7. ASSUME pc = "push", NEW h \in Fds, partner["proxy"][cur] = h, Kind(sock[h]) = "tunnel"
            PROVE  Less(out'[On(h)[2]], Hand) /\ Less(buffer'["net"][h], Hand)
        <5>1. Less(out[On(h)[2]], Hand) /\ Less(buffer["net"][h], Hand)
          BY <3>0, <4>7 DEF Outward, IsTunnel
        <5> QED BY <5>1, <1>6, <4>5, <4>7
      <4> QED BY <4>3, <4>4, <4>6, <4>7, <1>1, <1>5, <1>h DEF Outward, IsTunnel, On
    <3>3. Homeward'
      <4>1. Fed \subseteq Fds
        BY LinkedFed
      <4> QED BY <4>1, <3>0, <1>1, <1>5, <1>8, HomewardKept
    <3> QED BY <3>1, <3>2, <3>3
  <2> QED BY <2>4, <2>5, <2>6 DEF Queued
<1> QED BY <1>1, <1>9, <1>10, Zenon

-----------------------------------------------------------------------------
(* Order, and every unit once.                                             *)

\* At the start nothing is anywhere.
LEMMA InitQueued == Init => Queued
<1> SUFFICES ASSUME Init PROVE Queued
  OBVIOUS
<1>1. \A f \in Fds : Kind(sock[f]) \notin {"peer", "tunnel", "bound"} /\ sock[f].inbox = <<>>
  <2>1. \A f \in Fds : sock[f] \in {Listening, Misc, Closed}
    BY DEF Init
  <2>2. \A x \in {Listening, Misc, Closed} : Kind(x) \notin {"peer", "tunnel", "bound"} /\ x.inbox = <<>>
    BY DEF Listening, Misc, Closed, NewSock, Kind
  <2> QED BY <2>1, <2>2
<1>2. /\ \A f \in Fds : buffer["net"][f] = <<>> /\ buffer["proxy"][f] = <<>>
      /\ \A t \in Tunnels : out[t] = <<>>
      /\ \A u \in Peers : got[u] = <<>>
      /\ Hand = <<>> /\ tunnels = <<>> /\ pc = "start"
  BY DEF Init, Hand, Sides
<1>3. \A p \in Places : Queues[p] = <<>>
  <2>1. ASSUME NEW p \in Places
        PROVE  Queues[p] = <<>>
    <3>1. /\ \A f \in Fds : /\ Queues[<<"in", f>>] = <<>>
                            /\ Queues[<<"net", f>>] = <<>> /\ Queues[<<"proxy", f>>] = <<>>
          /\ \A t \in Tunnels : Queues[<<"out", t>>] = <<>>
          /\ \A u \in Peers : Queues[<<"got", u>>] = <<>>
          /\ Queues[<<"hand", 0>>] = <<>>
      BY <1>1, <1>2, QueuesAt
    <3> QED BY <3>1, PlaceOf
  <2> QED BY <2>1
<1>4. Counted
  <2>1. DOMAIN Queues = Places
    BY DEF Queues, QueuesOf
  <2> QED BY <1>3, <2>1 DEF Counted, Numbered, Once
<1>5. Inflow
  BY <1>1, <1>2, Empties DEF Inflow
<1>6. Coupling /\ Outward /\ Homeward
  <2>1. Linked = {}
    BY <1>1 DEF Linked
  <2>2. \A f \in Fds : ~IsUser(f)
    BY <1>1 DEF IsUser
  <2>3. Coupling
    BY <1>2, <2>1 DEF Coupling
  <2>4. Outward
    BY <1>1, <1>2, <2>1, Empties DEF Outward
  <2>5. Homeward
    BY <1>2, <2>2, Empties DEF Homeward
  <2> QED BY <2>3, <2>4, <2>5
<1> QED BY <1>4, <1>5, <1>6 DEF Queued

\* Every step keeps the queues in order.
LEMMA NextQueued == Base /\ Base' /\ Queued /\ [Next]_vars => Queued'
<1> SUFFICES ASSUME Base, Base', Queued, [Next]_vars PROVE Queued'
  OBVIOUS
<1>1. Unstale' => Unstale
  BY SeenGrows DEF Unstale
<1>2. CASE UNCHANGED vars
  <2>1. /\ UNCHANGED <<type, sent, asked, sock, buffer, out, got, partner, table, pc, cur, msg, tunnels, actualfds>>
    BY <1>2 DEF vars, world, setup, maps
  <2>2. InsFewer /\ NetsFewer /\ ProxiesFewer /\ OutsFewer /\ GotsFewer
    BY <2>1, SameFewer
  <2> QED BY <1>1, <2>1, <2>2, NoneSent, StillQueued
<1>3. CASE \E u \in Peers : Arrive(u)
  BY <1>1, <1>3, ArriveQueued
<1>4. CASE Tunnel \/ NoClient \/ \E f \in Fds : Frame(f)
  BY <1>1, <1>4, TunnelQueued, NoClientQueued, FrameQueued
<1>5. CASE Start \/ Receive \/ ConnectUser \/ TakePromise
  BY <1>1, <1>5, InsertQueued, ReceiveQueued, ConnectUserQueued, TakePromiseQueued
<1>6. CASE Push \/ Dispatch \/ InsertPeer \/ \E i \in Slots : ReadPeer(i) \/ WritePeer(i)
  BY <1>1, <1>6, PushQueued, DispatchQueued, InsertQueued, ReadPeerQueued, WritePeerQueued
<1>7. CASE NetThread
  BY <1>1, <1>7, TakeTunnelQueued, ReadTunnelQueued, WriteTunnelQueued DEF NetThread
<1> QED BY <1>2, <1>3, <1>4, <1>5, <1>6, <1>7 DEF Next, ProxyThread

\* The queues have units that were sent, each once, and until a number was in

\* use again what is ahead on a way was sent before what is behind.
THEOREM QueuesInOrder == Spec => []Queued
<1>1. Base /\ [Next]_vars => Base'
  BY NextBase
<1>2. Init => Base /\ Queued
  BY InitBase, InitQueued
<1>3. Base /\ Queued /\ [Next]_vars => Base' /\ Queued'
  BY <1>1, NextQueued
<1> QED BY <1>2, <1>3, PTL DEF Spec

\* No datagram and no reply goes out twice; each tunnel and each peer takes

\* those of one sender in the order they came, until a number is in use again
\* that the relay still has data or a partner for.
THEOREM OnceInOrderAlways == Spec => []OnceInOrder
<1>1. ASSUME Base, Queued
      PROVE  OnceInOrder
  <2>0. DOMAIN Queues = Places /\ DOMAIN out = Tunnels /\ DOMAIN got = Peers
    BY <1>1 DEF Queues, QueuesOf, Base, Typed
  <2>1. \A a, b \in Places : \A i \in DOMAIN Queues[a], j \in DOMAIN Queues[b] :
           Queues[a][i] = Queues[b][j] => a = b /\ i = j
    BY <1>1, <2>0 DEF Queued, Counted, Once
  <2>2. ASSUME NEW s \in Tunnels, NEW t \in Tunnels, NEW i \in DOMAIN out[s], NEW j \in DOMAIN out[t],
               out[s][i] = out[t][j]
        PROVE  s = t /\ i = j
    <3>1. /\ <<"out", s>> \in Places /\ Queues[<<"out", s>>] = out[s]
          /\ <<"out", t>> \in Places /\ Queues[<<"out", t>>] = out[t]
      BY QueuesAt
    <3>2. <<"out", s>> = <<"out", t>> /\ i = j
      BY <2>1, <2>2, <3>1
    <3> QED BY <3>2
  <2>3. ASSUME NEW u \in Peers, NEW v \in Peers, NEW i \in DOMAIN got[u], NEW j \in DOMAIN got[v],
               got[u][i] = got[v][j]
        PROVE  u = v /\ i = j
    <3>1. /\ <<"got", u>> \in Places /\ Queues[<<"got", u>>] = got[u]
          /\ <<"got", v>> \in Places /\ Queues[<<"got", v>>] = got[v]
      BY QueuesAt
    <3>2. <<"got", u>> = <<"got", v>> /\ i = j
      BY <2>1, <2>3, <3>1
    <3> QED BY <3>2
  <2>4. Once(out) /\ Once(got)
    BY <2>0, <2>2, <2>3 DEF Once
  <2>5. "stale" \notin seen => /\ \A t \in Tunnels : InOrder(out[t])
                               /\ \A u \in Peers : InOrder(got[u])
    BY <1>1 DEF Queued, Unstale, Outward, Homeward
  <2> QED BY <2>4, <2>5 DEF OnceInOrder
<1>2. Base /\ Queued => OnceInOrder
  BY <1>1
<1> QED BY <1>2, QueuesInOrder, BaseInvariance, PTL
=============================================================================
