--------------------------- MODULE TcpServerProofs ---------------------------
(***************************************************************************)
(* Proofs about TcpServer, for every number of connections, descriptors    *)
(* and slots, in both roles.                                               *)
(***************************************************************************)
EXTENDS TcpServer, PollTableProofs, SequenceTheorems

Marks == {"stale", "late", "absent", "proxyFull", "netFull", "early"}
Units == (Sides \X Conns \X Nat) \cup {Junk}
Chunk == Seq(Units) \ {<<>>}
Buffers == [chunks : Seq(Chunk), offset : Int]

Places == {"poll", "dispatch", "scan", "read", "blocked", "lost", "write"}

Types ==
    /\ listener \in Listeners
    /\ sock \in [Fds -> Ends \cup {Closed, Misc}]
    /\ peer \in [Ends -> {"none", "open", "fin", "rst", "dead"}]
    /\ sent \in [Ends -> Nat] /\ taken \in [Ends -> Nat]
    /\ \A e \in Ends : taken[e] <= sent[e] /\ sent[e] <= Bytes[e[1]]
    /\ got \in [Ends -> Seq(Units)]
    /\ backlog \subseteq Conns
    /\ table \in [Sides -> Tables] /\ \A s \in Sides : TableOK(table[s])
    /\ rev \in [Sides -> [Slots -> SUBSET {"in", "out"}]]
    /\ pc \in [Sides -> Places \cup {"insert", "await"}]
    /\ slot \in [Sides -> 0 .. MaxClient]
    /\ cur \in [Sides -> Fds \cup {NoFd}]
    /\ req \in Conns \cup {NoConn}
    /\ tunnels \in Seq(Fds \cup {NoFd}) /\ actualfds \in Seq(Fds)
    /\ partner \in [Sides -> [Fds -> Fds]]
    /\ buffer \in [Sides -> [Fds -> Buffers]]
    /\ removed \in [Sides -> SUBSET Fds]
    /\ inserted \in [Sides -> SUBSET Fds]
    /\ seen \in SUBSET Marks
    /\ \A s \in Sides, f \in Fds : buffer[s][f].offset >= MinOffset

\* Where a thread is, and what it has in its hand there.
InHand ==
    /\ pc["net"] \notin {"insert", "await"}
    /\ pc["proxy"] = "await" => IsServer
    /\ pc["proxy"] = "dispatch" => ~IsServer
    /\ \A s \in Sides :
          /\ pc[s] \in {"insert", "await", "read", "blocked", "lost"} =>
                cur[s] \in Fds
          /\ pc[s] \in {"read", "blocked", "lost", "write"} =>
                slot[s] >= 2
    /\ pc["proxy"] \in {"insert", "await"} <=> req # NoConn

\* The sockets: one per end, and each side's table, and what is on its way
\* into it, holds descriptors of that side.
Sockets ==
    /\ sock[0] = Misc /\ \A s \in Sides : 0 \notin inserted[s]
    /\ \A f, g \in Fds : sock[f] = sock[g] /\ sock[f] \in Ends => f = g
    /\ \A s \in Sides : \A i \in Slots : LET f == table[s].fd[i] IN
          f # NoFd => IF i = 0 THEN s = "proxy" /\ f = listener /\ sock[f] = Misc
                      ELSE sock[f] \in {s} \X Conns /\ f \in inserted[s]

\* Descriptors between a connection manager or accept and a table.
Pending0 ==
    /\ \A i \in DOMAIN tunnels : tunnels[i] # NoFd =>
          /\ sock[tunnels[i]] \in {"net"} \X Conns
          /\ tunnels[i] \notin Registered(table["net"])
          /\ \A j \in DOMAIN actualfds : actualfds[j] # tunnels[i]
          /\ \A j \in DOMAIN tunnels : tunnels[i] = tunnels[j] => i = j
    /\ \A i \in DOMAIN actualfds :
          /\ sock[actualfds[i]] \in {"net"} \X Conns
          /\ actualfds[i] \notin Registered(table["net"])
          /\ \A j \in DOMAIN actualfds : actualfds[i] = actualfds[j] => i = j
    /\ pc["proxy"] = "insert" =>
          /\ sock[cur["proxy"]] = <<"proxy", req>>
          /\ cur["proxy"] \notin Registered(table["proxy"])

\* Whom maps and threads mention, as remove expects it.
Known ==
    /\ \A f \in InUse("net") : partner["net"][f] # 0
    /\ pc["net"] \in {"read", "blocked"} => partner["net"][cur["net"]] # 0
    /\ pc["net"] = "lost" => cur["net"] # 0
    /\ IsServer =>
          /\ \A f \in Fds : partner["net"][f] \in {0} \cup inserted["proxy"]
          /\ pc["net"] = "lost" => cur["net"] \in inserted["proxy"]
          /\ pc["proxy"] = "await" => cur["proxy"] \in inserted["proxy"]
    /\ \A s \in Sides : pc[s] \in {"read", "blocked", "write"} /\ cur[s] # NoFd
                           => cur[s] \in inserted[s]

\* What is taken off the descriptor table is what is closed.
Held ==
    "stale" \in seen \/
    \A s \in Sides :
       pc[s] \in {"read", "blocked", "write"} /\ cur[s] # NoFd
          => sock[cur[s]] = Closed \/ cur[s] \in Registered(table[s])

Silent(e) == taken[e] = 0 /\ got[e] = <<>>
Unused(e) == ~IsOpen(e) /\ Silent(e)

\* The life of a connection: its ends come into being in order, once.
ServerBirths ==
    /\ Len(tunnels) <= 1 /\ (tunnels # <<>> => pc["proxy"] = "await")
    /\ \A c \in backlog : peer[<<"proxy", c>>] # "none"
    /\ \A c \in Conns : c \in backlog \/ peer[<<"proxy", c>>] = "none" =>
          Unused(<<"proxy", c>>) /\ Unused(<<"net", c>>) /\ req # c
    /\ pc["proxy"] \in {"insert", "await"} =>
          /\ req \notin backlog /\ peer[<<"proxy", req>>] # "none"
          /\ \A f \in Fds : sock[f] = <<"net", req>> => tunnels = <<f>>
          /\ tunnels # <<>> /\ tunnels[1] # NoFd =>
                sock[tunnels[1]] = <<"net", req>>
          /\ "stale" \notin seen =>
                /\ \A f \in Fds : sock[f] = <<"proxy", req>> => f = cur["proxy"]
                /\ sock[cur["proxy"]] \in {Closed, <<"proxy", req>>}
                /\ \A s \in Sides : Silent(<<s, req>>)

ClientBirths ==
    /\ backlog = {} /\ \A i \in DOMAIN tunnels : tunnels[i] # NoFd
    /\ \A c \in Conns :
          /\ peer[<<"net", c>>] = "none" =>
                /\ Unused(<<"proxy", c>>) /\ Unused(<<"net", c>>)
                /\ peer[<<"proxy", c>>] = "none"
          /\ peer[<<"proxy", c>>] = "none" => Unused(<<"proxy", c>>)
          /\ \A i \in DOMAIN tunnels : sock[tunnels[i]] = <<"net", c>> =>
                /\ peer[<<"proxy", c>>] = "none"
                /\ Unused(<<"proxy", c>>)
                /\ "stale" \notin seen => Silent(<<"net", c>>)

Births == (IsServer => ServerBirths) /\ (~IsServer => ClientBirths)


\* What is read of one end of a connection goes to the other end, or, when
\* that is not open, to no connection at all.
Routing ==
    "stale" \in seen \/
    \A s \in Sides : \A f \in Routed(s) : sock[f] \in Ends =>
       LET there == sock[partner[s][f]] IN
          /\ there \in Ends => there = Opposite(sock[f])
          /\ IsOpen(Opposite(sock[f])) => there = Opposite(sock[f])

Start(chunk) == chunk[1][3]
Stop(chunk) == chunk[Len(chunk)][3]

\* The chunk holds consecutive bytes of end d.
Run(chunk, d) == \A j \in DOMAIN chunk :
                    chunk[j] = <<d[1], d[2], Start(chunk) + j - 1>>

\* b holds what e's peer is to receive next, and nothing else.
Continues(b, e) ==
    LET q == b.chunks
        d == Opposite(e)
    IN  /\ \A i \in DOMAIN q : Run(q[i], d)
        /\ \A i \in 1 .. Len(q) - 1 : Start(q[i + 1]) = Stop(q[i]) + 1
        /\ IF q = <<>> THEN Len(got[e]) = taken[d]
           ELSE /\ Stop(q[Len(q)]) = taken[d]
                /\ \A i \in DOMAIN q : Stop(q[i]) <= taken[d]
                /\ b.offset < Len(q[1])
                /\ peer[e] \in {"open", "fin"} =>
                      b.offset >= 0 /\ Start(q[1]) + b.offset = Len(got[e]) + 1

Streams ==
    /\ \A s \in Sides, f \in Fds :
          buffer[s][f].chunks = <<>> => buffer[s][f].offset = 0
    /\ "stale" \in seen \/
          \A f \in Fds : sock[f] \in Ends =>
             Continues(buffer[sock[f][1]][f], sock[f])

IInv == /\ Types /\ InHand /\ Sockets /\ Pending0 /\ Known /\ Held /\ Births
        /\ Routing /\ Streams /\ NoMixing

-----------------------------------------------------------------------------
\* The constants, as the proofs use them.
LEMMA Constants ==
  /\ Sides = {"proxy", "net"}
  /\ \A s \in Sides : Other(s) \in Sides /\ Other(s) # s /\ Other(Other(s)) = s
  /\ Fds \subseteq Nat /\ 0 \in Fds /\ NoFd \notin Fds /\ 0 # NoFd
  /\ Slots \subseteq Int /\ 0 \in Slots
  /\ Listeners \subseteq (Fds \ {0}) \cup {NoFd}
  /\ Closed \notin Ends /\ Misc \notin Ends /\ Closed # Misc
  BY TcpServerAssumption, FdsAssumption, SlotsAndFds
  DEF Sides, Other, NoFd, Ends, Closed, Misc

\* The end of connection c on side s.
LEMMA EndOf ==
  ASSUME NEW s \in Sides, NEW c \in Conns
  PROVE  /\ <<s, c>> \in Ends /\ <<s, c>> # Closed /\ <<s, c>> # Misc
         /\ <<s, c>> \in {s} \X Conns
         /\ <<s, c>>[1] = s /\ <<s, c>>[2] = c
         /\ Opposite(<<s, c>>) = <<Other(s), c>>
  BY Constants DEF Ends, Opposite

\* An end on side s.
LEMMA EndsOfSide ==
  ASSUME NEW s \in Sides, NEW e \in {s} \X Conns
  PROVE  /\ e \in Ends /\ e # Closed /\ e # Misc /\ e[1] = s
  BY Constants DEF Ends

\* Every value starts in its set.
LEMMA InitTypes == Init => Types
<1> SUFFICES ASSUME Init PROVE Types
  OBVIOUS
<1>1. PICK bits \in [Sides -> [Slots \ {0} -> FreshBits]] :
          rev = [s \in Sides |->
                   [i \in Slots |-> IF i = 0 THEN {} ELSE bits[s][i]]]
  BY DEF Init
<1>2. rev \in [Sides -> [Slots -> SUBSET {"in", "out"}]]
  <2>1. ASSUME NEW s \in Sides, NEW i \in Slots
        PROVE  (IF i = 0 THEN {} ELSE bits[s][i]) \in SUBSET {"in", "out"}
    <3>1. i # 0 => bits[s][i] \in FreshBits
      BY <1>1
    <3> QED BY <3>1, TcpServerAssumption
  <2> QED BY <1>1, <2>1
<1>3. /\ table \in [Sides -> Tables]
      /\ \A s \in Sides : TableOK(table[s])
  <2>1. ASSUME NEW s \in Sides
        PROVE  TableOK(NewTable(IF s = "proxy" THEN listener ELSE NoFd))
    BY NewTableOK, Constants DEF Init
  <2> QED BY <2>1 DEF Init, TableOK
<1>4. /\ sock \in [Fds -> Ends \cup {Closed, Misc}]
      /\ listener \in Listeners
      /\ sent \in [Ends -> Nat] /\ taken \in [Ends -> Nat]
      /\ \A e \in Ends : taken[e] <= sent[e] /\ sent[e] <= Bytes[e[1]]
      /\ got \in [Ends -> Seq(Units)]
  BY TcpServerAssumption DEF Init, Ends
<1>5. /\ buffer \in [Sides -> [Fds -> Buffers]]
      /\ \A s \in Sides, f \in Fds : buffer[s][f].offset >= MinOffset
  BY TcpServerAssumption DEF Init, Buffers
<1>6. /\ peer \in [Ends -> {"none", "open", "fin", "rst", "dead"}]
      /\ backlog \subseteq Conns
      /\ pc \in [Sides -> Places \cup {"insert", "await"}]
      /\ slot \in [Sides -> 0 .. MaxClient]
      /\ cur \in [Sides -> Fds \cup {NoFd}]
      /\ req \in Conns \cup {NoConn}
      /\ tunnels \in Seq(Fds \cup {NoFd}) /\ actualfds \in Seq(Fds)
      /\ partner \in [Sides -> [Fds -> Fds]]
      /\ removed \in [Sides -> SUBSET Fds]
      /\ inserted \in [Sides -> SUBSET Fds]
      /\ seen \in SUBSET Marks
  BY Constants, MaxClientAssumption DEF Init, Places
<1> QED BY <1>2, <1>3, <1>4, <1>5, <1>6 DEF Types

\* The program starts in the invariant.
LEMMA InitIInv == Init => IInv
<1> SUFFICES ASSUME Init PROVE IInv
  OBVIOUS
<1>1. Types
  BY InitTypes
<1>2. InHand
  BY Constants DEF Init, InHand
<1>3. Sockets
  BY Constants, NewTableOK DEF Init, Sockets, NewTable
<1>4. Pending0
  BY Constants DEF Init, Pending0
<1>5. /\ Registered(table["proxy"]) = {listener} \ {NoFd}
      /\ Registered(table["net"]) = {}
  <2>1. listener \in Fds \cup {NoFd}
    BY Constants DEF Init
  <2>2. /\ table["proxy"] = NewTable(listener)
        /\ table["net"] = NewTable(NoFd)
    BY Constants DEF Init
  <2> QED BY <2>1, <2>2, NewTableOK
<1>6. InUse("net") = {} /\ InUse("proxy") = {listener} \ {NoFd}
  <2>1. pc["proxy"] = "poll" /\ actualfds = <<>>
    BY Constants DEF Init
  <2> QED BY <1>5, <2>1 DEF InUse
<1>7. Known
  BY <1>6, Constants DEF Init, Known
<1>8. Held
  BY Constants DEF Init, Held
<1>8a. Births
  <2>1. \A e \in Ends : Unused(e)
    BY Constants DEF Init, Unused, Silent, IsOpen
  <2>2. \A c \in Conns : <<"proxy", c>> \in Ends /\ <<"net", c>> \in Ends
    BY Constants DEF Ends
  <2> QED BY <2>1, <2>2, Constants, TcpServerAssumption
          DEF Init, Births, ServerBirths, ClientBirths
<1>9. Routing
  <2>1. \A f \in Fds : sock[f] \in {Misc, Closed}
    BY DEF Init
  <2>2. \A s \in Sides : \A f \in Routed(s) : f \in Fds
    BY <1>6, Constants DEF Init, Routed
  <2> QED BY <2>1, <2>2, Constants DEF Routing
<1>10. Streams
  BY Constants DEF Init, Streams
<1>11. NoMixing
  <2>1. ASSUME NEW e \in Ends
        PROVE  \E k \in 0 .. taken[Opposite(e)] :
                  got[e] = [j \in 1 .. k |-> Opposite(e) \o <<j>>]
    <3>1. Opposite(e) \in Ends
      BY Constants DEF Ends, Opposite
    <3>2. 0 \in 0 .. taken[Opposite(e)] /\ got[e] = <<>>
      BY <3>1 DEF Init
    <3>3. [j \in 1 .. 0 |-> Opposite(e) \o <<j>>] = <<>>
      OBVIOUS
    <3> QED BY <3>2, <3>3
  <2> QED BY <2>1 DEF NoMixing
<1> QED BY <1>1, <1>2, <1>3, <1>4, <1>7, <1>8, <1>8a, <1>9, <1>10, <1>11 DEF IInv

-----------------------------------------------------------------------------
(* The steps of the two loops, between init and the set-up of a connection: *)
(* thread s goes from one place to another, with g in its hand, and the     *)
(* descriptors gone, all of them in the tables, are closed.                 *)

Goes(s, p, g) ==
    /\ pc[s] \notin {"insert", "await"}
    /\ pc' = [pc EXCEPT ![s] = p] /\ cur' = [cur EXCEPT ![s] = g]
    /\ p = "dispatch" => s = "net" \/ ~IsServer
    /\ p = "lost" => pc[s] \in {"read", "blocked"} /\ g = partner[s][cur[s]]
    /\ p \in {"read", "blocked"} => g # NoFd
    /\ p \in {"read", "blocked", "lost", "write"} => slot'[s] >= 2
    /\ p \in {"read", "blocked", "write"} /\ g # NoFd =>
          \/ pc[s] \in {"read", "blocked"} /\ g = cur[s] /\ p = "blocked"
          \/ \E i \in Slots \ {0} : table'[s].fd[i] = g
    /\ \A o \in Sides \ {s} : slot'[o] = slot[o]

Shrinks(gone) ==
    /\ \A f \in gone : \E o \in Sides : f \in Registered(table[o])
    /\ \A o \in Sides : \A i \in Slots :
          /\ table'[o].fd[i] \in {table[o].fd[i], NoFd}
          /\ table'[o].fd[i] \notin gone
          /\ table[o].fd[i] \notin gone => table'[o].fd[i] = table[o].fd[i]
    /\ CloseAll(gone)

LoopStep(s, gone, p, g) ==
    /\ Goes(s, p, g) /\ Shrinks(gone)
    /\ seen \subseteq seen'
    /\ UNCHANGED <<listener, backlog, req, queues, partner, inserted>>

\* What is registered, and where, in every state of the invariant.
LEMMA Facts ==
  ASSUME IInv
  PROVE  /\ \A s \in Sides : /\ Registered(table[s]) \subseteq Fds
                             /\ InUse(s) \subseteq Fds
                             /\ TableOK(table[s])
         /\ \A s \in Sides : \A i \in Slots \ {0} : LET f == table[s].fd[i] IN
               f # NoFd => /\ sock[f] \in {s} \X Conns /\ f \in inserted[s]
                           /\ f \in Registered(table[s]) /\ f # 0
         /\ \A s \in Sides : \A f \in Registered(table[s]) :
               sock[f] \in ({s} \X Conns) \cup {Misc}
         /\ \A f \in Registered(table["net"]) : sock[f] \in {"net"} \X Conns
         /\ \A s \in Sides : 0 \notin Registered(table[s])
<1>1. ASSUME NEW s \in Sides
      PROVE  /\ Registered(table[s]) \subseteq Fds /\ InUse(s) \subseteq Fds
             /\ TableOK(table[s])
  <2>1. TableOK(table[s]) /\ table[s] \in Tables
    BY DEF IInv, Types
  <2>2. Registered(table[s]) \subseteq Fds
    BY <2>1 DEF Tables, Registered
  <2>3. \A i \in DOMAIN actualfds : actualfds[i] \in Fds
    BY DEF IInv, Types
  <2>4. pc[s] = "insert" => cur[s] \in Fds
    BY DEF IInv, InHand
  <2> QED BY <2>1, <2>2, <2>3, <2>4 DEF InUse
<1>2. ASSUME NEW s \in Sides, NEW i \in Slots, table[s].fd[i] # NoFd
      PROVE  /\ i = 0 => s = "proxy" /\ sock[table[s].fd[i]] = Misc
             /\ i # 0 => /\ sock[table[s].fd[i]] \in {s} \X Conns
                         /\ table[s].fd[i] \in inserted[s]
                         /\ table[s].fd[i] # 0
             /\ table[s].fd[i] \in Registered(table[s])
  BY <1>2 DEF IInv, Sockets, Registered
<1>3. ASSUME NEW s \in Sides, NEW f \in Registered(table[s])
      PROVE  /\ sock[f] \in ({s} \X Conns) \cup {Misc}
             /\ s = "net" => sock[f] \in {"net"} \X Conns
             /\ f # 0
  <2>1. PICK i \in Slots : table[s].fd[i] = f /\ f # NoFd
    BY DEF Registered
  <2>2. i = 0 => f = listener /\ listener # 0
    BY <2>1, Constants DEF IInv, Types, Sockets
  <2> QED BY <2>1, <2>2, <1>2
<1> QED BY <1>1, <1>2, <1>3, Constants

\* An end of a connection has one descriptor.
LEMMA OneSocket ==
  ASSUME IInv, NEW f \in Fds, NEW g \in Fds, sock[f] = sock[g], sock[f] \in Ends
  PROVE  f = g
  BY DEF IInv, Sockets

\* A step of a loop leaves a thread with what its place needs in its hand.
LEMMA LoopInHand ==
  ASSUME IInv, NEW s \in Sides, NEW gone \in SUBSET Fds, NEW p \in Places,
         NEW g \in Fds \cup {NoFd}, LoopStep(s, gone, p, g)
  PROVE  InHand'
<1>1. /\ pc \in [Sides -> Places \cup {"insert", "await"}] /\ cur \in [Sides -> Fds \cup {NoFd}]
      /\ partner \in [Sides -> [Fds -> Fds]]
  BY DEF IInv, Types
<1>2. InHand
  BY DEF IInv
<1>3. p = "lost" => g \in Fds
  BY <1>1, <1>2, Constants DEF LoopStep, Goes, InHand
<1> QED BY <1>1, <1>2, <1>3, Constants DEF LoopStep, Goes, InHand, Places, IsServer

\* It only takes registered descriptors away, and those it closes.
LEMMA LoopSockets ==
  ASSUME IInv, NEW s \in Sides, NEW gone \in SUBSET Fds, NEW p \in Places,
         NEW g \in Fds \cup {NoFd}, LoopStep(s, gone, p, g)
  PROVE  /\ Sockets'
         /\ \A o \in Sides : /\ Registered(table[o])' \subseteq Registered(table[o])
                             /\ Registered(table[o]) \ gone \subseteq Registered(table[o])'
                             /\ InUse(o)' \subseteq InUse(o)
         /\ \A f \in Fds : sock'[f] # sock[f] => f \in gone /\ sock'[f] = Closed
         /\ 0 \notin gone
<1>1. \A f \in Fds : sock'[f] = IF f \in gone THEN Closed ELSE sock[f]
  BY DEF LoopStep, Shrinks, CloseAll
<1>2. ASSUME NEW o \in Sides
      PROVE  /\ Registered(table[o])' \subseteq Registered(table[o])
             /\ Registered(table[o]) \ gone \subseteq Registered(table[o])'
             /\ Registered(table[o])' \cap gone = {}
             /\ InUse(o)' \subseteq InUse(o)
  <2>1. \A i \in Slots :
          /\ table'[o].fd[i] \in {table[o].fd[i], NoFd}
          /\ table'[o].fd[i] \notin gone
          /\ table[o].fd[i] \notin gone => table'[o].fd[i] = table[o].fd[i]
    BY DEF LoopStep, Shrinks
  <2>2. /\ Registered(table[o])' \subseteq Registered(table[o])
        /\ Registered(table[o]) \ gone \subseteq Registered(table[o])'
        /\ Registered(table[o])' \cap gone = {}
    BY <2>1 DEF Registered
  <2>3. /\ pc'[o] = "insert" => pc[o] = "insert" /\ cur'[o] = cur[o]
        /\ actualfds' = actualfds /\ IsServer' = IsServer
    <3>1. /\ pc \in [Sides -> Places \cup {"insert", "await"}]
          /\ cur \in [Sides -> Fds \cup {NoFd}] /\ "insert" \notin Places
      BY DEF IInv, Types, Places
    <3> QED BY <3>1 DEF LoopStep, Goes, IsServer, queues
  <2> QED BY <2>2, <2>3 DEF InUse
<1>3. 0 \notin gone
  BY Facts DEF LoopStep, Shrinks
<1>4. sock'[0] = Misc
  BY <1>1, <1>3, Constants DEF IInv, Sockets
<1>5. \A f, h \in Fds : sock'[f] = sock'[h] /\ sock'[f] \in Ends => f = h
  BY <1>1, Constants DEF IInv, Sockets
<1>6. ASSUME NEW o \in Sides, NEW i \in Slots, table'[o].fd[i] # NoFd
      PROVE  LET f == table'[o].fd[i] IN
             IF i = 0 THEN o = "proxy" /\ f = listener' /\ sock'[f] = Misc
             ELSE sock'[f] \in {o} \X Conns /\ f \in inserted'[o]
  <2>1. /\ table'[o].fd[i] = table[o].fd[i] /\ table'[o].fd[i] \notin gone
        /\ listener' = listener /\ inserted' = inserted
    BY <1>6 DEF LoopStep, Shrinks
  <2>2. table[o].fd[i] \in Fds
    BY <1>6, <2>1, Facts DEF TableOK, Tables
  <2>3. sock'[table[o].fd[i]] = sock[table[o].fd[i]]
    BY <2>1, <2>2, <1>1
  <2> QED BY <1>6, <2>1, <2>3 DEF IInv, Sockets
<1>7. Sockets'
  <2>1. \A o \in Sides : 0 \notin inserted'[o]
    BY DEF IInv, Sockets, LoopStep
  <2> QED BY <1>4, <1>5, <1>6, <2>1 DEF Sockets
<1> QED BY <1>1, <1>2, <1>3, <1>7

\* It mentions no descriptor that was not mentioned: set-up, maps and partners
\* are kept.
LEMMA LoopKeeps ==
  ASSUME IInv, NEW s \in Sides, NEW gone \in SUBSET Fds, NEW p \in Places,
         NEW g \in Fds \cup {NoFd}, LoopStep(s, gone, p, g)
  PROVE  Pending0' /\ Known' /\ Held' /\ Routing'
<1> USE DEF queues
<1>0. /\ pc \in [Sides -> Places \cup {"insert", "await"}]
      /\ cur \in [Sides -> Fds \cup {NoFd}]
      /\ partner \in [Sides -> [Fds -> Fds]]
      /\ tunnels \in Seq(Fds \cup {NoFd}) /\ actualfds \in Seq(Fds)
      /\ "insert" \notin Places /\ "await" \notin Places
      /\ sock \in [Fds -> Ends \cup {Closed, Misc}]
  BY DEF IInv, Types, Places
<1>1. /\ Sockets'
      /\ \A o \in Sides : /\ Registered(table[o])' \subseteq Registered(table[o])
                          /\ Registered(table[o]) \ gone \subseteq Registered(table[o])'
                          /\ InUse(o)' \subseteq InUse(o)
      /\ \A f \in Fds : sock'[f] # sock[f] => f \in gone /\ sock'[f] = Closed
  BY LoopSockets
<1>2. /\ pc' = [pc EXCEPT ![s] = p] /\ cur' = [cur EXCEPT ![s] = g]
      /\ pc[s] \notin {"insert", "await"}
      /\ UNCHANGED <<listener, req, tunnels, actualfds, partner, inserted>>
      /\ \A f \in gone : \E o \in Sides : f \in Registered(table[o])
  BY DEF LoopStep, Goes, Shrinks
<1>3. Pending0'
  <2>1. ASSUME NEW f \in Fds, sock[f] \in {"net"} \X Conns,
               f \notin Registered(table["net"])
        PROVE  /\ sock'[f] \in {"net"} \X Conns
               /\ f \notin Registered(table["net"])'
    BY <2>1, <1>1, <1>2, Facts, Constants DEF Misc
  <2>2. pc'["proxy"] = "insert" =>
          /\ sock'[cur'["proxy"]] = <<"proxy", req'>>
          /\ cur'["proxy"] \notin Registered(table["proxy"])'
    <3> SUFFICES ASSUME pc'["proxy"] = "insert"
                 PROVE  /\ sock'[cur'["proxy"]] = <<"proxy", req'>>
                        /\ cur'["proxy"] \notin Registered(table["proxy"])'
      OBVIOUS
    <3>1. /\ pc["proxy"] = "insert" /\ cur'["proxy"] = cur["proxy"]
          /\ cur["proxy"] \in Fds /\ req \in Conns
      BY <1>0, <1>2, Constants DEF IInv, InHand, Types
    <3>2. /\ sock[cur["proxy"]] = <<"proxy", req>>
          /\ cur["proxy"] \notin Registered(table["proxy"])
      BY <3>1 DEF IInv, Pending0
    <3>3. cur["proxy"] \notin gone
      <4> SUFFICES ASSUME cur["proxy"] \in gone PROVE FALSE
        OBVIOUS
      <4>1. cur["proxy"] \in Registered(table["net"])
        BY <3>2, <1>2, Constants
      <4> QED BY <4>1, <3>2, Facts
    <3> QED BY <3>1, <3>2, <3>3, <1>1, <1>2, Constants
  <2>3. \A i \in DOMAIN tunnels : tunnels[i] # NoFd => tunnels[i] \in Fds
    BY <1>0
  <2>4. \A i \in DOMAIN actualfds : actualfds[i] \in Fds
    BY <1>0
  <2> QED BY <2>1, <2>2, <2>3, <2>4, <1>2 DEF IInv, Pending0
<1>4. /\ s = "net" /\ p \in {"read", "blocked"} => partner["net"][g] # 0
      /\ p \in {"read", "blocked", "write"} /\ g # NoFd =>
            /\ g \in inserted[s]
            /\ \/ g \in Registered(table[s])'
               \/ g = cur[s] /\ pc[s] \in {"read", "blocked"}
  <2> SUFFICES ASSUME p \in {"read", "blocked", "write"}, g # NoFd
               PROVE  /\ s = "net" /\ p \in {"read", "blocked"} => partner["net"][g] # 0
                      /\ g \in inserted[s]
                      /\ \/ g \in Registered(table[s])'
                         \/ g = cur[s] /\ pc[s] \in {"read", "blocked"}
    BY DEF LoopStep, Goes
  <2>1. CASE pc[s] \in {"read", "blocked"} /\ g = cur[s]
    BY <2>1 DEF IInv, Known
  <2>2. CASE \E i \in Slots \ {0} : table'[s].fd[i] = g
    <3>1. PICK i \in Slots \ {0} : table'[s].fd[i] = g
      BY <2>2
    <3>2. g \in Registered(table[s])'
      BY <3>1 DEF Registered
    <3>3. table[s].fd[i] = g
      BY <3>1 DEF LoopStep, Shrinks
    <3>4. g \in inserted[s] /\ g \in Registered(table[s])
      BY <3>1, <3>3, Facts
    <3> QED BY <3>2, <3>4 DEF IInv, Known, InUse
  <2> QED BY <2>1, <2>2 DEF LoopStep, Goes
<1>5. Known'
  <2>1. \A f \in InUse("net")' : partner'["net"][f] # 0
    BY <1>1, <1>2, Constants DEF IInv, Known
  <2>2. pc'["net"] \in {"read", "blocked"} => partner'["net"][cur'["net"]] # 0
    BY <1>0, <1>2, <1>4, Constants DEF IInv, Known, InHand
  <2>3. p = "lost" /\ s = "net" => g # 0 /\ (IsServer => g \in inserted["proxy"])
    BY <1>0 DEF LoopStep, Goes, IInv, Known, InHand
  <2>4. pc'["net"] = "lost" =>
           cur'["net"] # 0 /\ (IsServer' => cur'["net"] \in inserted'["proxy"])
    BY <1>0, <1>2, <2>3, Constants DEF IInv, Known, IsServer
  <2>5. IsServer' => /\ \A f \in Fds : partner'["net"][f] \in {0} \cup inserted'["proxy"]
                     /\ pc'["proxy"] = "await" => cur'["proxy"] \in inserted'["proxy"]
    BY <1>0, <1>2, Constants DEF IInv, Known, IsServer
  <2>6. \A o \in Sides : pc'[o] \in {"read", "blocked", "write"} /\ cur'[o] # NoFd
                            => cur'[o] \in inserted'[o]
    BY <1>0, <1>2, <1>4, Constants DEF IInv, Known
  <2> QED BY <2>1, <2>2, <2>4, <2>5, <2>6 DEF Known
<1>6. Held'
  <2> SUFFICES ASSUME "stale" \notin seen', NEW o \in Sides,
                      pc'[o] \in {"read", "blocked", "write"}, cur'[o] # NoFd
               PROVE  \/ sock'[cur'[o]] = Closed
                      \/ cur'[o] \in Registered(table[o])'
    BY DEF Held
  <2>1. cur'[o] \in Registered(table[o])' \/ (cur'[o] = cur[o] /\ pc[o] \in {"read", "blocked", "write"})
    BY <1>0, <1>2, <1>4
  <2>2. CASE cur'[o] = cur[o] /\ pc[o] \in {"read", "blocked", "write"}
    <3>1. sock[cur[o]] = Closed \/ cur[o] \in Registered(table[o])
      BY <2>2 DEF IInv, Held, LoopStep
    <3>2. cur[o] \in Fds
      BY <1>0, <2>2
    <3>3. cur[o] \in gone => sock'[cur[o]] = Closed
      BY <3>2 DEF LoopStep, Shrinks, CloseAll
    <3> QED BY <2>2, <3>1, <3>2, <3>3, <1>1
  <2> QED BY <2>1, <2>2
<1>7. Routing'
  <2> SUFFICES ASSUME "stale" \notin seen', NEW o \in Sides, NEW f \in Routed(o)',
                      sock'[f] \in Ends
               PROVE  LET there == sock'[partner'[o][f]] IN
                      /\ there \in Ends => there = Opposite(sock'[f])
                      /\ (\E h \in Fds : sock'[h] = Opposite(sock'[f]))
                            => there = Opposite(sock'[f])
    BY DEF Routing, IsOpen
  <2>1. f \in Routed(o) /\ f \in Fds
    <3>1. f \in InUse(o) /\ f \in Fds
      BY <1>1, Facts DEF Routed
    <3>2. pc'["proxy"] = "await" <=> pc["proxy"] = "await"
      BY <1>0, <1>2
    <3>3. pc["proxy"] = "await" => cur'["proxy"] = cur["proxy"]
      BY <1>0, <1>2
    <3> QED BY <3>1, <3>2, <3>3 DEF Routed
  <2>2. sock'[f] = sock[f]
    BY <2>1, <1>1, Constants
  <2>3. /\ sock[partner[o][f]] \in Ends => sock[partner[o][f]] = Opposite(sock[f])
        /\ IsOpen(Opposite(sock[f])) => sock[partner[o][f]] = Opposite(sock[f])
    BY <2>1, <2>2 DEF IInv, Routing, LoopStep
  <2>4. partner[o][f] \in Fds /\ partner' = partner
    BY <1>0, <1>2, <2>1
  <2>5. sock'[partner[o][f]] \in {Closed, sock[partner[o][f]]}
    BY <2>4, <1>1
  <2>6. ASSUME NEW h \in Fds, sock'[h] = Opposite(sock[f])
        PROVE  sock'[partner[o][f]] = Opposite(sock[f])
    <3>1. Opposite(sock[f]) \in Ends
      BY <2>2, Constants DEF Opposite, Ends
    <3>2. sock[h] = sock'[h]
      BY <2>6, <3>1, <1>1, Constants
    <3>3. sock[partner[o][f]] = Opposite(sock[f])
      BY <3>2, <2>3, <2>6 DEF IsOpen
    <3>4. partner[o][f] = h
      BY <3>1, <3>2, <3>3, <2>6, <2>4 DEF IInv, Sockets
    <3> QED BY <3>4, <2>6
  <2> QED BY <2>2, <2>3, <2>4, <2>5, <2>6, Constants DEF IsOpen
<1> QED BY <1>3, <1>5, <1>6, <1>7

\* Thread s moves bytes only from and to sockets in its table.
Moves(s) ==
    /\ \A e \in Ends : peer'[e] = "none" <=> peer[e] = "none"
    /\ \A e \in Ends : taken'[e] # taken[e] \/ got'[e] # got[e] =>
          /\ IsOpen(e)
          /\ "stale" \notin seen =>
                e[1] = s /\ \E f \in Registered(table[s]) : sock[f] = e

\* No connection comes into being in the loops.
LEMMA LoopBirths ==
  ASSUME IInv, NEW s \in Sides, NEW gone \in SUBSET Fds, NEW p \in Places,
         NEW g \in Fds \cup {NoFd}, LoopStep(s, gone, p, g), Moves(s)
  PROVE  Births'
<1> USE DEF queues
<1>0. /\ pc \in [Sides -> Places \cup {"insert", "await"}]
      /\ cur \in [Sides -> Fds \cup {NoFd}]
      /\ tunnels \in Seq(Fds \cup {NoFd})
      /\ req \in Conns \cup {NoConn}
      /\ "insert" \notin Places /\ "await" \notin Places
      /\ sock \in [Fds -> Ends \cup {Closed, Misc}]
  BY DEF IInv, Types, Places
<1>1. \A f \in Fds : sock'[f] \in {sock[f], Closed}
  BY LoopSockets
<1>2. /\ UNCHANGED <<listener, req, tunnels, backlog>>
      /\ "stale" \notin seen' => "stale" \notin seen
      /\ IsServer' = IsServer
      /\ pc'["proxy"] = "insert" => pc["proxy"] = "insert"
      /\ pc'["proxy"] = "await" <=> pc["proxy"] = "await"
      /\ pc["proxy"] \in {"insert", "await"} => cur'["proxy"] = cur["proxy"]
  BY <1>0 DEF LoopStep, Goes, IsServer
<1>3. \A c \in Conns : <<"proxy", c>> \in Ends /\ <<"net", c>> \in Ends
  BY DEF Ends, Sides
<1>4. \A e \in Ends : Unused(e) => Unused(e)'
  BY <1>1, Constants DEF Unused, Silent, Moves, IsOpen
<1>5. ASSUME "stale" \notin seen, NEW e \in Ends, Silent(e),
             e[1] = s => \A f \in Registered(table[s]) : sock[f] # e
      PROVE  Silent(e)'
  BY <1>5 DEF Moves, Silent
<1>6. ASSUME IsServer PROVE ServerBirths'
  <2>1. ServerBirths
    BY <1>6 DEF IInv, Births
  <2>2. ASSUME NEW c \in Conns, c \in backlog' \/ peer'[<<"proxy", c>>] = "none"
        PROVE  Unused(<<"proxy", c>>)' /\ Unused(<<"net", c>>)' /\ req' # c
    BY <2>1, <2>2, <1>2, <1>3, <1>4 DEF ServerBirths, Moves
  <2>3. ASSUME pc'["proxy"] \in {"insert", "await"}
        PROVE  /\ req' \notin backlog' /\ peer'[<<"proxy", req'>>] # "none"
               /\ \A f \in Fds : sock'[f] = <<"net", req'>> => tunnels' = <<f>>
               /\ tunnels' # <<>> /\ tunnels'[1] # NoFd =>
                     sock'[tunnels'[1]] = <<"net", req'>>
               /\ "stale" \notin seen' =>
                     /\ \A f \in Fds :
                           sock'[f] = <<"proxy", req'>> => f = cur'["proxy"]
                     /\ sock'[cur'["proxy"]] \in {Closed, <<"proxy", req'>>}
                     /\ \A o \in Sides : Silent(<<o, req>>)'
    <3>1. pc["proxy"] \in {"insert", "await"} /\ cur'["proxy"] = cur["proxy"]
      BY <2>3, <1>2
    <3>2. req \in Conns /\ cur["proxy"] \in Fds
      BY <3>1, <1>0, Constants DEF IInv, InHand
    <3>3. /\ req \notin backlog /\ peer[<<"proxy", req>>] # "none"
          /\ \A f \in Fds : sock[f] = <<"net", req>> => tunnels = <<f>>
          /\ tunnels # <<>> /\ tunnels[1] # NoFd => sock[tunnels[1]] = <<"net", req>>
      BY <3>1, <2>1 DEF ServerBirths
    <3>4. /\ req' \notin backlog' /\ peer'[<<"proxy", req'>>] # "none"
          /\ \A o \in Sides, f \in Fds : sock'[f] = <<o, req>> => sock[f] = <<o, req>>
          /\ \A f \in Fds : sock'[f] = <<"net", req'>> => tunnels' = <<f>>
      <4>1. \A o \in Sides : <<o, req>> \in Ends /\ Closed # <<o, req>>
        BY <3>2, Constants DEF Ends
      <4> QED BY <4>1, <3>2, <3>3, <1>1, <1>2, Constants DEF Moves
    <3>5. ASSUME tunnels # <<>>, tunnels[1] # NoFd
          PROVE  sock'[tunnels[1]] = <<"net", req>>
      <4>1. tunnels[1] \in Fds /\ 1 \in DOMAIN tunnels
        BY <3>5, <1>0
      <4>2. Pending0'
        BY LoopKeeps
      <4>3. sock'[tunnels[1]] \in {"net"} \X Conns
        BY <4>1, <4>2, <3>5, <1>2 DEF Pending0
      <4>4. sock'[tunnels[1]] # Closed
        BY <4>3, EndsOfSide, Constants
      <4> QED BY <4>1, <4>4, <3>3, <3>5, <1>1
    <3>6. ASSUME "stale" \notin seen'
          PROVE  /\ \A f \in Fds :
                        sock'[f] = <<"proxy", req'>> => f = cur'["proxy"]
                 /\ sock'[cur'["proxy"]] \in {Closed, <<"proxy", req'>>}
                 /\ \A o \in Sides : Silent(<<o, req>>)'
      <4>1. /\ \A f \in Fds : sock[f] = <<"proxy", req>> => f = cur["proxy"]
            /\ sock[cur["proxy"]] \in {Closed, <<"proxy", req>>}
            /\ \A o \in Sides : Silent(<<o, req>>)
            /\ "stale" \notin seen
        BY <3>1, <3>6, <1>2, <2>1 DEF ServerBirths
      <4>2. s = "net"
        BY <3>1, Constants DEF LoopStep, Goes
      <4>3. \A f \in Registered(table["net"]) : sock[f] # <<"net", req>>
        <5> SUFFICES ASSUME NEW f \in Registered(table["net"]), sock[f] = <<"net", req>>
                     PROVE  FALSE
          OBVIOUS
        <5>1. "net" \in Sides /\ NoFd \notin Fds
          BY Constants
        <5>2. f \in Fds /\ f # NoFd
          BY <5>1, Facts
        <5>3. tunnels = <<f>>
          BY <5>2, <3>3
        <5>4. 1 \in DOMAIN tunnels /\ tunnels[1] = f
          BY <5>3
        <5>5. Pending0
          BY DEF IInv
        <5> QED BY <5>2, <5>4, <5>5 DEF Pending0
      <4>4. ASSUME NEW o \in Sides PROVE Silent(<<o, req>>)'
        <5>1. <<o, req>> \in Ends /\ <<o, req>>[1] = o
          BY <3>2 DEF Ends
        <5>2. o = s => \A f \in Registered(table[s]) : sock[f] # <<o, req>>
          BY <4>2, <4>3
        <5>3. Silent(<<o, req>>)
          BY <4>1
        <5> QED BY <5>1, <5>2, <5>3, <4>1, <1>2, <1>5 DEF Silent
      <4> QED BY <4>1, <4>4, <3>1, <3>2, <3>4, <1>1, <1>2, Constants
    <3> QED BY <3>4, <3>5, <3>6, <1>2
  <2>4. \A c \in backlog' : peer'[<<"proxy", c>>] # "none"
    <3>1. \A c \in backlog : c \in Conns /\ peer[<<"proxy", c>>] # "none"
      BY <2>1 DEF ServerBirths, IInv, Types
    <3> QED BY <3>1, <1>2, <1>3 DEF Moves
  <2> QED BY <2>1, <2>2, <2>3, <2>4, <1>2 DEF ServerBirths
<1>7. ASSUME ~IsServer PROVE ClientBirths'
  <2>1. ClientBirths
    BY <1>7 DEF IInv, Births
  <2>2. ASSUME NEW c \in Conns
        PROVE  /\ peer'[<<"net", c>>] = "none" =>
                     /\ Unused(<<"proxy", c>>)' /\ Unused(<<"net", c>>)'
                     /\ peer'[<<"proxy", c>>] = "none"
               /\ peer'[<<"proxy", c>>] = "none" => Unused(<<"proxy", c>>)'
    BY <2>1, <1>3, <1>4 DEF ClientBirths, Moves
  <2>3. ASSUME NEW c \in Conns, NEW i \in DOMAIN tunnels,
               sock'[tunnels[i]] = <<"net", c>>
        PROVE  /\ peer'[<<"proxy", c>>] = "none" /\ Unused(<<"proxy", c>>)'
               /\ "stale" \notin seen' => Silent(<<"net", c>>)'
    <3>1. tunnels[i] \in Fds /\ sock[tunnels[i]] = <<"net", c>>
      <4>1. tunnels[i] \in Fds
        BY <2>1, <1>0 DEF ClientBirths
      <4>2. <<"net", c>> # Closed
        BY Constants, EndOf
      <4> QED BY <4>1, <4>2, <2>3, <1>1
    <3>2. tunnels[i] \notin Registered(table["net"])
      BY <3>1, Constants DEF IInv, Pending0
    <3>3. /\ peer[<<"proxy", c>>] = "none" /\ Unused(<<"proxy", c>>)
          /\ "stale" \notin seen => Silent(<<"net", c>>)
      BY <2>1, <3>1 DEF ClientBirths
    <3>4. \A f \in Registered(table["net"]) : sock[f] # <<"net", c>>
      <4> SUFFICES ASSUME NEW f \in Registered(table["net"]), sock[f] = <<"net", c>>
                   PROVE  FALSE
        OBVIOUS
      <4>1. f \in Fds
        BY Facts, Constants
      <4>2. f = tunnels[i]
        BY <4>1, <3>1, <1>3, OneSocket
      <4> QED BY <4>2, <3>2
    <3>5. "stale" \notin seen' => Silent(<<"net", c>>)'
      BY <3>3, <3>4, <1>2, <1>3, <1>5
    <3> QED BY <3>3, <3>5, <1>3, <1>4 DEF Moves
  <2> QED BY <2>1, <2>2, <2>3, <1>2 DEF ClientBirths
<1> QED BY <1>2, <1>6, <1>7 DEF Births

\* What is to be sent to e depends on what e got and its peer gave only.
LEMMA ContinuesFrame ==
  ASSUME NEW b, NEW e, Continues(b, e), got'[e] = got[e],
         taken'[Opposite(e)] = taken[Opposite(e)],
         peer'[e] \in {"open", "fin"} => peer[e] \in {"open", "fin"}
  PROVE  Continues(b, e)'
  BY DEF Continues

\* Nothing is transferred, and no socket comes into being.
LEMMA QuietStreams ==
  ASSUME IInv, UNCHANGED <<buffer, got, taken>>,
         "stale" \in seen => "stale" \in seen',
         \A f \in Fds : sock'[f] \in Ends => sock'[f] = sock[f],
         \A e \in Ends : peer'[e] \in {"open", "fin"} /\ IsOpen(e)
                            => peer[e] \in {"open", "fin"}
  PROVE  Streams' /\ NoMixing'
<1>1. ASSUME NEW f \in Fds, sock'[f] \in Ends, "stale" \notin seen'
      PROVE  Continues(buffer[sock[f][1]][f], sock[f])'
  <2>1. Continues(buffer[sock[f][1]][f], sock[f]) /\ IsOpen(sock[f]) /\ sock[f] \in Ends
    BY <1>1 DEF IInv, Streams, IsOpen
  <2>2. sock'[f] = sock[f]
    BY <1>1
  <2>3. peer'[sock[f]] \in {"open", "fin"} => peer[sock[f]] \in {"open", "fin"}
    BY <2>1
  <2> QED BY <2>1, <2>2, <2>3, ContinuesFrame
<1>2. Streams'
  BY <1>1 DEF IInv, Streams
<1>3. NoMixing'
  BY DEF IInv, NoMixing, Opposite, Other
<1> QED BY <1>2, <1>3

\* A step that leaves tables and sockets alone takes no descriptor away.
LEMMA NothingGone ==
  ASSUME IInv, UNCHANGED <<table, sock>>
  PROVE  Shrinks({}) /\ \A o \in Sides : TableOK(table'[o])
<1>1. sock = [f \in Fds |-> sock[f]]
  BY DEF IInv, Types
<1> QED BY <1>1, Facts DEF Shrinks, CloseAll

\* dispatcher->remove takes away the descriptor it found, and closes that.
LEMMA VacateShrinks ==
  ASSUME IInv, NEW o \in Sides, NEW f \in Fds,
         table' = [table EXCEPT ![o] = Vacate(@, f)],
         CloseAll({Victim(table[o], f)})
  PROVE  /\ Shrinks({Victim(table[o], f)} \cap Fds)
         /\ \A q \in Sides : TableOK(table'[q])
<1> DEFINE v == Victim(table[o], f)
<1>1. /\ table \in [Sides -> Tables] /\ TableOK(table[o])
      /\ \A q \in Sides : q # o => table'[q] = table[q]
      /\ table'[o] = Vacate(table[o], f)
  BY DEF IInv, Types
<1>2. /\ TableOK(Vacate(table[o], f))
      /\ v \in Registered(table[o]) \cup {NoFd}
      /\ \A i \in Slots : Vacate(table[o], f).fd[i] =
            IF table[o].fd[i] = v THEN NoFd ELSE table[o].fd[i]
  BY <1>1, VacateOK
<1>3. CloseAll({v} \cap Fds)
  BY DEF CloseAll
<1>4. ASSUME NEW q \in Sides, NEW i \in Slots
      PROVE  /\ table'[q].fd[i] \in {table[q].fd[i], NoFd}
             /\ table'[q].fd[i] \notin {v} \cap Fds
             /\ table[q].fd[i] \notin {v} \cap Fds => table'[q].fd[i] = table[q].fd[i]
  <2>1. CASE q = o
    <3>1. table'[q].fd[i] = IF table[o].fd[i] = v THEN NoFd ELSE table[o].fd[i]
      BY <2>1, <1>1, <1>2
    <3>2. v \notin Fds => v = NoFd
      BY <1>2, Facts
    <3> QED BY <3>1, <3>2, <2>1, Constants
  <2>2. CASE q # o
    <3>1. table'[q].fd[i] = table[q].fd[i]
      BY <2>2, <1>1
    <3>2. ASSUME table[q].fd[i] = v, v \in Fds PROVE FALSE
      <4>1. v # NoFd
        BY <3>2, Constants
      <4>2. v \in Registered(table[q]) /\ v \in Registered(table[o]) /\ v # NoFd
        BY <4>1, <3>2, <1>2 DEF Registered
      <4>3. sock[v] = Misc
        BY <4>2, <2>2, Facts
      <4> QED BY <4>2, <4>3, <2>2, Facts, Constants, EndsOfSide
    <3> QED BY <3>1, <3>2
  <2> QED BY <2>1, <2>2
<1> QED BY <1>1, <1>2, <1>3, <1>4, Facts, Constants DEF Shrinks

\* After a read the thread goes on to the next slot, or back to poll.
LEMMA AfterReadGoes ==
  ASSUME IInv, NEW s \in Sides, pc[s] \in {"read", "blocked", "lost"},
         AfterRead(s), table'[s] \in Tables, UNCHANGED slot
  PROVE  \E p \in Places, g \in Fds \cup {NoFd} : Goes(s, p, g)
<1>0. slot[s] \in 0 .. MaxClient /\ slot[s] >= 2
  BY DEF IInv, Types, InHand
<1>1. slot[s] >= 2 /\ slot[s] - 1 \in Slots \ {0}
  BY <1>0, MaxClientAssumption DEF Slots
<1>2. table'[s].fd[slot[s] - 1] \in Fds \cup {NoFd}
  BY <1>1 DEF Tables
<1>3. CASE "out" \in rev[s][slot[s] - 1]
  <2>1. Goes(s, "write", table'[s].fd[slot[s] - 1])
    BY <1>1, <1>2, <1>3 DEF AfterRead, Goto, Goes
  <2> QED BY <1>2, <2>1 DEF Places
<1>4. CASE "out" \notin rev[s][slot[s] - 1]
  <2>1. Goes(s, "scan", NoFd)
    BY <1>1, <1>4 DEF AfterRead, Goto, Goes
  <2> QED BY <2>1 DEF Places
<1> QED BY <1>3, <1>4

\* A step of a loop that moves no bytes.
QuietStep(s, gone, p, g) ==
    /\ LoopStep(s, gone, p, g)
    /\ UNCHANGED <<got, taken>>
    /\ \A e \in Ends : /\ peer'[e] = "none" <=> peer[e] = "none"
                       /\ peer'[e] \in {"open", "fin"} => peer[e] \in {"open", "fin"}

\* What is left to show of a step of a loop: types and what is transferred.
LEMMA LoopDone ==
  ASSUME IInv, NEW s \in Sides, NEW gone \in SUBSET Fds, NEW p \in Places,
         NEW g \in Fds \cup {NoFd}, LoopStep(s, gone, p, g), Moves(s),
         Types', Streams', NoMixing'
  PROVE  IInv'
  BY LoopInHand, LoopSockets, LoopKeeps, LoopBirths DEF IInv

\* And when nothing is transferred: types only.
LEMMA QuietDone ==
  ASSUME IInv, NEW s \in Sides, NEW gone \in SUBSET Fds, NEW p \in Places,
         NEW g \in Fds \cup {NoFd}, QuietStep(s, gone, p, g), UNCHANGED buffer,
         Types'
  PROVE  IInv'
<1>1. Moves(s) /\ LoopStep(s, gone, p, g)
  BY DEF QuietStep, Moves
<1>2. \A f \in Fds : sock'[f] \in Ends => sock'[f] = sock[f]
  <2>1. \A f \in Fds : sock'[f] # sock[f] => f \in gone /\ sock'[f] = Closed
    BY <1>1, LoopSockets
  <2> QED BY <2>1, Constants
<1>3. Streams' /\ NoMixing'
  BY <1>2, QuietStreams DEF QuietStep, LoopStep
<1> QED BY <1>1, <1>3, LoopDone

\* The types of what a step of a loop changes.
LEMMA LoopTypes ==
  ASSUME IInv, NEW s \in Sides, NEW gone \in SUBSET Fds, NEW p \in Places,
         NEW g \in Fds \cup {NoFd}, LoopStep(s, gone, p, g)
  PROVE  /\ listener' \in Listeners
         /\ sock' \in [Fds -> Ends \cup {Closed, Misc}]
         /\ backlog' \subseteq Conns
         /\ pc' \in [Sides -> Places \cup {"insert", "await"}]
         /\ cur' \in [Sides -> Fds \cup {NoFd}]
         /\ req' \in Conns \cup {NoConn}
         /\ tunnels' \in Seq(Fds \cup {NoFd}) /\ actualfds' \in Seq(Fds)
         /\ partner' \in [Sides -> [Fds -> Fds]]
         /\ inserted' \in [Sides -> SUBSET Fds]
  BY DEF IInv, Types, LoopStep, Goes, Shrinks, CloseAll, queues

\* poll returns, and what it says is remembered.
LEMMA PollStep ==
  ASSUME IInv, NEW s \in Sides, Poll(s), UNCHANGED listener
  PROVE  IInv'
<1> USE DEF kernel, maps, queues
<1>1. PICK p \in {"scan", "dispatch"} :
          pc' = [pc EXCEPT ![s] = p] /\ (p = "dispatch" => s = "net" \/ ~IsServer)
  BY DEF Poll, Goto, Sides
<1>2. p \in Places /\ cur[s] \in Fds \cup {NoFd}
  BY DEF Places, IInv, Types
<1>3. QuietStep(s, {}, p, cur[s])
  <2>1. cur = [cur EXCEPT ![s] = cur[s]]
    BY DEF IInv, Types
  <2> QED BY <1>1, <2>1, NothingGone DEF Poll, QuietStep, LoopStep, Goes
<1>4. rev' \in [Sides -> [Slots -> SUBSET {"in", "out"}]]
  <2>1. \A i \in Slots : Readiness(s, i) \in SUBSET {"in", "out"}
    BY DEF Readiness
  <2>2. rev \in [Sides -> [Slots -> SUBSET {"in", "out"}]]
    BY DEF IInv, Types
  <2> QED BY <2>1, <2>2 DEF Poll
<1>5. Types'
  BY <1>2, <1>3, <1>4, LoopTypes DEF IInv, Types, Poll, QuietStep
<1> QED BY <1>2, <1>3, <1>5, QuietDone DEF Poll

\* The next slot: nothing to do, a read, or a write.
LEMMA ScanStep ==
  ASSUME IInv, NEW s \in Sides, Scan(s), UNCHANGED listener
  PROVE  IInv'
<1> USE DEF kernel, maps, queues
<1>1. \E p \in Places, g \in Fds \cup {NoFd} : QuietStep(s, {}, p, g)
  <2>1. cur = [cur EXCEPT ![s] = cur[s]] /\ cur[s] \in Fds \cup {NoFd}
    BY DEF IInv, Types
  <2>2. slot \in [Sides -> 0 .. MaxClient]
    BY DEF IInv, Types
  <2>3. CASE \E i \in Slots \ {0} :
                /\ NextWanted(s, i)
                /\ slot' = [slot EXCEPT ![s] = i + 1]
                /\ cur' = [cur EXCEPT ![s] = table[s].fd[i]]
                /\ Goto(s, IF "in" \in rev[s][i] THEN "read" ELSE "write")
    <3>1. PICK i \in Slots \ {0} :
                /\ NextWanted(s, i)
                /\ slot' = [slot EXCEPT ![s] = i + 1]
                /\ cur' = [cur EXCEPT ![s] = table[s].fd[i]]
                /\ Goto(s, IF "in" \in rev[s][i] THEN "read" ELSE "write")
      BY <2>3
    <3>2. table[s].fd[i] \in Fds /\ i + 1 >= 2
      BY <3>1, Facts, SlotsAndFds DEF NextWanted, Wanted, TableOK, Tables
    <3>3. PICK p \in {"read", "write"} : pc' = [pc EXCEPT ![s] = p]
      BY <3>1 DEF Goto
    <3>4. QuietStep(s, {}, p, table[s].fd[i])
      BY <2>2, <3>1, <3>2, <3>3, NothingGone, Constants
      DEF Scan, QuietStep, LoopStep, Goes
    <3> QED BY <3>2, <3>3, <3>4 DEF Places
  <2>4. CASE slot' = [slot EXCEPT ![s] = 0] /\ Goto(s, "poll") /\ UNCHANGED cur
    <3>1. QuietStep(s, {}, "poll", cur[s])
      BY <2>1, <2>2, <2>4, NothingGone
      DEF Scan, QuietStep, LoopStep, Goes, Goto
    <3> QED BY <3>1, <2>1 DEF Places
  <2> QED BY <2>3, <2>4 DEF Scan
<1>2. slot' \in [Sides -> 0 .. MaxClient]
  <2>1. \A i \in Slots : i + 1 \in 0 .. MaxClient
    BY MaxClientAssumption DEF Slots
  <2>2. slot \in [Sides -> 0 .. MaxClient] /\ 0 \in 0 .. MaxClient
    BY MaxClientAssumption DEF IInv, Types
  <2>3. CASE slot' = [slot EXCEPT ![s] = 0]
    BY <2>2, <2>3
  <2>4. CASE \E i \in Slots : slot' = [slot EXCEPT ![s] = i + 1]
    BY <2>1, <2>2, <2>4
  <2> QED BY <2>3, <2>4 DEF Scan
<1>3. Types'
  BY <1>1, <1>2, LoopTypes DEF IInv, Types, Scan, QuietStep
<1> QED BY <1>1, <1>3, QuietDone DEF Scan

\* A read of a silent socket waits, with the lock.
LEMMA ReadBlocksStep ==
  ASSUME IInv, NEW s \in Sides, ReadBlocks(s), UNCHANGED listener
  PROVE  IInv'
<1> USE DEF kernel, maps, queues
<1>1. /\ cur = [cur EXCEPT ![s] = cur[s]] /\ cur[s] \in Fds /\ slot[s] >= 2
      /\ "blocked" \in Places /\ NoFd \notin Fds
  BY Constants DEF IInv, Types, InHand, ReadBlocks, Places
<1>2. QuietStep(s, {}, "blocked", cur[s])
  BY <1>1, NothingGone DEF ReadBlocks, QuietStep, LoopStep, Goes, Goto
<1>3. Types'
  BY <1>1, <1>2, LoopTypes DEF IInv, Types, ReadBlocks, QuietStep
<1> QED BY <1>1, <1>2, <1>3, QuietDone DEF ReadBlocks

\* The net thread does nothing at the end of a stream.
LEMMA IgnoreEofStep ==
  ASSUME IInv, IgnoreEof, UNCHANGED listener
  PROVE  IInv'
<1> USE DEF kernel, maps, queues
<1>1. PICK p \in Places, g \in Fds \cup {NoFd} : Goes("net", p, g)
  BY AfterReadGoes, Constants DEF IgnoreEof, Reading, IInv, Types
<1>2. QuietStep("net", {}, p, g)
  BY <1>1, NothingGone DEF IgnoreEof, QuietStep, LoopStep
<1>3. Types'
  BY <1>2, LoopTypes, Constants DEF IInv, Types, IgnoreEof, QuietStep
<1> QED BY <1>2, <1>3, QuietDone, Constants DEF IgnoreEof

\* After a write the thread goes on to the next slot.
LEMMA AfterWriteGoes ==
  ASSUME IInv, NEW s \in Sides, pc[s] = "write", AfterWrite(s), UNCHANGED slot
  PROVE  Goes(s, "scan", NoFd) /\ "scan" \in Places
  BY DEF AfterWrite, Goes, Goto, Places

\* A socket that is writable and has nothing to be written.
LEMMA NothingToWriteStep ==
  ASSUME IInv, NEW s \in Sides, NothingToWrite(s), UNCHANGED listener
  PROVE  IInv'
<1> USE DEF kernel, maps, queues
<1>1. QuietStep(s, {}, "scan", NoFd) /\ "scan" \in Places
  BY NothingGone, AfterWriteGoes DEF NothingToWrite, QuietStep, LoopStep
<1>2. Types'
  BY <1>1, LoopTypes DEF IInv, Types, NothingToWrite, QuietStep
<1> QED BY <1>1, <1>2, QuietDone DEF NothingToWrite

\* A chunk is not empty and numbered.
LEMMA ChunkInts ==
  ASSUME NEW c \in Chunk
  PROVE  /\ c \in Seq(Units) /\ Len(c) \in Nat \ {0} /\ DOMAIN c = 1 .. Len(c)
         /\ Start(c) \in Nat /\ Stop(c) \in Nat
<1>1. c \in Seq(Units) /\ Len(c) \in Nat \ {0} /\ DOMAIN c = 1 .. Len(c)
  BY DEF Chunk
<1>2. \A u \in Units : u[3] \in Nat
  BY DEF Units, Junk
<1> QED BY <1>1, <1>2 DEF Start, Stop

\* What a read appends continues what is in the buffer.
LEMMA ContinuesRead ==
  ASSUME NEW b \in Buffers, NEW e, NEW d, d = Opposite(e), Continues(b, e),
         b.chunks = <<>> => b.offset = 0,
         taken[d] \in Nat, NEW n \in Nat \ {0}, NEW data,
         data = [k \in 1 .. n |-> <<d[1], d[2], taken[d] + k>>],
         taken'[d] = taken[d] + n, got'[e] = got[e], peer'[e] = peer[e]
  PROVE  Continues([b EXCEPT !.chunks = Append(@, data)], e)'
<1> DEFINE q == b.chunks
           r == Append(q, data)
<1>1. /\ Len(q) \in Nat /\ DOMAIN q = 1 .. Len(q) /\ q \in Seq(Chunk)
      /\ Len(r) = Len(q) + 1 /\ DOMAIN r = 1 .. Len(q) + 1
      /\ \A i \in 1 .. Len(q) : r[i] = q[i]
      /\ r[Len(q) + 1] = data
  BY DEF Buffers
<1>1a. q = <<>> => Len(q) = 0
  OBVIOUS
<1>2. /\ DOMAIN data = 1 .. n /\ Len(data) = n
      /\ Start(data) = taken[d] + 1 /\ Stop(data) = taken[d] + n
      /\ Run(data, d)
  <2>1. DOMAIN data = 1 .. n /\ Len(data) = n /\ 1 \in 1 .. n /\ n \in 1 .. n
    OBVIOUS
  <2>2. \A k \in 1 .. n : /\ data[k] = <<d[1], d[2], taken[d] + k>>
                          /\ data[k][3] = taken[d] + k
    OBVIOUS
  <2>3. Start(data) = taken[d] + 1 /\ Stop(data) = taken[d] + n
    BY <2>1, <2>2 DEF Start, Stop
  <2>4. \A j \in 1 .. n : taken[d] + j = Start(data) + j - 1
    BY <2>3
  <2> QED BY <2>1, <2>2, <2>3, <2>4 DEF Run
<1>2a. \A i \in 1 .. Len(q) : /\ Start(q[i]) \in Nat /\ Stop(q[i]) \in Nat
                              /\ Len(q[i]) \in Nat \ {0}
  <2>1. \A i \in 1 .. Len(q) : q[i] \in Chunk
    BY <1>1
  <2> QED BY <2>1, ChunkInts
<1>3. \A i \in DOMAIN r : Run(r[i], d)
  <2>1. \A i \in 1 .. Len(q) : Run(q[i], d)
    BY <1>1 DEF Continues
  <2>2. ASSUME NEW i \in DOMAIN r PROVE i \in 1 .. Len(q) \/ i = Len(q) + 1
    BY <1>1
  <2> QED BY <1>1, <1>2, <2>1, <2>2
<1>4. \A i \in 1 .. Len(r) - 1 : Start(r[i + 1]) = Stop(r[i]) + 1
  <2>1. \A i \in 1 .. Len(q) - 1 : Start(q[i + 1]) = Stop(q[i]) + 1
    BY DEF Continues
  <2>2. q # <<>> => Stop(q[Len(q)]) = taken[d]
    BY DEF Continues
  <2>3. ASSUME NEW i \in 1 .. Len(r) - 1 PROVE Start(r[i + 1]) = Stop(r[i]) + 1
    <3>1. CASE i = Len(q)
      <4>1. q # <<>>
        BY <1>1, <3>1
      <4> QED BY <1>1, <1>2, <2>2, <3>1, <4>1
    <3>2. CASE i # Len(q)
      <4>1. i \in 1 .. Len(q) - 1 /\ i \in 1 .. Len(q) /\ i + 1 \in 1 .. Len(q)
        BY <1>1, <3>2
      <4> QED BY <1>1, <2>1, <4>1
    <3> QED BY <3>1, <3>2
  <2> QED BY <2>3
<1>5. /\ Stop(r[Len(r)]) = taken'[d]
      /\ \A i \in DOMAIN r : Stop(r[i]) <= taken'[d]
  <2>1. \A i \in 1 .. Len(q) : Stop(q[i]) <= taken[d]
    <3>1. q # <<>> => \A i \in DOMAIN q : Stop(q[i]) <= taken[d]
      BY DEF Continues
    <3>2. ASSUME NEW i \in 1 .. Len(q) PROVE q # <<>>
      BY <1>1, <1>1a, <3>2
    <3>3. ASSUME NEW i \in 1 .. Len(q) PROVE i \in DOMAIN q
      BY <1>1, <3>3
    <3> QED BY <3>1, <3>2, <3>3
  <2>2. ASSUME NEW i \in DOMAIN r PROVE Stop(r[i]) <= taken'[d]
    <3>1. CASE i = Len(q) + 1
      BY <1>1, <1>2, <3>1
    <3>2. CASE i \in 1 .. Len(q)
      <4>1. Stop(q[i]) \in Nat /\ Stop(q[i]) <= taken[d] /\ r[i] = q[i]
        BY <1>1, <1>2a, <2>1, <3>2
      <4> QED BY <4>1
    <3> QED BY <1>1, <3>1, <3>2
  <2> QED BY <1>1, <1>2, <2>2
<1>6. /\ b.offset < Len(r[1])
      /\ peer'[e] \in {"open", "fin"} =>
            b.offset >= 0 /\ Start(r[1]) + b.offset = Len(got'[e]) + 1
  <2>1. CASE q = <<>>
    <3>1. r[1] = data /\ b.offset = 0 /\ Len(got[e]) = taken[d]
      BY <2>1, <1>1 DEF Continues
    <3> QED BY <3>1, <1>2
  <2>2. CASE q # <<>>
    <3>1. r[1] = q[1]
      BY <2>2, <1>1
    <3>2. /\ b.offset < Len(q[1])
          /\ peer[e] \in {"open", "fin"} =>
                b.offset >= 0 /\ Start(q[1]) + b.offset = Len(got[e]) + 1
      BY <2>2 DEF Continues
    <3> QED BY <3>1, <3>2
  <2> QED BY <2>1, <2>2
<1>7. [b EXCEPT !.chunks = r].chunks = r /\ [b EXCEPT !.chunks = r].offset = b.offset
  BY DEF Buffers
<1>8. r # <<>>
  <2>1. r = <<>> => Len(r) = 0
    OBVIOUS
  <2> QED BY <1>1, <2>1
<1>9. ASSUME NEW c, c.chunks = r, c.offset = b.offset
      PROVE  Continues(c, e)'
  <2> HIDE DEF r
  <2> QED BY <1>3, <1>4, <1>5, <1>6, <1>8, <1>9 DEF Continues
<1> QED BY <1>7, <1>9

\* A chunk of consecutive bytes is as long as its numbers say.
LEMMA ChunkStop ==
  ASSUME NEW c \in Chunk, NEW d, Run(c, d)
  PROVE  Stop(c) = Start(c) + Len(c) - 1
<1>1. /\ Len(c) \in Nat \ {0} /\ DOMAIN c = 1 .. Len(c)
      /\ Start(c) \in Nat
  BY ChunkInts
<1>2. ASSUME NEW j \in DOMAIN c PROVE c[j][3] = Start(c) + j - 1
  BY <1>1 DEF Run
<1>3. Len(c) \in DOMAIN c
  BY <1>1
<1>4. c[Len(c)][3] = Start(c) + Len(c) - 1
  BY <1>2, <1>3
<1> QED BY <1>4 DEF Stop

\* n bytes of a chunk from offset f on, with what lies in front of the buffer;
\* n bytes of end d after the first g; the first k bytes of end d.
Part(c, f, n) == [k \in 1 .. n |-> IF f + k > 0 THEN c[f + k] ELSE Junk]
Row(d, g, n) == [k \in 1 .. n |-> <<d[1], d[2], g + k>>]
Prefix(d, k) == [j \in 1 .. k |-> d \o <<j>>]

\* A write that starts at the byte the peer is to receive next sends the bytes
\* that follow it.
LEMMA ChunkPart ==
  ASSUME NEW c \in Chunk, NEW d, Run(c, d),
         NEW f \in Nat, NEW n \in Nat \ {0}, f + n <= Len(c),
         NEW g \in Nat, Start(c) + f = g + 1
  PROVE  Part(c, f, n) = Row(d, g, n)
<1>1. Start(c) \in Nat /\ Len(c) \in Nat /\ DOMAIN c = 1 .. Len(c)
  BY ChunkInts
<1>2. ASSUME NEW k \in 1 .. n
      PROVE  f + k > 0 /\ c[f + k] = <<d[1], d[2], g + k>>
  <2>1. f + k \in 1 .. Len(c) /\ f + k > 0
    BY <1>1
  <2>2. c[f + k] = <<d[1], d[2], Start(c) + (f + k) - 1>>
    BY <2>1, <1>1 DEF Run
  <2>3. Start(c) + (f + k) - 1 = g + k
    BY <1>1
  <2> QED BY <2>1, <2>2, <2>3
<1>3. ASSUME NEW k \in 1 .. n
      PROVE  (IF f + k > 0 THEN c[f + k] ELSE Junk) = <<d[1], d[2], g + k>>
  BY <1>2
<1> QED BY <1>3, Zenon DEF Part, Row

\* n bytes of the first chunk of b are written to e.
Consumes(b, e, n) ==
    /\ b.chunks # <<>> /\ b.offset + n <= Len(Head(b.chunks))
    /\ peer[e] \in {"open", "fin"} /\ peer'[e] = peer[e]
    /\ taken[Opposite(e)] \in Nat /\ taken'[Opposite(e)] = taken[Opposite(e)]
    /\ Len(got[e]) \in Nat /\ Len(got'[e]) = Len(got[e]) + n

\* What a write takes from the buffer is what the peer is to receive next.
LEMMA ContinuesWrite ==
  ASSUME NEW b \in Buffers, NEW e, NEW d, d = Opposite(e), Continues(b, e),
         NEW n \in Nat \ {0}, Consumes(b, e, n)
  PROVE  /\ Continues(Advanced(b, n), e)'
         /\ Len(got[e]) + n <= taken[d]
         /\ Advanced(b, n) \in Buffers
<1> DEFINE q == b.chunks
           c == q[1]
           g == Len(got[e])
           r == Tail(q)
           f == b.offset
<1>1. q \in Seq(Chunk) /\ q # <<>> /\ Head(q) = c
  BY DEF Buffers, Consumes
<1>n. f \in Int /\ g \in Nat /\ f + n <= Len(c) /\ Len(got'[e]) = g + n
  BY <1>1 DEF Buffers, Consumes
<1>3. /\ \A i \in DOMAIN q : Run(q[i], d)
      /\ \A i \in 1 .. Len(q) - 1 : Start(q[i + 1]) = Stop(q[i]) + 1
      /\ Stop(q[Len(q)]) = taken[d]
      /\ \A i \in DOMAIN q : Stop(q[i]) <= taken[d]
      /\ f >= 0 /\ Start(c) + f = g + 1
  BY DEF Continues, Consumes
<1>a. c = q[1] /\ r = Tail(q) /\ q = b.chunks /\ f = b.offset /\ g = Len(got[e])
  OBVIOUS
<1> HIDE DEF q, c, g, r, f
<1>1a. /\ Len(q) \in Nat \ {0} /\ DOMAIN q = 1 .. Len(q)
       /\ r \in Seq(Chunk) /\ Len(r) = Len(q) - 1
       /\ \A i \in 1 .. Len(q) - 1 : r[i] = q[i + 1]
  BY <1>1, <1>a
<1>2. \A i \in 1 .. Len(q) : /\ Start(q[i]) \in Nat /\ Stop(q[i]) \in Nat
                             /\ Len(q[i]) \in Nat \ {0} /\ DOMAIN q[i] = 1 .. Len(q[i])
  <2>1. \A i \in 1 .. Len(q) : q[i] \in Chunk
    BY <1>1, <1>1a
  <2> QED BY <2>1, ChunkInts
<1>2a. 1 \in DOMAIN q /\ Len(q) \in DOMAIN q /\ DOMAIN c = 1 .. Len(c)
  BY <1>a, <1>1a, <1>2
<1>m. Start(c) \in Nat /\ Stop(c) \in Nat /\ Len(c) \in Nat \ {0}
  BY <1>a, <1>1a, <1>2
<1>3a. Stop(c) <= taken[d] /\ f >= 0 /\ Start(c) + f = g + 1
  BY <1>a, <1>2a, <1>3
<1>3b. Run(c, d)
  BY <1>a, <1>2a, <1>3
<1>4. Stop(c) = Start(c) + Len(c) - 1
  <2>1. c \in Chunk
    BY <1>1, <1>a, <1>1a
  <2> QED BY <2>1, <1>3b, ChunkStop
<1>k. taken[d] \in Nat /\ taken'[d] = taken[d]
  BY DEF Consumes
<1>5. g \in Nat /\ g + n <= taken[d] /\ Len(got'[e]) = g + n
  BY <1>k, <1>n, <1>m, <1>3a, <1>4
<1>8. CASE f + n = Len(c)
  <2>1. Advanced(b, n).chunks = r /\ Advanced(b, n).offset = 0
    BY <1>8, <1>1, <1>a DEF Advanced
  <2>2. Advanced(b, n) \in Buffers
    <3>1. Advanced(b, n) = [chunks |-> r, offset |-> 0]
      BY <1>8, <1>1, <1>a DEF Advanced
    <3> QED BY <3>1, <1>1a DEF Buffers
  <2>3. CASE Len(q) = 1
    <3>1. r = <<>>
      BY <2>3, <1>1a
    <3>2. Len(got'[e]) = taken'[d]
      <4>1. Stop(c) = taken[d]
        BY <2>3, <1>a, <1>3
      <4> QED BY <4>1, <1>k, <1>n, <1>m, <1>3a, <1>4, <1>5, <1>8
    <3>3. ASSUME NEW a, a.chunks = r, a.offset = 0
          PROVE  Continues(a, e)'
      BY <3>1, <3>2, <3>3 DEF Continues
    <3> QED BY <3>3, <2>1, <2>2, <1>5, <1>a
  <2>4. CASE Len(q) # 1
    <3>1. /\ DOMAIN r = 1 .. Len(q) - 1 /\ Len(r) >= 1
          /\ \A i \in 1 .. Len(q) - 1 : r[i] = q[i + 1] /\ i + 1 \in DOMAIN q
      BY <2>4, <1>1a
    <3>2. r # <<>>
      <4>1. r = <<>> => Len(r) = 0
        OBVIOUS
      <4> QED BY <3>1, <4>1
    <3>3. \A i \in DOMAIN r : Run(r[i], d)
      <4>1. ASSUME NEW i \in DOMAIN r PROVE i + 1 \in DOMAIN q /\ r[i] = q[i + 1]
        BY <3>1
      <4> QED BY <4>1, <1>3
    <3>4. \A i \in 1 .. Len(r) - 1 : Start(r[i + 1]) = Stop(r[i]) + 1
      <4>1. ASSUME NEW i \in 1 .. Len(r) - 1
            PROVE  /\ i \in 1 .. Len(q) - 1 /\ i + 1 \in 1 .. Len(q) - 1
        BY <1>1a
      <4> QED BY <4>1, <3>1, <1>3
    <3>5. /\ Stop(r[Len(r)]) = taken'[d]
          /\ \A i \in DOMAIN r : Stop(r[i]) <= taken'[d]
      <4>1. Len(r) \in 1 .. Len(q) - 1 /\ Len(r) + 1 = Len(q)
        BY <3>1, <1>1a
      <4> QED BY <4>1, <3>1, <1>k, <1>3
    <3>6. 0 < Len(r[1]) /\ Start(r[1]) + 0 = Len(got'[e]) + 1
      <4>1. 1 \in 1 .. Len(q) - 1 /\ 2 \in 1 .. Len(q) /\ r[1] = q[2]
        BY <3>1, <1>1a
      <4>2. Start(q[2]) = Stop(c) + 1
        BY <4>1, <1>3, <1>a
      <4>3. Len(q[2]) > 0 /\ Start(q[2]) \in Nat
        BY <4>1, <1>2
      <4>4. /\ Start(c) + f = g + 1 /\ f + n = Len(c) /\ Len(got'[e]) = g + n
            /\ Start(q[2]) = Start(c) + Len(c) - 1 + 1
        BY <4>2, <1>3a, <1>4, <1>5, <1>8
      <4>5. /\ Start(c) \in Int /\ Len(c) \in Int /\ f \in Int /\ g \in Int
            /\ n \in Int
        BY <1>n, <1>m
      <4>6. Start(c) + Len(c) - 1 + 1 = (g + n) + 1
        BY <4>4, <4>5
      <4>7. Start(q[2]) + 0 = Start(q[2])
        BY <4>3
      <4> QED BY <4>1, <4>3, <4>4, <4>6, <4>7, Zenon
    <3>7. ASSUME NEW a, a.chunks = r, a.offset = 0
          PROVE  Continues(a, e)'
      BY <3>2, <3>3, <3>4, <3>5, <3>6, <3>7 DEF Continues
    <3> QED BY <3>7, <2>1, <2>2, <1>5, <1>a
  <2> QED BY <2>3, <2>4
<1>9. CASE f + n # Len(c)
  <2>1. /\ Advanced(b, n).chunks = q /\ Advanced(b, n).offset = f + n
        /\ Advanced(b, n) \in Buffers
    <3>1. Advanced(b, n) = [b EXCEPT !.offset = @ + n]
      BY <1>9, <1>1, <1>a DEF Advanced
    <3> QED BY <3>1, <1>n, <1>a DEF Buffers
  <2>2. /\ f + n < Len(c) /\ f + n >= 0
        /\ Start(c) + (f + n) = Len(got'[e]) + 1
    BY <1>9, <1>n, <1>m, <1>3a, <1>5
  <2>3. ASSUME NEW a, a.chunks = q, a.offset = f + n
        PROVE  Continues(a, e)'
    BY <1>1, <1>3, <1>a, <1>k, <2>2, <2>3 DEF Continues
  <2> QED BY <2>1, <2>3, <1>5, <1>a
<1> QED BY <1>8, <1>9

\* One buffer changes.
Sets(o, d, b) == buffer' = [buffer EXCEPT ![o] = [buffer[o] EXCEPT ![d] = b]]

\* A step that sets one buffer leaves the others alone.
LEMMA OneBuffer ==
  ASSUME IInv, NEW o \in Sides, NEW d \in Fds, NEW b \in Buffers,
         Sets(o, d, b),
         b.offset >= MinOffset, b.chunks = <<>> => b.offset = 0
  PROVE  /\ buffer[o][d] \in Buffers
         /\ buffer' \in [Sides -> [Fds -> Buffers]] /\ buffer'[o][d] = b
         /\ \A q \in Sides, f \in Fds : q # o \/ f # d => buffer'[q][f] = buffer[q][f]
         /\ \A q \in Sides, f \in Fds : buffer'[q][f].offset >= MinOffset
         /\ \A q \in Sides, f \in Fds :
                  buffer'[q][f].chunks = <<>> => buffer'[q][f].offset = 0
<1>1. buffer \in [Sides -> [Fds -> Buffers]]
  BY DEF IInv, Types
<1>2. /\ buffer[o][d] \in Buffers
      /\ buffer' \in [Sides -> [Fds -> Buffers]] /\ buffer'[o][d] = b
      /\ \A q \in Sides, f \in Fds : q # o \/ f # d => buffer'[q][f] = buffer[q][f]
  BY <1>1 DEF Sets
<1>3. \A q \in Sides, f \in Fds : buffer[q][f].offset >= MinOffset
  BY DEF IInv, Types
<1>4. \A q \in Sides, f \in Fds : buffer[q][f].chunks = <<>> => buffer[q][f].offset = 0
  BY DEF IInv, Streams
<1>5. ASSUME NEW q \in Sides, NEW f \in Fds
      PROVE  buffer'[q][f].offset >= MinOffset
  BY <1>2, <1>3
<1>6. ASSUME NEW q \in Sides, NEW f \in Fds, buffer'[q][f].chunks = <<>>
      PROVE  buffer'[q][f].offset = 0
  BY <1>2, <1>4, <1>6
<1> QED BY <1>2, <1>5, <1>6

\* A thread that is not misled by a number given out again reads and writes
\* the sockets of its own table.
LEMMA OwnSocket ==
  ASSUME IInv, NEW s \in Sides, pc[s] \in {"read", "blocked", "write"},
         cur[s] \in Fds, sock[cur[s]] \in Ends, "stale" \notin seen
  PROVE  cur[s] \in Registered(table[s]) /\ sock[cur[s]] \in {s} \X Conns
<1>1. cur[s] # NoFd /\ sock[cur[s]] # Closed /\ sock[cur[s]] # Misc
  BY Constants
<1>2. cur[s] \in Registered(table[s])
  BY <1>1 DEF IInv, Held
<1> QED BY <1>1, <1>2, Facts

\* A read appends a chunk to the buffer of the other end.
LEMMA ReadDataStep ==
  ASSUME IInv, NEW s \in Sides, ReadData(s), UNCHANGED listener
  PROVE  IInv'
<1> USE DEF kernel, maps, queues
<1>e. PICK e, o, d : e = sock[cur[s]] /\ o = Other(s) /\ d = partner[s][cur[s]]
  OBVIOUS
<1>n. PICK n, t : /\ n = IF Pending(e) < MaxLine THEN Pending(e) ELSE MaxLine
                /\ t = taken[e]
  OBVIOUS
<1>d. PICK data : data = [k \in 1 .. n |-> <<s, e[2], t + k>>]
  OBVIOUS
<1>c. PICK b, c : b = buffer[o][d] /\ c = [b EXCEPT !.chunks = Append(@, data)]
  OBVIOUS
<1>1. /\ pc[s] \in {"read", "blocked"} /\ e \in Ends /\ Pending(e) > 0
      /\ taken' = [taken EXCEPT ![e] = @ + n]
      /\ buffer' = [buffer EXCEPT ![o][d].chunks = Append(@, data)]
      /\ UNCHANGED <<table, sock, peer, sent, got, backlog, rev, slot, req, partner,
                     removed, queues, inserted, seen>>
  BY <1>e, <1>n, <1>d DEF ReadData, Reading, Destination
<1>2. /\ cur[s] \in Fds /\ d \in Fds /\ o \in Sides /\ o # s
      /\ taken \in [Ends -> Nat] /\ sent \in [Ends -> Nat] /\ t <= sent[e]
      /\ buffer \in [Sides -> [Fds -> Buffers]] /\ b \in Buffers
  <2>1. cur[s] \in Fds /\ partner \in [Sides -> [Fds -> Fds]]
    BY <1>1 DEF IInv, Types, InHand
  <2>2. /\ taken \in [Ends -> Nat] /\ sent \in [Ends -> Nat]
        /\ \A x \in Ends : taken[x] <= sent[x]
        /\ buffer \in [Sides -> [Fds -> Buffers]]
    BY DEF IInv, Types
  <2>3. t = taken[e] /\ b = buffer[o][d]
    BY <1>n, <1>c
  <2>4. d \in Fds /\ o \in Sides /\ o # s
    BY <1>e, <2>1, Constants
  <2> QED BY <2>1, <2>2, <2>3, <2>4, <1>1
<1>3. /\ n \in Nat \ {0} /\ t + n <= sent[e] /\ t \in Nat
      /\ taken'[e] = t + n
      /\ \A x \in Ends : x # e => taken'[x] = taken[x]
      /\ taken' \in [Ends -> Nat]
  <2>1. n \in Nat \ {0} /\ t + n <= sent[e] /\ t \in Nat
    BY <1>1, <1>2, <1>n, TcpServerAssumption DEF Pending
  <2> QED BY <2>1, <1>1, <1>2, <1>n
<1>4. PICK p \in Places, g \in Fds \cup {NoFd} : Goes(s, p, g)
  BY <1>1, AfterReadGoes DEF ReadData, IInv, Types
<1>5. LoopStep(s, {}, p, g)
  BY <1>1, <1>4, NothingGone DEF LoopStep
<1>6. "stale" \notin seen => /\ cur[s] \in Registered(table[s])
                             /\ e \in {s} \X Conns /\ e[1] = s
  BY <1>e, <1>1, <1>2, OwnSocket, EndsOfSide
<1>7. Moves(s)
  <2>1. IsOpen(e)
    BY <1>e, <1>2 DEF IsOpen
  <2>2. "stale" \notin seen => e[1] = s /\ \E f \in Registered(table[s]) : sock[f] = e
    BY <1>e, <1>6
  <2> QED BY <1>1, <1>3, <2>1, <2>2 DEF Moves
<1>8. data \in Chunk
  <2>1. \A k \in 1 .. n : <<s, e[2], t + k>> \in Units
    BY <1>1, <1>3 DEF Units, Ends
  <2>2. data \in Seq(Units) /\ Len(data) = n
    <3>1. data \in [1 .. n -> Units]
      BY <2>1, <1>d
    <3> QED BY <3>1, <1>3
  <2> QED BY <2>2, <1>3 DEF Chunk
<1>9. c \in Buffers /\ c.chunks # <<>> /\ c.offset = b.offset
  <2>1. b.chunks \in Seq(Chunk) /\ c.chunks = Append(b.chunks, data)
             /\ c.offset = b.offset /\ b.offset \in Int
             /\ c = [chunks |-> Append(b.chunks, data), offset |-> b.offset]
    BY <1>2, <1>c DEF Buffers
  <2>2. Append(b.chunks, data) \in Seq(Chunk) /\ Len(Append(b.chunks, data)) > 0
    BY <2>1, <1>8
  <2>3. c.chunks = <<>> => Len(c.chunks) = 0
    OBVIOUS
  <2> QED BY <2>1, <2>2, <2>3 DEF Buffers
<1>10. /\ buffer' \in [Sides -> [Fds -> Buffers]]
       /\ \A q \in Sides, f \in Fds : buffer'[q][f].offset >= MinOffset
       /\ \A q \in Sides, f \in Fds :
               buffer'[q][f].chunks = <<>> => buffer'[q][f].offset = 0
       /\ buffer'[o][d] = c
       /\ \A q \in Sides, f \in Fds : q # o \/ f # d => buffer'[q][f] = buffer[q][f]
  <2>1. Sets(o, d, c)
    BY <1>1, <1>2, <1>c DEF Sets
  <2>2. b.offset >= MinOffset
    BY <1>2, <1>c DEF IInv, Types
  <2>3. c \in Buffers /\ c.offset >= MinOffset /\ (c.chunks = <<>> => c.offset = 0)
    BY <2>2, <1>9
  <2>4. o \in Sides /\ d \in Fds
    BY <1>2
  <2> QED BY <2>1, <2>3, <2>4, OneBuffer
<1>11. Types'
  <2>1. \A x \in Ends : taken'[x] <= sent'[x] /\ sent'[x] <= Bytes[x[1]]
    BY <1>1, <1>2, <1>3, <1>n DEF IInv, Types
  <2> QED BY <2>1, <1>1, <1>3, <1>5, <1>10, LoopTypes DEF IInv, Types
<1>12. Streams'
  <2>1. ASSUME "stale" \notin seen', NEW f \in Fds, sock'[f] \in Ends
        PROVE  Continues(buffer[sock[f][1]][f], sock[f])'
    <3>x. PICK x : x = sock[f]
      OBVIOUS
    <3>1. /\ sock' = sock /\ "stale" \notin seen /\ x \in Ends /\ x[1] \in Sides
          /\ Continues(buffer[x[1]][f], x)
      BY <1>1, <2>1, <3>x DEF IInv, Streams, Ends
    <3>2. cur[s] \in Routed(s) /\ e[1] = s
      BY <1>1, <1>6, <3>1, SMTT(30) DEF Routed, InUse
    <3>3. /\ sock[d] \in Ends => sock[d] = Opposite(e)
          /\ IsOpen(Opposite(e)) => sock[d] = Opposite(e)
      BY <1>e, <1>1, <3>1, <3>2 DEF IInv, Routing
    <3>4. Opposite(e) \in Ends /\ Opposite(Opposite(e)) = e /\ Opposite(e)[1] = o
      BY <1>e, <1>1, <3>2, Constants, SMTT(30) DEF Opposite, Ends
    <3>5. CASE x = Opposite(e)
      <4>1. f = d
        BY <3>3, <3>4, <3>5, <3>x, <1>2, OneSocket DEF IsOpen
      <4>2. Continues(b, x) /\ (b.chunks = <<>> => b.offset = 0)
        BY <3>1, <3>4, <3>5, <4>1, <1>2, <1>c DEF IInv, Streams
      <4>3. data = [k \in 1 .. n |-> <<e[1], e[2], taken[e] + k>>]
        BY <3>2, <1>d, <1>n
      <4>4. e = Opposite(x) /\ taken[e] \in Nat /\ taken'[e] = taken[e] + n
        BY <3>4, <3>5, <1>3, <1>n
      <4>5. Continues(c, x)'
        BY <4>2, <4>3, <4>4, <1>c, <1>1, <1>2, <1>3, ContinuesRead
      <4>6. buffer'[x[1]][f] = c
        BY <4>1, <3>4, <3>5, <1>10
      <4> QED BY <4>5, <4>6, <3>1, <3>x
    <3>6. CASE x # Opposite(e)
      <4>1. x[1] = o => f # d
        BY <3>3, <3>6, <3>1, <3>x
      <4>2. Opposite(x) \in Ends /\ Opposite(x) # e
        BY <3>1, <3>6, <3>4, Constants DEF Opposite, Ends
      <4>3. buffer'[x[1]][f] = buffer[x[1]][f]
        BY <4>1, <1>10, <3>1
      <4>4. Continues(buffer[x[1]][f], x)'
        BY <4>2, <4>3, <3>1, <1>1, <1>3, ContinuesFrame
      <4> QED BY <4>4, <3>1, <3>x
    <3> QED BY <3>5, <3>6
  <2> QED BY <2>1, <1>10 DEF Streams
<1>13. NoMixing'
  <2> SUFFICES ASSUME "stale" \notin seen, NEW x \in Ends
               PROVE  \E k \in 0 .. taken'[Opposite(x)] :
                         got[x] = [j \in 1 .. k |-> Opposite(x) \o <<j>>]
    BY <1>1 DEF NoMixing
  <2>1. PICK k \in 0 .. taken[Opposite(x)] :
           got[x] = [j \in 1 .. k |-> Opposite(x) \o <<j>>]
    BY DEF IInv, NoMixing
  <2>2. Opposite(x) \in Ends
    BY Constants DEF Opposite, Ends
  <2>3. taken'[Opposite(x)] \in Nat /\ taken[Opposite(x)] <= taken'[Opposite(x)]
    BY <1>2, <1>3, <1>n, <2>2
  <2>4. k \in 0 .. taken'[Opposite(x)]
    BY <2>2, <2>3, <1>2
  <2> QED BY <2>1, <2>4
<1> QED BY <1>5, <1>7, <1>11, <1>12, <1>13, LoopDone

\* A failure that is reported leaves the peer as far away as it was.
LEMMA ReportedOnly ==
  ASSUME IInv, NEW d, peer' = Reported(d)
  PROVE  /\ peer' \in [Ends -> {"none", "open", "fin", "rst", "dead"}]
         /\ \A e \in Ends : /\ peer'[e] = "none" <=> peer[e] = "none"
                            /\ peer'[e] = "open" <=> peer[e] = "open"
                            /\ peer'[e] \in {"open", "fin"} => peer[e] \in {"open", "fin"}
                            /\ peer[e] \in {"fin", "rst", "dead"}
                                  => peer'[e] \in {"fin", "rst", "dead"}
<1>1. peer \in [Ends -> {"none", "open", "fin", "rst", "dead"}]
  BY DEF IInv, Types
<1> QED BY <1>1 DEF Reported

\* The end of a stream, or an error: the descriptor is removed.
LEMMA LoseStep ==
  ASSUME IInv, NEW s \in Sides, Lose(s), UNCHANGED listener
  PROVE  IInv'
<1> USE DEF kernel, maps, queues
<1>1. /\ pc[s] \in {"read", "blocked"} /\ cur[s] \in Fds /\ slot[s] >= 2
      /\ cur \in [Sides -> Fds \cup {NoFd}] /\ partner[s][cur[s]] \in Fds
      /\ table \in [Sides -> Tables] /\ "lost" \in Places
  BY DEF Lose, Reading, IInv, Types, InHand, Places
<1>g. PICK gone : gone = {Victim(table[s], cur[s])} \cap Fds
  OBVIOUS
<1>2. Shrinks(gone) /\ \A q \in Sides : TableOK(table'[q])
  BY <1>1, <1>g, VacateShrinks DEF Lose
<1>3. Goes(s, "lost", partner[s][cur[s]])
  BY <1>1 DEF Lose, Goes, Goto
<1>4. /\ peer' \in [Ends -> {"none", "open", "fin", "rst", "dead"}]
      /\ \A e \in Ends : /\ peer'[e] = "none" <=> peer[e] = "none"
                         /\ peer'[e] \in {"open", "fin"} => peer[e] \in {"open", "fin"}
  BY ReportedOnly DEF Lose
<1>5. QuietStep(s, gone, "lost", partner[s][cur[s]])
  BY <1>2, <1>3, <1>4 DEF Lose, QuietStep, LoopStep
<1>6. Types'
  <2>1. table' \in [Sides -> Tables]
    BY <1>1, <1>2 DEF Lose, TableOK
  <2>2. peer' \in [Ends -> {"none", "open", "fin", "rst", "dead"}]
    BY <1>4
  <2>3. LoopStep(s, gone, "lost", partner[s][cur[s]]) /\ gone \in SUBSET Fds
    BY <1>5, <1>g DEF QuietStep
  <2>4. UNCHANGED <<sent, taken, got, rev, slot, buffer, removed, seen>>
    BY DEF Lose
  <2> QED BY <1>1, <1>2, <2>1, <2>2, <2>3, <2>4, LoopTypes DEF IInv, Types
<1>7. gone \in SUBSET Fds /\ UNCHANGED buffer
  BY <1>g DEF Lose
<1> QED BY <1>1, <1>5, <1>6, <1>7, QuietDone

\* And then its partner, now or when its buffer is written.
LEMMA LosePartnerStep ==
  ASSUME IInv, NEW s \in Sides, LosePartner(s), UNCHANGED listener
  PROVE  IInv'
<1> USE DEF kernel, maps, queues
<1>1. /\ pc[s] = "lost" /\ cur[s] \in Fds /\ Other(s) \in Sides
      /\ table \in [Sides -> Tables] /\ removed \in [Sides -> SUBSET Fds]
      /\ seen \in SUBSET Marks
  BY Constants DEF LosePartner, IInv, Types, InHand
<1>2. \E gone \in SUBSET Fds :
         /\ Shrinks(gone) /\ \A q \in Sides : TableOK(table'[q])
         /\ table' \in [Sides -> Tables] /\ removed' \in [Sides -> SUBSET Fds]
         /\ seen' \in SUBSET Marks /\ seen \subseteq seen'
  <2>1. CASE MayClose(Other(s), cur[s])
    <3>g. PICK gone : gone = {Victim(table[Other(s)], cur[s])} \cap Fds
      OBVIOUS
    <3>1. /\ table' = [table EXCEPT ![Other(s)] = Vacate(@, cur[s])]
          /\ CloseAll({Victim(table[Other(s)], cur[s])})
          /\ seen' = seen \cup {m \in {"early"} :
                                cur[s] \notin Registered(table[Other(s)])}
          /\ removed' = removed
      BY <2>1 DEF LosePartner
    <3>2. Shrinks(gone) /\ \A q \in Sides : TableOK(table'[q])
      BY <1>1, <3>1, <3>g, VacateShrinks
    <3>3. table' \in [Sides -> Tables]
      BY <1>1, <3>1, <3>2 DEF TableOK
    <3>4. seen' \in SUBSET Marks /\ seen \subseteq seen'
      BY <1>1, <3>1 DEF Marks
    <3> QED BY <1>1, <3>g, <3>1, <3>2, <3>3, <3>4
  <2>2. CASE ~MayClose(Other(s), cur[s])
    <3>1. /\ UNCHANGED <<table, sock, seen>>
          /\ removed' = [removed EXCEPT ![Other(s)] = @ \cup {cur[s]}]
      BY <2>2 DEF LosePartner
    <3> QED BY <1>1, <3>1, NothingGone
  <2> QED BY <2>1, <2>2
<1>3. PICK gone \in SUBSET Fds :
         /\ Shrinks(gone) /\ \A q \in Sides : TableOK(table'[q])
         /\ table' \in [Sides -> Tables] /\ removed' \in [Sides -> SUBSET Fds]
         /\ seen' \in SUBSET Marks /\ seen \subseteq seen'
  BY <1>2
<1>4. PICK p \in Places, g \in Fds \cup {NoFd} : Goes(s, p, g)
  BY <1>1, <1>3, AfterReadGoes DEF LosePartner
<1>5. QuietStep(s, gone, p, g) /\ LoopStep(s, gone, p, g)
  BY <1>3, <1>4 DEF LosePartner, QuietStep, LoopStep
<1>6. UNCHANGED <<peer, sent, taken, got, rev, slot, buffer>>
  BY DEF LosePartner
<1>7. Types'
  BY <1>3, <1>5, <1>6, LoopTypes DEF IInv, Types
<1> QED BY <1>5, <1>6, <1>7, QuietDone

\* A write that fails puts -1 into the offset.
LEMMA WriteFailsStep ==
  ASSUME IInv, NEW s \in Sides, WriteFails(s), UNCHANGED listener
  PROVE  IInv'
<1> USE DEF kernel, maps, queues
<1>f. PICK f, b, c : /\ f = cur[s] /\ b = buffer[s][f]
                     /\ c = [b EXCEPT !.offset = IF @ > MinOffset THEN @ - 1 ELSE @]
  OBVIOUS
<1>1. /\ pc[s] = "write" /\ f \in Fds /\ b.chunks # <<>> /\ ~CanWrite(f)
      /\ buffer \in [Sides -> [Fds -> Buffers]] /\ b \in Buffers /\ b.offset >= MinOffset
  <2>1. cur[s] # NoFd /\ cur[s] \in Fds \cup {NoFd}
    BY DEF WriteFails, Writing, HasData, IInv, Types
  <2>2. \A x \in Fds : buffer[s][x].offset >= MinOffset
    BY DEF IInv, Types
  <2>3. buffer \in [Sides -> [Fds -> Buffers]]
    BY DEF IInv, Types
  <2> QED BY <1>f, <2>1, <2>2, <2>3 DEF WriteFails, Writing, HasData
<1>2. /\ c \in Buffers /\ c.chunks = b.chunks /\ c.offset >= MinOffset
      /\ c.offset <= b.offset
  <2>1. b.offset \in Int /\ b.chunks \in Seq(Chunk) /\ MinOffset \in Int
    BY <1>1, TcpServerAssumption DEF Buffers
  <2>2. c = [chunks |-> b.chunks,
             offset |-> IF b.offset > MinOffset THEN b.offset - 1 ELSE b.offset]
    BY <1>f, <1>1 DEF Buffers
  <2>3. c.offset \in Int /\ c.offset >= MinOffset /\ c.offset <= b.offset
    BY <1>1, <2>1, <2>2
  <2> QED BY <2>1, <2>2, <2>3 DEF Buffers
<1>3. /\ buffer' \in [Sides -> [Fds -> Buffers]]
      /\ \A q \in Sides, x \in Fds : buffer'[q][x].offset >= MinOffset
      /\ \A q \in Sides, x \in Fds :
              buffer'[q][x].chunks = <<>> => buffer'[q][x].offset = 0
      /\ buffer'[s][f] = c
      /\ \A q \in Sides, x \in Fds : q # s \/ x # f => buffer'[q][x] = buffer[q][x]
  <2>1. Sets(s, f, c)
    BY <1>f, <1>1 DEF WriteFails, Sets
  <2>2. c \in Buffers /\ c.offset >= MinOffset /\ (c.chunks = <<>> => c.offset = 0)
    BY <1>1, <1>2
  <2> QED BY <1>1, <2>1, <2>2, OneBuffer
<1>4. LoopStep(s, {}, "scan", NoFd) /\ "scan" \in Places
  BY <1>1, NothingGone, AfterWriteGoes DEF WriteFails, LoopStep
<1>6. /\ UNCHANGED <<sent, taken, got, rev, slot, removed, seen, sock, table>>
      /\ peer' \in [Ends -> {"none", "open", "fin", "rst", "dead"}]
      /\ \A e \in Ends : /\ peer'[e] = "none" <=> peer[e] = "none"
                         /\ peer'[e] \in {"open", "fin"} => peer[e] \in {"open", "fin"}
  BY ReportedOnly DEF WriteFails
<1>5. Moves(s)
  BY <1>6 DEF Moves
<1>7. Types'
  BY <1>3, <1>4, <1>6, LoopTypes DEF IInv, Types
<1>8. Streams'
  <2>1. ASSUME "stale" \notin seen', NEW x \in Fds, sock'[x] \in Ends
        PROVE  Continues(buffer[sock[x][1]][x], sock[x])'
    <3>e. PICK e : e = sock[x]
      OBVIOUS
    <3>1. /\ e \in Ends /\ e[1] \in Sides /\ Continues(buffer[e[1]][x], e)
          /\ sock'[x] = e
      BY <1>6, <2>1, <3>e DEF IInv, Streams, Ends
    <3>2. CASE e[1] = s /\ x = f
      <4>1. peer[e] \notin {"open", "fin"} /\ Continues(b, e)
        BY <1>1, <1>f, <3>1, <3>2, <3>e DEF CanWrite
      <4>2. Len(b.chunks[1]) \in Int /\ b.offset \in Int /\ c.offset \in Int
        <5>1. b.chunks \in Seq(Chunk) /\ Len(b.chunks) # 0
          BY <1>1 DEF Buffers
        <5>2. b.chunks[1] \in Chunk
          BY <5>1
        <5> QED BY <5>2, <1>1, <1>2, ChunkInts DEF Buffers
      <4>3. Continues(c, e)'
        <5>1. b.offset < Len(b.chunks[1])
          BY <4>1, <1>1 DEF Continues
        <5>2. c.offset < Len(b.chunks[1])
          BY <4>2, <5>1, <1>2
        <5>3. peer'[e] \notin {"open", "fin"}
          BY <4>1, <3>1, <1>6
        <5> QED BY <4>1, <5>2, <5>3, <1>1, <1>2, <1>6 DEF Continues
      <4> QED BY <4>3, <3>1, <3>2, <1>3
    <3>3. CASE ~(e[1] = s /\ x = f)
      <4>1. buffer'[e[1]][x] = buffer[e[1]][x]
        BY <1>3, <3>1, <3>3
      <4>2. Continues(buffer[e[1]][x], e)'
        BY <4>1, <3>1, <1>6, ContinuesFrame
      <4> QED BY <4>2, <3>1
    <3> QED BY <3>2, <3>3
  <2> QED BY <2>1, <1>3 DEF Streams
<1>9. NoMixing'
  BY <1>6 DEF IInv, NoMixing
<1> QED BY <1>4, <1>5, <1>7, <1>8, <1>9, LoopDone

\* Concatenation adds lengths.
LEMMA ConcatLen ==
  ASSUME NEW S, NEW u \in Seq(S), NEW v \in Seq(S)
  PROVE  Len(u) \in Nat /\ Len(u \o v) = Len(u) + Len(v)
  OBVIOUS

\* A byte is named by its connection's end and its number.
LEMMA ConcatUnit ==
  ASSUME NEW a, NEW c, NEW j
  PROVE  <<a, c>> \o <<j>> = <<a, c, j>>
<1> DEFINE S == {a, c, j}
           x == <<a, c>>
           y == <<j>>
           z == <<a, c, j>>
<1>1. x \in Seq(S) /\ y \in Seq(S) /\ z \in Seq(S) /\ Len(x) = 2 /\ Len(y) = 1 /\ Len(z) = 3
  OBVIOUS
<1>2. /\ x \o y \in Seq(S) /\ Len(x \o y) = 3
      /\ \A i \in 1 .. 3 : (x \o y)[i] = IF i <= 2 THEN x[i] ELSE y[i - 2]
  BY <1>1, ConcatProperties
<1>3. x[1] = a /\ x[2] = c /\ y[1] = j /\ z[1] = a /\ z[2] = c /\ z[3] = j
  OBVIOUS
<1> HIDE DEF x, y, z, S
<1>4. ASSUME NEW i \in 1 .. 3 PROVE (x \o y)[i] = z[i]
  <2>1. i = 1 \/ i = 2 \/ i = 3
    OBVIOUS
  <2>2. (x \o y)[1] = a /\ (x \o y)[2] = c /\ (x \o y)[3] = j
    BY <1>2, <1>3
  <2> QED BY <1>3, <2>1, <2>2
<1>5. x \o y = z
  BY <1>1, <1>2, <1>4, SeqEqual
<1> QED BY <1>5 DEF x, y, z

\* x and y are the two parts of z.
Splits(z, x, y, S, k, n) ==
    /\ k \in Nat /\ n \in Nat
    /\ x \in [1 .. k -> S] /\ y \in [1 .. n -> S] /\ z \in [1 .. k + n -> S]
    /\ \A j \in 1 .. k : x[j] = z[j]
    /\ \A j \in 1 .. n : y[j] = z[k + j]

\* A sequence is what two parts of it are together.
LEMMA SplitSeq ==
  ASSUME NEW S, NEW k, NEW n, NEW x, NEW y, NEW z, Splits(z, x, y, S, k, n)
  PROVE  x \o y = z
<1> USE DEF Splits
<1>1. x \in Seq(S) /\ y \in Seq(S) /\ z \in Seq(S)
  <2>1. k + n \in Nat
    OBVIOUS
  <2>2. \A m \in Nat : [1 .. m -> S] \subseteq Seq(S)
    OBVIOUS
  <2> QED BY <2>1, <2>2
<1>2. Len(x) = k /\ Len(y) = n /\ Len(z) = k + n
  <2>1. DOMAIN x = 1 .. k /\ DOMAIN y = 1 .. n /\ DOMAIN z = 1 .. k + n
    OBVIOUS
  <2> QED BY <1>1, <2>1, LenProperties
<1>3. /\ x \o y \in Seq(S) /\ Len(x \o y) = k + n
      /\ \A i \in 1 .. k + n : (x \o y)[i] = IF i <= k THEN x[i] ELSE y[i - k]
  BY <1>1, <1>2, ConcatProperties
<1>4. ASSUME NEW i \in 1 .. k + n PROVE (x \o y)[i] = z[i]
  <2>1. CASE i <= k
    BY <1>3, <2>1
  <2>2. CASE ~(i <= k)
    <3>1. i - k \in 1 .. n /\ k + (i - k) = i
      BY <2>2
    <3>2. (x \o y)[i] = y[i - k]
      BY <1>3, <2>2
    <3>3. y[i - k] = z[k + (i - k)]
      BY <3>1
    <3> QED BY <3>1, <3>2, <3>3
  <2> QED BY <2>1, <2>2
<1> QED BY <1>1, <1>2, <1>3, <1>4, SeqEqual

\* A run of numbered units that goes on.
LEMMA ConcatRuns ==
  ASSUME NEW d \in Ends, NEW k \in Nat, NEW n \in Nat
  PROVE  Prefix(d, k) \o Row(d, k, n) = Prefix(d, k + n)
<1>d. PICK a, c : d = <<a, c>>
  BY DEF Ends
<1>x. PICK x, y : x = Prefix(d, k) /\ y = Row(d, k, n)
  OBVIOUS
<1>u. PICK U : U = [j \in Nat |-> d \o <<j>>]
  OBVIOUS
<1>s. PICK S, z : S = {U[j] : j \in Nat} /\ z = Prefix(d, k + n)
  OBVIOUS
<1>1. \A j \in Nat : U[j] = d \o <<j>> /\ U[j] = <<d[1], d[2], j>> /\ U[j] \in S
  <2>1. \A j \in Nat : d \o <<j>> = <<d[1], d[2], j>>
    BY <1>d, ConcatUnit
  <2> QED BY <2>1, <1>u, <1>s
<1>2. /\ \A j \in 1 .. k : j \in Nat
      /\ \A j \in 1 .. n : j \in Nat /\ k + j \in Nat /\ k + j \in 1 .. k + n
      /\ \A j \in 1 .. k + n : j \in Nat
      /\ \A j \in 1 .. k : j \in 1 .. k + n
  OBVIOUS
<1>3. /\ x \in [1 .. k -> S] /\ \A j \in 1 .. k : x[j] = U[j]
  BY <1>1, <1>2, <1>x DEF Prefix
<1>4. /\ y \in [1 .. n -> S] /\ \A j \in 1 .. n : y[j] = U[k + j]
  BY <1>1, <1>2, <1>x DEF Row
<1>5. /\ z \in [1 .. k + n -> S] /\ \A j \in 1 .. k + n : z[j] = U[j]
  BY <1>1, <1>2, <1>s DEF Prefix
<1>6. /\ \A j \in 1 .. k : x[j] = z[j]
      /\ \A j \in 1 .. n : y[j] = z[k + j]
  BY <1>2, <1>3, <1>4, <1>5
<1>7. Splits(z, x, y, S, k, n)
  BY <1>3, <1>4, <1>5, <1>6 DEF Splits
<1>8. x \o y = z
  BY <1>7, SplitSeq
<1> QED BY <1>8, <1>s, <1>x

\* What is left of a buffer after a write is a buffer.
LEMMA AdvancedOK ==
  ASSUME NEW b \in Buffers, b.chunks # <<>>, NEW n \in Nat \ {0},
         b.offset >= MinOffset
  PROVE  /\ Advanced(b, n) \in Buffers /\ Advanced(b, n).offset >= MinOffset
         /\ Advanced(b, n).chunks = <<>> => Advanced(b, n).offset = 0
<1>1. /\ b.chunks \in Seq(Chunk) /\ b.offset \in Int
      /\ MinOffset \in Int /\ MinOffset < 0
  BY TcpServerAssumption DEF Buffers
<1>2. CASE b.offset + n = Len(Head(b.chunks))
  <2>1. Advanced(b, n) = [chunks |-> Tail(b.chunks), offset |-> 0]
    BY <1>2 DEF Advanced
  <2>2. Tail(b.chunks) \in Seq(Chunk)
    BY <1>1
  <2> QED BY <1>1, <2>1, <2>2 DEF Buffers
<1>3. CASE b.offset + n # Len(Head(b.chunks))
  <2>1. Advanced(b, n) = [b EXCEPT !.offset = @ + n]
    BY <1>3 DEF Advanced
  <2>2. Advanced(b, n) = [chunks |-> b.chunks, offset |-> b.offset + n]
    BY <2>1 DEF Buffers
  <2>3. b.offset + n \in Int /\ b.offset + n >= MinOffset
    BY <1>1
  <2> QED BY <1>1, <2>2, <2>3 DEF Buffers
<1> QED BY <1>2, <1>3

\* What is written of a chunk: as many bytes as write accepted.
LEMMA ChunkData ==
  ASSUME NEW c \in Chunk, NEW f \in Int, NEW n \in Nat \ {0}, f + n <= Len(c)
  PROVE  Part(c, f, n) \in Seq(Units) /\ Len(Part(c, f, n)) = n
<1>1. c \in Seq(Units) /\ Len(c) \in Nat
  BY ChunkInts
<1>2. ASSUME NEW k \in 1 .. n
      PROVE  (IF f + k > 0 THEN c[f + k] ELSE Junk) \in Units
  <2>1. CASE f + k > 0
    <3>1. f + k \in 1 .. Len(c)
      BY <1>1, <2>1
    <3> QED BY <1>1, <2>1, <3>1
  <2>2. CASE ~(f + k > 0)
    BY <2>2 DEF Units
  <2> QED BY <2>1, <2>2
<1>3. Part(c, f, n) \in [1 .. n -> Units]
  BY <1>2 DEF Part
<1> QED BY <1>3

\* A write advances the offset, or drops the chunk that is sent.
LEMMA WriteStep ==
  ASSUME IInv, NEW s \in Sides, NEW n \in 1 .. MaxWrite, Write(s, n),
         UNCHANGED listener
  PROVE  IInv'
<1> USE DEF kernel, maps, queues
<1>n. n \in Nat \ {0}
  OBVIOUS
<1>f. PICK f, e, b : f = cur[s] /\ e = sock[f] /\ b = buffer[s][f]
  OBVIOUS
<1>c. PICK c, chunk : c = Advanced(b, n) /\ chunk = Head(b.chunks)
  OBVIOUS
<1>d. PICK data : data = Part(chunk, b.offset, n)
  BY Zenon
<1>1. /\ pc[s] = "write" /\ cur[s] # NoFd /\ b.chunks # <<>>
      /\ e \in Ends /\ peer[e] \in {"open", "fin"}
      /\ b.offset + n <= Len(chunk)
      /\ got' = [got EXCEPT ![e] = @ \o data]
      /\ buffer' = [buffer EXCEPT ![s][f] = Advanced(@, n)]
      /\ AfterWrite(s)
      /\ UNCHANGED <<peer, sent, taken, backlog, rev, slot, req, partner, queues,
                     inserted, seen>>
  BY <1>f, <1>c, <1>d DEF Write, Writing, HasData, CanWrite, Part
<1>2. /\ f \in Fds /\ buffer \in [Sides -> [Fds -> Buffers]] /\ b \in Buffers
      /\ b.offset >= MinOffset /\ got \in [Ends -> Seq(Units)]
      /\ b.offset \in Int /\ b.chunks \in Seq(Chunk) /\ chunk \in Chunk
      /\ taken \in [Ends -> Nat]
  <2>1. /\ f \in Fds /\ buffer \in [Sides -> [Fds -> Buffers]]
        /\ got \in [Ends -> Seq(Units)] /\ taken \in [Ends -> Nat]
        /\ \A x \in Fds : buffer[s][x].offset >= MinOffset
    BY <1>1, <1>f DEF IInv, Types
  <2>2. b \in Buffers /\ b.offset >= MinOffset
    BY <1>f, <2>1
  <2>3. b.offset \in Int /\ b.chunks \in Seq(Chunk)
    BY <2>2 DEF Buffers
  <2>4. chunk \in Chunk
    BY <1>1, <1>c, <2>3
  <2> QED BY <2>1, <2>2, <2>3, <2>4
<1>3. data \in Seq(Units) /\ Len(data) = n
  BY <1>n, <1>1, <1>2, <1>d, ChunkData
<1>4. /\ c \in Buffers /\ c.offset >= MinOffset
      /\ c.chunks = <<>> => c.offset = 0
  BY <1>n, <1>1, <1>2, <1>c, AdvancedOK
<1>5. /\ buffer' \in [Sides -> [Fds -> Buffers]]
      /\ \A q \in Sides, x \in Fds : buffer'[q][x].offset >= MinOffset
      /\ \A q \in Sides, x \in Fds :
              buffer'[q][x].chunks = <<>> => buffer'[q][x].offset = 0
      /\ buffer'[s][f] = c
      /\ \A q \in Sides, x \in Fds : q # s \/ x # f => buffer'[q][x] = buffer[q][x]
  <2>1. Sets(s, f, c)
    BY <1>f, <1>c, <1>1, <1>2 DEF Sets
  <2> QED BY <1>2, <1>4, <2>1, OneBuffer
<1>6. PICK gone \in SUBSET Fds :
         /\ Shrinks(gone) /\ \A q \in Sides : TableOK(table'[q])
         /\ table' \in [Sides -> Tables] /\ removed' \in [Sides -> SUBSET Fds]
  <2>0. table \in [Sides -> Tables] /\ removed \in [Sides -> SUBSET Fds]
    BY DEF IInv, Types
  <2>1. CASE b.offset + n = Len(chunk) /\ Awaited(s, f)
    <3>g. PICK gone : gone = {Victim(table[s], f)} \cap Fds
      OBVIOUS
    <3>1. /\ table' = [table EXCEPT ![s] = Vacate(@, f)]
          /\ CloseAll({Victim(table[s], f)})
          /\ removed' = [removed EXCEPT ![s] = @ \ {f}]
      BY <2>1, <1>f, <1>c DEF Write
    <3>2. Shrinks(gone) /\ \A q \in Sides : TableOK(table'[q])
      BY <1>2, <3>1, <3>g, VacateShrinks
    <3>3. table' \in [Sides -> Tables]
      BY <2>0, <3>1, <3>2 DEF TableOK
    <3> QED BY <2>0, <3>g, <3>1, <3>2, <3>3
  <2>2. CASE ~(b.offset + n = Len(chunk) /\ Awaited(s, f))
    <3>1. table' = table /\ removed' = removed /\ CloseAll({})
      BY <2>2, <2>0, <1>f, <1>c DEF Write
    <3>2. sock' = sock
      BY <3>1 DEF CloseAll, IInv, Types
    <3> QED BY <2>0, <3>1, <3>2, NothingGone, Zenon
  <2> QED BY <2>1, <2>2
<1>7. LoopStep(s, gone, "scan", NoFd) /\ "scan" \in Places
  BY <1>1, <1>6, AfterWriteGoes DEF LoopStep
<1>8. "stale" \notin seen => f \in Registered(table[s]) /\ e \in {s} \X Conns /\ e[1] = s
  BY <1>f, <1>1, <1>2, OwnSocket, EndsOfSide
<1>9. Moves(s)
  <2>1. IsOpen(e)
    BY <1>f, <1>2 DEF IsOpen
  <2>2. \A x \in Ends : x # e => got'[x] = got[x]
    BY <1>1, <1>2
  <2> QED BY <1>1, <1>8, <1>f, <2>1, <2>2 DEF Moves
<1>10. got' \in [Ends -> Seq(Units)] /\ got'[e] = got[e] \o data
       /\ \A x \in Ends : x # e => got'[x] = got[x]
  <2>1. got[e] \o data \in Seq(Units)
    BY <1>1, <1>2, <1>3
  <2> QED BY <2>1, <1>1, <1>2
<1>11. Types'
  <2>1. LoopStep(s, gone, "scan", NoFd) /\ "scan" \in Places /\ gone \in SUBSET Fds
    BY <1>6, <1>7
  <2> QED BY <2>1, <1>1, <1>5, <1>6, <1>10, LoopTypes DEF IInv, Types
<1>12. ASSUME "stale" \notin seen
       PROVE  /\ Continues(c, e)'
              /\ Len(got[e]) + n <= taken[Opposite(e)]
              /\ data = Row(Opposite(e), Len(got[e]), n)
  <2>1. Continues(b, e)
    BY <1>12, <1>8, <1>f, <1>1, <1>2 DEF IInv, Streams
  <2>2. PICK d : d = Opposite(e)
    OBVIOUS
  <2>3. d \in Ends
    BY <2>2, <1>1, Constants DEF Opposite, Ends
  <2>4. Len(got[e]) \in Nat /\ Len(got'[e]) = Len(got[e]) + n
    <3>1. PICK u : u = got[e]
      OBVIOUS
    <3>2. u \in Seq(Units)
      BY <3>1, <1>1, <1>2
    <3>3. Len(u) \in Nat /\ Len(u \o data) = Len(u) + Len(data)
      BY <3>2, <1>3, ConcatLen
    <3> QED BY <3>1, <3>3, <1>3, <1>10
  <2>5. Consumes(b, e, n)
    <3>1. taken' = taken /\ peer' = peer
      BY <1>1
    <3> QED BY <3>1, <2>2, <2>3, <2>4, <1>1, <1>2, <1>c DEF Consumes
  <2>6. /\ Continues(Advanced(b, n), e)'
        /\ Len(got[e]) + n <= taken[d]
    BY <2>1, <2>2, <2>5, <1>n, <1>2, ContinuesWrite
  <2>7. Advanced(b, n)' = Advanced(b, n)
    BY DEF Advanced
  <2>8. /\ Run(chunk, d) /\ b.offset >= 0
        /\ Start(chunk) + b.offset = Len(got[e]) + 1
    <3>1. chunk = b.chunks[1] /\ 1 \in DOMAIN b.chunks
      BY <1>c, <1>1, <1>2
    <3> QED BY <3>1, <2>1, <2>2, <1>1 DEF Continues
  <2>9. data = Row(d, Len(got[e]), n)
    <3>1. b.offset \in Nat /\ b.offset + n <= Len(chunk)
      BY <2>8, <1>1, <1>2
    <3> QED BY <3>1, <2>4, <2>8, <1>n, <1>2, <1>d, ChunkPart
  <2> QED BY <2>2, <2>6, <2>7, <2>9, <1>c
<1>13. Streams'
  <2>1. ASSUME "stale" \notin seen', NEW x \in Fds, sock'[x] \in Ends
        PROVE  Continues(buffer[sock[x][1]][x], sock[x])'
    <3>h. PICK h : h = sock[x]
      OBVIOUS
    <3>1. /\ "stale" \notin seen /\ sock'[x] = h /\ h \in Ends /\ h[1] \in Sides
          /\ Continues(buffer[h[1]][x], h)
      <4>1. sock'[x] = sock[x]
        BY <2>1, <1>6, Constants DEF Shrinks, CloseAll
      <4>2. "stale" \notin seen
        BY <2>1, <1>1
      <4> QED BY <4>1, <4>2, <2>1, <3>h DEF IInv, Streams, Ends
    <3>2. CASE x = f
      <4>1. h = e /\ h[1] = s /\ buffer'[s][f] = c
        BY <3>1, <3>2, <3>h, <1>f, <1>8, <1>5
      <4> QED BY <4>1, <3>1, <3>2, <1>12
    <3>3. CASE x # f
      <4>1. h # e
        BY <3>1, <3>3, <3>h, <1>f, <1>2, OneSocket
      <4>2. buffer'[h[1]][x] = buffer[h[1]][x] /\ got'[h] = got[h]
        BY <3>1, <3>3, <4>1, <1>5, <1>10
      <4>3. Continues(buffer[h[1]][x], h)'
        BY <4>2, <3>1, <1>1, ContinuesFrame
      <4> QED BY <4>3, <3>1
    <3> QED BY <3>2, <3>3
  <2> QED BY <2>1, <1>5 DEF Streams
<1>14. NoMixing'
  <2> SUFFICES ASSUME "stale" \notin seen, NEW x \in Ends
               PROVE  \E k \in 0 .. taken[Opposite(x)] :
                         got'[x] = [j \in 1 .. k |-> Opposite(x) \o <<j>>]
    BY <1>1 DEF NoMixing
  <2>1. PICK k \in 0 .. taken[Opposite(x)] :
           got[x] = [j \in 1 .. k |-> Opposite(x) \o <<j>>]
    BY DEF IInv, NoMixing
  <2>2. CASE x # e
    BY <2>1, <2>2, <1>10
  <2>3. CASE x = e
    <3>d. PICK d : d = Opposite(e)
      OBVIOUS
    <3>1. k \in Nat /\ Len(got[e]) = k
      <4>1. got[e] \in Seq(Units) /\ DOMAIN got[e] = 1 .. k /\ k \in Nat
        BY <2>1, <2>3, <1>1, <1>2
      <4> QED BY <4>1
    <3>2. k + n <= taken[d] /\ data = Row(d, k, n)
      BY <3>d, <3>1, <1>12
    <3>3. got[e] \o data = Prefix(d, k + n)
      <4>1. d \in Ends
        BY <3>d, <1>1, Constants DEF Opposite, Ends
      <4>2. got[e] = Prefix(d, k)
        BY <2>1, <2>3, <3>d DEF Prefix
      <4> QED BY <4>1, <4>2, <3>1, <3>2, <1>n, ConcatRuns, ZenonT(40)
    <3>4. k + n \in 0 .. taken[d]
      <4>1. d \in Ends
        BY <3>d, <1>1, Constants DEF Opposite, Ends
      <4> QED BY <4>1, <3>1, <3>2, <1>n, <1>2
    <3> QED BY <3>3, <3>4, <3>d, <2>3, <1>10 DEF Prefix
  <2> QED BY <2>2, <2>3
<1>15. gone \in SUBSET Fds
  BY <1>6
<1> QED BY <1>7, <1>9, <1>11, <1>13, <1>14, <1>15, LoopDone

-----------------------------------------------------------------------------
(* The steps that set connections up, and what peers do. *)

\* Sockets are closed, and nobody is routed anew.
LEMMA ClosingRouting ==
  ASSUME IInv, partner' = partner, \A s \in Sides : Routed(s)' \subseteq Routed(s),
         \A f \in Fds : sock'[f] \in {sock[f], Closed},
         "stale" \in seen => "stale" \in seen'
  PROVE  Routing'
<1> SUFFICES ASSUME "stale" \notin seen', NEW s \in Sides, NEW f \in Routed(s)',
                    sock'[f] \in Ends
             PROVE  LET there == sock'[partner'[s][f]] IN
                    /\ there \in Ends => there = Opposite(sock'[f])
                    /\ (\E h \in Fds : sock'[h] = Opposite(sock'[f]))
                          => there = Opposite(sock'[f])
  BY DEF Routing, IsOpen
<1>1. f \in Routed(s) /\ f \in Fds /\ partner[s][f] \in Fds /\ sock'[f] = sock[f]
  <2>1. f \in Routed(s) /\ f \in Fds
    BY Facts DEF Routed
  <2>2. partner[s][f] \in Fds
    BY <2>1 DEF IInv, Types
  <2> QED BY <2>1, <2>2, Constants
<1>2. /\ sock[partner[s][f]] \in Ends => sock[partner[s][f]] = Opposite(sock[f])
      /\ IsOpen(Opposite(sock[f])) => sock[partner[s][f]] = Opposite(sock[f])
  BY <1>1 DEF IInv, Routing
<1>3. ASSUME NEW h \in Fds, sock'[h] = Opposite(sock[f])
      PROVE  sock'[partner[s][f]] = Opposite(sock[f])
  <2>1. Opposite(sock[f]) \in Ends
    BY <1>1, Constants DEF Opposite, Ends
  <2>2. sock[h] = sock'[h]
    BY <1>3, <2>1, Constants
  <2>3. sock[partner[s][f]] = Opposite(sock[f])
    BY <2>2, <1>2, <1>3 DEF IsOpen
  <2>4. partner[s][f] = h
    BY <2>1, <2>2, <2>3, <1>3, <1>1, OneSocket
  <2> QED BY <2>4, <1>3
<1> QED BY <1>1, <1>2, <1>3, Constants

\* What peers do does not touch the relay.
LEMMA PeersOnly ==
  ASSUME IInv, UNCHANGED <<listener, sock, taken, got, loops, maps, queues,
                           inserted, seen>>,
         \A e \in Ends : peer'[e] \in {"open", "fin"} /\ IsOpen(e)
                            => peer[e] \in {"open", "fin"},
         Types', Births'
  PROVE  IInv'
<1> USE DEF loops, maps, queues
<1>1. Streams' /\ NoMixing'
  BY QuietStreams
<1>2. /\ InHand' /\ Sockets' /\ Known' /\ Held'
  BY DEF IInv, InHand, Sockets, Known, Held, IsServer, InUse, Registered
<1>3. Pending0'
  BY DEF IInv, Pending0, Registered
<1>4. Routing'
  <2>1. \A s \in Sides : Routed(s)' \subseteq Routed(s)
    BY DEF Routed, InUse, Registered, IsServer
  <2> QED BY <2>1, ClosingRouting
<1> QED BY <1>1, <1>2, <1>3, <1>4 DEF IInv

\* A user connects.
LEMMA ArriveStep ==
  ASSUME IInv, NEW c \in Conns, Arrive(c), UNCHANGED listener
  PROVE  IInv'
<1> USE DEF loops, maps, queues
<1>0. <<"proxy", c>> \in Ends /\ \A d \in Conns : <<"proxy", d>> = <<"proxy", c>> => d = c
  BY Constants, EndOf
<1>1. IsServer
  BY Constants DEF Arrive, IInv, Sockets, IsServer
<1>2. ServerBirths /\ peer[<<"proxy", c>>] = "none"
  BY <1>1 DEF IInv, Births, Arrive
<1>3. /\ peer' = [peer EXCEPT ![<<"proxy", c>>] = "open"]
      /\ backlog' = backlog \cup {c}
      /\ UNCHANGED <<sock, sent, taken, got, loops, maps, queues, inserted, seen>>
  BY DEF Arrive
<1>4. peer \in [Ends -> {"none", "open", "fin", "rst", "dead"}] /\ backlog \subseteq Conns
  BY DEF IInv, Types
<1>5. Types'
  BY <1>0, <1>3, <1>4 DEF IInv, Types
<1>6. Births'
  <2>1. ASSUME NEW d \in Conns, d \in backlog' \/ peer'[<<"proxy", d>>] = "none"
        PROVE  Unused(<<"proxy", d>>)' /\ Unused(<<"net", d>>)' /\ req' # d
    <3>1. d \in backlog \/ peer[<<"proxy", d>>] = "none"
      BY <1>0, <1>2, <1>3, <1>4, <2>1, EndOf, Constants
    <3> QED BY <3>1, <1>2, <1>3 DEF ServerBirths, Unused, Silent, IsOpen
  <2>2. ASSUME NEW d \in backlog' PROVE peer'[<<"proxy", d>>] # "none"
    <3>1. d \in Conns /\ <<"proxy", d>> \in Ends
      BY <1>3, <1>4, EndOf, Constants
    <3>2. CASE d = c
      BY <3>2, <1>0, <1>3, <1>4
    <3>3. CASE d # c
      <4>1. d \in backlog /\ peer'[<<"proxy", d>>] = peer[<<"proxy", d>>]
        BY <3>1, <3>3, <1>0, <1>3, <1>4
      <4> QED BY <4>1, <1>2 DEF ServerBirths
    <3> QED BY <3>2, <3>3
  <2>3. req # c
    BY <1>2 DEF ServerBirths
  <2>4. ServerBirths'
    <3>1. pc["proxy"] \in {"insert", "await"} => req \in Conns /\ req \notin backlog'
      BY <1>2, <1>3, <2>3 DEF ServerBirths, IInv, Types, InHand
    <3>2. pc["proxy"] \in {"insert", "await"} => peer'[<<"proxy", req>>] # "none"
      BY <1>2, <1>3, <1>4, <3>1, EndOf, Constants DEF ServerBirths
    <3> QED BY <2>1, <2>2, <3>1, <3>2, <1>2, <1>3 DEF ServerBirths, Silent
  <2>5. IsServer'
    BY <1>1 DEF IsServer
  <2> QED BY <2>4, <2>5 DEF Births
<1>7. \A e \in Ends : peer'[e] \in {"open", "fin"} /\ IsOpen(e) => peer[e] \in {"open", "fin"}
  <2>1. ~IsOpen(<<"proxy", c>>)
    BY <1>2 DEF ServerBirths, Unused
  <2> QED BY <2>1, <1>3, <1>4
<1> QED BY <1>3, <1>5, <1>6, <1>7, PeersOnly

\* Births depends on the peers only in whether they exist yet.
LEMMA BirthsKept ==
  ASSUME IInv, UNCHANGED <<listener, sock, taken, got, backlog, loops, maps, queues,
                           inserted, seen>>,
         \A e \in Ends : peer'[e] = "none" <=> peer[e] = "none"
  PROVE  Births'
<1> USE DEF loops, maps, queues
<1>0. \A c \in Conns : <<"proxy", c>> \in Ends /\ <<"net", c>> \in Ends
  BY EndOf, Constants
<1>1. ASSUME ServerBirths PROVE ServerBirths'
  <2>1. pc["proxy"] \in {"insert", "await"} => req \in Conns
    BY DEF IInv, InHand, Types
  <2>2. backlog \subseteq Conns
    BY DEF IInv, Types
  <2> QED BY <1>0, <1>1, <2>1, <2>2 DEF ServerBirths, Unused, Silent, IsOpen
<1>2. ASSUME ClientBirths PROVE ClientBirths'
  BY <1>0, <1>2 DEF ClientBirths, Unused, Silent, IsOpen
<1> QED BY <1>1, <1>2 DEF IInv, Births, IsServer

\* A peer sends.
LEMMA PeerSendStep ==
  ASSUME IInv, NEW e \in Ends, PeerSend(e), UNCHANGED listener
  PROVE  IInv'
<1> USE DEF loops, maps, queues
<1>1. Births'
  BY BirthsKept DEF PeerSend
<1>2. Types'
  <2>1. /\ sent \in [Ends -> Nat] /\ taken \in [Ends -> Nat]
        /\ \A x \in Ends : taken[x] <= sent[x] /\ sent[x] <= Bytes[x[1]]
        /\ \A x \in Ends : Bytes[x[1]] \in Nat
    BY TcpServerAssumption DEF IInv, Types, Ends
  <2>2. sent' = [sent EXCEPT ![e] = @ + 1] /\ sent[e] < Bytes[e[1]] /\ taken' = taken
    BY DEF PeerSend
  <2>3. sent' \in [Ends -> Nat]
    BY <2>1, <2>2
  <2>4. \A x \in Ends : taken'[x] <= sent'[x] /\ sent'[x] <= Bytes[x[1]]
    BY <2>1, <2>2
  <2> QED BY <2>3, <2>4 DEF PeerSend, IInv, Types
<1> QED BY <1>1, <1>2, PeersOnly DEF PeerSend

\* A peer ends its stream, or resets the connection.
LEMMA PeerEndStep ==
  ASSUME IInv, NEW e \in Ends, PeerEnd(e), UNCHANGED listener
  PROVE  IInv'
<1> USE DEF loops, maps, queues
<1>1. PICK how \in {"fin", "rst", "dead"} :
          /\ peer[e] \in {"open", "fin"}
          /\ peer' = [peer EXCEPT ![e] = how]
  BY DEF PeerEnd
<1>2. peer \in [Ends -> {"none", "open", "fin", "rst", "dead"}]
  BY DEF IInv, Types
<1>3. UNCHANGED <<sock, sent, taken, got, backlog, loops, maps, queues, inserted, seen>>
  BY DEF PeerEnd
<1>4. \A x \in Ends : /\ peer'[x] = "none" <=> peer[x] = "none"
                      /\ peer'[x] \in {"open", "fin"} => peer[x] \in {"open", "fin"}
  BY <1>1, <1>2
<1>5. Births'
  BY <1>3, <1>4, BirthsKept
<1>6. Types'
  BY <1>1, <1>2, <1>3 DEF IInv, Types
<1> QED BY <1>3, <1>4, <1>5, <1>6, PeersOnly

\* What a descriptor that is handed out meets: nothing refers to it, unless the
\* history says so.
LEMMA Opening ==
  ASSUME IInv, NEW f \in Fds, NEW e \in Ends \cup {Misc}, NEW marks \in SUBSET Marks,
         OpenOn(f, e, marks)
  PROVE  /\ sock[f] = Closed /\ f # 0 /\ f # NoFd
         /\ sock' \in [Fds -> Ends \cup {Closed, Misc}]
         /\ sock'[f] = e /\ \A g \in Fds : g # f => sock'[g] = sock[g]
         /\ \A g \in Fds : sock[g] # Closed => g # f /\ sock'[g] = sock[g]
         /\ \A s \in Sides : f \notin Registered(table[s])
         /\ \A i \in DOMAIN actualfds : actualfds[i] # f
         /\ \A i \in DOMAIN tunnels : tunnels[i] # f
         /\ f \notin InUse("net")
         /\ pc["proxy"] = "insert" => cur["proxy"] # f
         /\ seen' \in SUBSET Marks /\ seen \subseteq seen'
         /\ "stale" \notin seen' => "stale" \notin seen /\ ~RefersTo(f)
<1>1. /\ sock[f] = Closed /\ sock' = [sock EXCEPT ![f] = e]
      /\ seen' = seen \cup marks \cup {m \in {"stale"} : RefersTo(f)}
                 \cup {m \in {"late"} : WillClose(f)}
  BY DEF OpenOn
<1>2. sock \in [Fds -> Ends \cup {Closed, Misc}] /\ sock[0] = Misc /\ seen \in SUBSET Marks
  BY DEF IInv, Types, Sockets
<1>3. \A s \in Sides : f \notin Registered(table[s])
  BY <1>1, Facts, EndsOfSide, Constants
<1>4. \A i \in DOMAIN actualfds : actualfds[i] # f
  BY <1>1, EndsOfSide, Constants DEF IInv, Pending0
<1>5. \A i \in DOMAIN tunnels : tunnels[i] # f
  <2> SUFFICES ASSUME NEW i \in DOMAIN tunnels, tunnels[i] = f PROVE FALSE
    OBVIOUS
  <2>1. sock[tunnels[i]] \in {"net"} \X Conns
    BY Constants DEF IInv, Pending0
  <2> QED BY <2>1, <1>1, EndsOfSide, Constants
<1>6. pc["proxy"] = "insert" => cur["proxy"] # f
  <2> SUFFICES ASSUME pc["proxy"] = "insert", cur["proxy"] = f PROVE FALSE
    OBVIOUS
  <2>1. sock[f] = <<"proxy", req>> /\ req \in Conns
    BY DEF IInv, Pending0, InHand, Types
  <2> QED BY <2>1, <1>1, EndOf, Constants
<1>7. f \notin InUse("net")
  BY <1>3, <1>4, Constants DEF InUse
<1>8. seen' \in SUBSET Marks /\ seen \subseteq seen'
  BY <1>1, <1>2 DEF Marks
<1> QED BY <1>1, <1>2, <1>3, <1>4, <1>5, <1>6, <1>7, <1>8, Constants

\* The invariant of the buffers when e comes into being on f.
LEMMA OpenStreams ==
  ASSUME IInv, NEW f \in Fds, NEW e \in Ends \cup {Misc}, NEW marks \in SUBSET Marks,
         OpenOn(f, e, marks), UNCHANGED <<taken, got, buffer>>,
         e \in Ends => ~IsOpen(e),
         "stale" \notin seen /\ e \in Ends => Silent(e) /\ Silent(Opposite(e)),
         \A x \in Ends : x # e => peer'[x] = peer[x]
  PROVE  Streams' /\ NoMixing'
<1>1. ASSUME NEW g \in Fds, sock'[g] \in Ends, "stale" \notin seen'
      PROVE  Continues(buffer[sock[g][1]][g], sock[g])'
  <2>h. PICK h : h = sock'[g]
    OBVIOUS
  <2>0. h \in Ends /\ h[1] \in Sides
    BY <1>1, <2>h DEF Ends
  <2>1. "stale" \notin seen /\ ~RefersTo(f)
    BY <1>1, Opening
  <2>2. CASE g = f
    <3>1. h = e /\ e \in Ends
      BY <2>2, <2>h, <2>0, Opening
    <3>2. Silent(e) /\ Silent(Opposite(e))
      BY <2>1, <3>1
    <3>3. buffer[e[1]][f].chunks = <<>>
      BY <2>0, <2>1, <3>1 DEF RefersTo
    <3>4. ASSUME NEW b, b.chunks = <<>> PROVE Continues(b, e)'
      <4>1. got'[e] = <<>> /\ taken'[Opposite(e)] = 0
        BY <3>2 DEF Silent
      <4>2. Len(got'[e]) = taken'[Opposite(e)]
        BY <4>1
      <4>3. Len(b.chunks) = 0 /\ DOMAIN b.chunks = {}
        BY <3>4
      <4> QED BY <3>4, <4>2, <4>3 DEF Continues
    <3>5. Continues(buffer[e[1]][f], e)'
      BY <3>3, <3>4
    <3> QED BY <2>2, <2>h, <3>1, <3>5
  <2>3. CASE g # f
    <3>1. sock[g] = h
      BY <2>3, <2>h, Opening
    <3>2. Continues(buffer[h[1]][g], h) /\ IsOpen(h)
      BY <2>0, <2>1, <3>1 DEF IInv, Streams, IsOpen
    <3>3. peer'[h] = peer[h]
      BY <2>0, <3>2
    <3>4. Continues(buffer[h[1]][g], h)'
      BY <3>2, <3>3, ContinuesFrame
    <3> QED BY <3>4, <2>h
  <2> QED BY <2>2, <2>3
<1>2. Streams'
  BY <1>1 DEF IInv, Streams
<1>3. NoMixing'
  <2>1. "stale" \notin seen' => "stale" \notin seen
    BY Opening
  <2> QED BY <2>1 DEF IInv, NoMixing, Opposite, Other
<1> QED BY <1>2, <1>3

\* The invariants of the sockets, and of what is taken off the table, when e
\* comes into being on f, and a thread may have f in its hand to insert it.
LEMMA OpenSockets ==
  ASSUME IInv, NEW f \in Fds, NEW e \in Ends \cup {Misc}, NEW marks \in SUBSET Marks,
         OpenOn(f, e, marks), UNCHANGED <<listener, table, inserted>>,
         e \in Ends => ~IsOpen(e),
         \A s \in Sides : pc'[s] \in {"read", "blocked", "write"} =>
                             pc'[s] = pc[s] /\ cur'[s] = cur[s]
  PROVE  Sockets' /\ Held'
<1>1. Sockets'
  <2>1. sock'[0] = Misc /\ \A s \in Sides : 0 \notin inserted'[s]
    BY Opening, Constants DEF IInv, Sockets
  <2>2. ASSUME NEW g \in Fds, NEW h \in Fds, sock'[g] = sock'[h], sock'[g] \in Ends
        PROVE  g = h
    <3>1. CASE g = f /\ h # f
      BY <3>1, <2>2, Opening DEF IsOpen
    <3>2. CASE g # f /\ h = f
      BY <3>2, <2>2, Opening DEF IsOpen
    <3>3. CASE g # f /\ h # f
      BY <3>3, <2>2, Opening, OneSocket
    <3> QED BY <3>1, <3>2, <3>3
  <2>3. ASSUME NEW s \in Sides, NEW i \in Slots, table[s].fd[i] # NoFd
        PROVE  sock'[table[s].fd[i]] = sock[table[s].fd[i]]
    <3>1. table[s].fd[i] \in Registered(table[s])
      BY <2>3 DEF Registered
    <3> QED BY <3>1, Facts, Opening
  <2> QED BY <2>1, <2>2, <2>3 DEF IInv, Sockets
<1>2. Held'
  <2> SUFFICES ASSUME "stale" \notin seen', NEW s \in Sides,
                      pc'[s] \in {"read", "blocked", "write"}, cur'[s] # NoFd
               PROVE  sock'[cur[s]] = Closed \/ cur[s] \in Registered(table[s])
    BY DEF Held
  <2>1. sock[cur[s]] = Closed \/ cur[s] \in Registered(table[s])
    BY Opening DEF IInv, Held
  <2>2. cur[s] # f
    BY Opening DEF RefersTo
  <2>3. cur[s] \in Fds
    BY DEF IInv, Types
  <2> QED BY <2>1, <2>2, <2>3, Opening
<1> QED BY <1>1, <1>2

\* Routing when e comes into being on f, whose opposite end is not routed yet.
LEMMA OpenRouting ==
  ASSUME IInv, NEW f \in Fds, NEW e \in Ends \cup {Misc}, NEW marks \in SUBSET Marks,
         OpenOn(f, e, marks), UNCHANGED partner, e \in Ends => ~IsOpen(e),
         \A s \in Sides : Routed(s)' \subseteq Routed(s),
         "stale" \notin seen /\ e \in Ends =>
            \A s \in Sides : \A h \in Routed(s) : sock[h] # Opposite(e)
  PROVE  Routing'
<1> SUFFICES ASSUME "stale" \notin seen', NEW s \in Sides, NEW h \in Routed(s)',
                    sock'[h] \in Ends
             PROVE  LET there == sock'[partner[s][h]] IN
                    /\ there \in Ends => there = Opposite(sock'[h])
                    /\ (\E x \in Fds : sock'[x] = Opposite(sock'[h]))
                          => there = Opposite(sock'[h])
  BY DEF Routing, IsOpen
<1>1. "stale" \notin seen /\ ~RefersTo(f)
  BY Opening
<1>2. h \in Routed(s) /\ h \in InUse(s) /\ h \in Fds /\ partner[s][h] \in Fds
  <2>1. h \in Routed(s) /\ h \in InUse(s) /\ h \in Fds
    BY Facts DEF Routed
  <2> QED BY <2>1 DEF IInv, Types
<1>3. h # f /\ sock'[h] = sock[h]
  <2>1. h # f
    BY <1>2, Opening, Constants DEF InUse
  <2> QED BY <2>1, <1>2, Opening
<1>4. partner[s][h] # f
  BY <1>1, <1>2 DEF RefersTo
<1>5. sock'[partner[s][h]] = sock[partner[s][h]]
  BY <1>2, <1>4, Opening
<1>6. /\ sock[partner[s][h]] \in Ends => sock[partner[s][h]] = Opposite(sock[h])
      /\ IsOpen(Opposite(sock[h])) => sock[partner[s][h]] = Opposite(sock[h])
  BY <1>1, <1>2, <1>3 DEF IInv, Routing
<1>7. ASSUME NEW x \in Fds, sock'[x] = Opposite(sock[h])
      PROVE  sock[partner[s][h]] = Opposite(sock[h])
  <2>1. CASE x = f
    <3>1. e = Opposite(sock[h]) /\ e \in Ends /\ Opposite(e) = sock[h]
      <4>1. sock'[f] = e
        BY Opening
      <4>2. sock[h] \in Ends
        BY <1>3
      <4>3. /\ Opposite(sock[h]) \in Ends
            /\ Opposite(Opposite(sock[h])) = sock[h]
        BY <4>2, Constants DEF Opposite, Ends
      <4> QED BY <4>1, <4>3, <1>7, <2>1
    <3> QED BY <3>1, <1>1, <1>2
  <2>2. CASE x # f
    <3>1. sock[x] = Opposite(sock[h])
      BY <1>7, <2>2, Opening
    <3> QED BY <3>1, <1>6 DEF IsOpen
  <2> QED BY <2>1, <2>2
<1> QED BY <1>3, <1>5, <1>6, <1>7

\* The client's manager hands a tunnel over.
LEMMA OfferStep ==
  ASSUME IInv, NEW c \in Conns, Offer(c), UNCHANGED listener
  PROVE  IInv'
<1> USE DEF loops, maps
<1>f. PICK f \in Fds : OpenOn(f, <<"net", c>>, {}) /\ tunnels' = Append(tunnels, f)
  BY DEF Offer
<1>e. PICK e, p : e = <<"net", c>> /\ p = <<"proxy", c>>
  OBVIOUS
<1>0. /\ e \in Ends /\ e \in Ends \cup {Misc} /\ {} \in SUBSET Marks
      /\ p = Opposite(e) /\ e \in {"net"} \X Conns
      /\ OpenOn(f, e, {}) /\ p \in Ends /\ p # e
  BY <1>e, <1>f, EndOf, Constants
<1>1. /\ ~IsServer /\ peer[e] = "none" /\ peer' = [peer EXCEPT ![e] = "open"]
      /\ UNCHANGED <<sent, taken, got, backlog, loops, maps, actualfds, inserted>>
  BY <1>e DEF Offer
<1>2. /\ ClientBirths /\ Unused(p) /\ Unused(e) /\ peer[p] = "none"
  BY <1>1, <1>e DEF IInv, Births, ClientBirths
<1>3. /\ tunnels \in Seq(Fds \cup {NoFd}) /\ f \in Fds \cup {NoFd}
      /\ peer \in [Ends -> {"none", "open", "fin", "rst", "dead"}]
  BY DEF IInv, Types
<1>4. /\ tunnels' \in Seq(Fds \cup {NoFd})
      /\ DOMAIN tunnels' = 1 .. Len(tunnels) + 1 /\ DOMAIN tunnels = 1 .. Len(tunnels)
      /\ tunnels'[Len(tunnels) + 1] = f
      /\ \A i \in DOMAIN tunnels : tunnels'[i] = tunnels[i]
      /\ \A i \in DOMAIN tunnels' : i \in DOMAIN tunnels \/ i = Len(tunnels) + 1
  BY <1>3, <1>f
<1>5. Types'
  <2>1. sock' \in [Fds -> Ends \cup {Closed, Misc}] /\ seen' \in SUBSET Marks
    BY <1>0, Opening
  <2> QED BY <2>1, <1>0, <1>1, <1>3, <1>4 DEF IInv, Types
<1>6. InHand'
  BY <1>1 DEF IInv, InHand, IsServer
<1>7. Sockets' /\ Held'
  BY <1>0, <1>1, <1>2, OpenSockets DEF Unused
<1>8. Pending0'
  <2>1. ASSUME NEW i \in DOMAIN tunnels', tunnels'[i] # NoFd
        PROVE  /\ sock'[tunnels'[i]] \in {"net"} \X Conns
               /\ tunnels'[i] \notin Registered(table'["net"])
               /\ \A j \in DOMAIN actualfds : actualfds[j] # tunnels'[i]
               /\ \A j \in DOMAIN tunnels' : tunnels'[i] = tunnels'[j] => i = j
    <3>1. CASE i \in DOMAIN tunnels
      <4>1. tunnels[i] # f /\ tunnels[i] \in Fds
        BY <3>1, <2>1, <1>0, <1>3, <1>4, Opening
      <4>2. sock'[tunnels[i]] = sock[tunnels[i]]
        BY <4>1, <1>0, Opening
      <4> QED BY <4>1, <4>2, <3>1, <2>1, <1>1, <1>4 DEF IInv, Pending0
    <3>2. CASE i = Len(tunnels) + 1
      BY <3>2, <1>0, <1>1, <1>4, Opening, Constants
    <3> QED BY <3>1, <3>2, <1>4
  <2>2. \A i \in DOMAIN actualfds : sock'[actualfds[i]] = sock[actualfds[i]]
    <3>1. \A i \in DOMAIN actualfds : actualfds[i] \in Fds
      BY DEF IInv, Types
    <3> QED BY <3>1, <1>0, Opening
  <2>3. pc["proxy"] = "insert" => sock'[cur["proxy"]] = sock[cur["proxy"]]
    <3>1. pc["proxy"] = "insert" => cur["proxy"] \in Fds
      BY Constants DEF IInv, InHand
    <3> QED BY <3>1, <1>0, Opening
  <2>4. table' = table /\ actualfds' = actualfds /\ pc' = pc /\ cur' = cur /\ req' = req
    BY <1>1
  <2> QED BY <2>1, <2>2, <2>3, <2>4 DEF IInv, Pending0
<1>9. Known'
  BY <1>1 DEF IInv, Known, InUse, Registered, IsServer
<1>10. Births'
  <2>1. ASSUME NEW x \in Ends, Unused(x), x # e PROVE Unused(x)'
    BY <2>1, <1>0, <1>1, Opening DEF Unused, Silent, IsOpen
  <2>2. ASSUME NEW d \in Conns
        PROVE  /\ peer'[<<"net", d>>] = "none" =>
                     /\ Unused(<<"proxy", d>>)' /\ Unused(<<"net", d>>)'
                     /\ peer'[<<"proxy", d>>] = "none"
               /\ peer'[<<"proxy", d>>] = "none" => Unused(<<"proxy", d>>)'
    <3>1. /\ <<"proxy", d>> \in Ends /\ <<"net", d>> \in Ends
          /\ <<"proxy", d>> # e /\ (<<"net", d>> = e <=> d = c)
      BY <1>e, EndOf, Constants
    <3> QED BY <3>1, <2>1, <1>0, <1>1, <1>2, <1>3 DEF ClientBirths
  <2>3. ASSUME NEW d \in Conns, NEW i \in DOMAIN tunnels',
               sock'[tunnels'[i]] = <<"net", d>>
        PROVE  /\ peer'[<<"proxy", d>>] = "none"
               /\ Unused(<<"proxy", d>>)'
               /\ "stale" \notin seen' => Silent(<<"net", d>>)'
    <3>0. /\ <<"proxy", d>> \in Ends /\ <<"proxy", d>> # e
          /\ "stale" \notin seen' => "stale" \notin seen
          /\ peer'[<<"proxy", d>>] = peer[<<"proxy", d>>]
      BY <1>0, <1>1, <1>3, <1>e, EndOf, Constants, Opening
    <3>1. CASE i \in DOMAIN tunnels
      <4>1. tunnels[i] # f /\ tunnels[i] \in Fds
        BY <3>1, <1>0, <1>2, <1>3, Opening DEF ClientBirths
      <4>2. sock[tunnels[i]] = <<"net", d>>
        BY <4>1, <2>3, <3>1, <1>0, <1>4, Opening
      <4> QED BY <4>2, <3>0, <3>1, <2>1, <1>1, <1>2 DEF ClientBirths, Silent
    <3>2. CASE i = Len(tunnels) + 1
      <4>1. <<"net", d>> = e
        BY <3>2, <2>3, <1>0, <1>4, Opening
      <4>2. d = c
        BY <4>1, <1>e
      <4> QED BY <4>1, <4>2, <3>0, <2>1, <1>0, <1>1, <1>2, <1>e DEF Unused, Silent
    <3> QED BY <3>1, <3>2, <1>4
  <2>4. \A i \in DOMAIN tunnels' : tunnels'[i] # NoFd
    BY <1>2, <1>4, Constants DEF ClientBirths
  <2>5. ClientBirths'
    BY <2>2, <2>3, <2>4, <1>1, <1>2 DEF ClientBirths
  <2> QED BY <2>5, <1>1 DEF Births, IsServer
<1>11. Routing'
  <2>1. \A s \in Sides : Routed(s)' \subseteq Routed(s)
    BY <1>1 DEF Routed, InUse, Registered, IsServer
  <2>2. \A s \in Sides : \A h \in Routed(s) : sock[h] # p
    <3>1. \A s \in Sides : \A h \in Routed(s) : h \in Fds
      BY Facts DEF Routed
    <3> QED BY <3>1, <1>2 DEF Unused, IsOpen
  <2> QED BY <2>1, <2>2, <1>0, <1>1, <1>2, OpenRouting DEF Unused
<1>12. Streams' /\ NoMixing'
  <2>1. \A x \in Ends : x # e => peer'[x] = peer[x]
    BY <1>1
  <2> QED BY <2>1, <1>0, <1>1, <1>2, OpenStreams DEF Unused
<1> QED BY <1>5, <1>6, <1>7, <1>8, <1>9, <1>10, <1>11, <1>12 DEF IInv

\* The client is not there: proxyThread gets -1.
LEMMA NoPromiseStep ==
  ASSUME IInv, IsServer, pc["proxy"] = "await", tunnels = <<>>, tunnels' = <<NoFd>>,
         seen' = seen \cup {"absent"},
         UNCHANGED <<listener, sock, peer, sent, taken, got, backlog, loops, maps,
                     actualfds, inserted>>
  PROVE  IInv'
<1> USE DEF loops, maps
<1>0. /\ <<NoFd>> \in Seq(Fds \cup {NoFd}) /\ Len(<<NoFd>>) = 1 /\ <<NoFd>>[1] = NoFd
      /\ DOMAIN <<NoFd>> = {1}
  OBVIOUS
<1>1. Types'
  BY <1>0 DEF IInv, Types, Marks
<1>2. InHand' /\ Sockets' /\ Known' /\ Held'
  BY DEF IInv, InHand, Sockets, Known, Held, IsServer, InUse, Registered
<1>3. Pending0'
  BY <1>0 DEF IInv, Pending0, Registered
<1>4. Births'
  <2>1. ServerBirths
    BY DEF IInv, Births
  <2>2. req \in Conns /\ \A f \in Fds : sock[f] # <<"net", req>>
    <3>1. tunnels # <<>> \/ \A f \in Fds : tunnels # <<f>>
      OBVIOUS
    <3>2. \A f \in Fds : tunnels # <<f>>
      <4>1. \A f : <<>> # <<f>>
        OBVIOUS
      <4> QED BY <4>1
    <3> QED BY <3>2, <2>1 DEF ServerBirths, IInv, InHand, Types
  <2>3. ServerBirths'
    BY <1>0, <2>1, <2>2 DEF ServerBirths, Unused, Silent, IsOpen
  <2> QED BY <2>3 DEF Births, IsServer
<1>5. Routing'
  <2>1. \A s \in Sides : Routed(s)' \subseteq Routed(s)
    BY DEF Routed, InUse, Registered, IsServer
  <2> QED BY <2>1, ClosingRouting
<1>6. Streams' /\ NoMixing'
  BY QuietStreams
<1> QED BY <1>1, <1>2, <1>3, <1>4, <1>5, <1>6 DEF IInv

\* The server's manager fulfils the promise, with a tunnel or -1.
LEMMA PromiseStep ==
  ASSUME IInv, Promise
  PROVE  IInv'
<1> USE DEF loops, maps
<1>1. /\ IsServer /\ pc["proxy"] = "await" /\ tunnels = <<>>
      /\ UNCHANGED <<listener, sent, taken, got, backlog, loops, maps, actualfds,
                     inserted>>
  BY DEF Promise
<1>2. CASE tunnels' = <<NoFd>> /\ seen' = seen \cup {"absent"} /\ UNCHANGED <<sock, peer>>
  BY <1>1, <1>2, NoPromiseStep
<1>3. CASE /\ \E f \in Fds : OpenOn(f, <<"net", req>>, {}) /\ tunnels' = <<f>>
           /\ peer' = [peer EXCEPT ![<<"net", req>>] = "open"]
  <2>f. PICK f \in Fds : OpenOn(f, <<"net", req>>, {}) /\ tunnels' = <<f>>
    BY <1>3
  <2>e. PICK e, p : e = <<"net", req>> /\ p = <<"proxy", req>>
    OBVIOUS
  <2>0. /\ req \in Conns /\ peer' = [peer EXCEPT ![e] = "open"]
        /\ e \in Ends /\ e \in Ends \cup {Misc} /\ {} \in SUBSET Marks
        /\ p = Opposite(e) /\ e \in {"net"} \X Conns
        /\ OpenOn(f, e, {}) /\ p \in Ends /\ p # e
    <3>1. req \in Conns
      BY <1>1 DEF IInv, InHand, Types
    <3> QED BY <3>1, <1>3, <2>e, <2>f, EndOf, Constants
  <2>1. ServerBirths
    BY <1>1 DEF IInv, Births
  <2>2. ~IsOpen(e)
    <3>1. \A g \in Fds : <<>> # <<g>>
      OBVIOUS
    <3> QED BY <3>1, <1>1, <2>1, <2>e DEF ServerBirths, IsOpen
  <2>3. /\ tunnels' \in Seq(Fds \cup {NoFd}) /\ DOMAIN tunnels' = {1} /\ Len(tunnels') = 1
        /\ tunnels'[1] = f /\ tunnels' # <<>> /\ f # NoFd
    BY <2>f, Constants
  <2>4. peer \in [Ends -> {"none", "open", "fin", "rst", "dead"}]
    BY DEF IInv, Types
  <2>5. Types'
    <3>1. sock' \in [Fds -> Ends \cup {Closed, Misc}] /\ seen' \in SUBSET Marks
      BY <2>0, Opening
    <3> QED BY <3>1, <2>0, <1>1, <2>3 DEF IInv, Types
  <2>6. InHand'
    BY <1>1 DEF IInv, InHand, IsServer
  <2>7. Sockets' /\ Held'
    BY <1>1, <2>0, <2>2, OpenSockets
  <2>8. Pending0'
    <3>1. \A i \in DOMAIN actualfds :
             sock'[actualfds[i]] = sock[actualfds[i]] /\ actualfds[i] # f
      <4>1. \A i \in DOMAIN actualfds : actualfds[i] \in Fds
        BY DEF IInv, Types
      <4> QED BY <4>1, <2>0, Opening
    <3>2. sock'[f] = e /\ f \notin Registered(table["net"])
      BY <2>0, Opening, Constants
    <3>3. pc'["proxy"] # "insert"
      BY <1>1
    <3>4. table' = table /\ actualfds' = actualfds
      BY <1>1
    <3> QED BY <3>1, <3>2, <3>3, <3>4, <2>0, <2>3 DEF IInv, Pending0
  <2>9. Known'
    BY <1>1 DEF IInv, Known, InUse, Registered, IsServer
  <2>10. Births'
    <3>1. ASSUME NEW x \in Ends, Unused(x), x # e PROVE Unused(x)'
      BY <3>1, <2>0, <1>1, Opening DEF Unused, Silent, IsOpen
    <3>2. ASSUME NEW d \in Conns, d \in backlog \/ peer'[<<"proxy", d>>] = "none"
          PROVE  Unused(<<"proxy", d>>)' /\ Unused(<<"net", d>>)' /\ req # d
      <4>1. /\ <<"proxy", d>> \in Ends /\ <<"net", d>> \in Ends
            /\ <<"proxy", d>> # e /\ (<<"net", d>> = e <=> d = req)
        BY <2>e, <2>0, EndOf, Constants
      <4>2. d \in backlog \/ peer[<<"proxy", d>>] = "none"
        BY <4>1, <3>2, <2>0, <2>4
      <4> QED BY <4>1, <4>2, <3>1, <2>1 DEF ServerBirths
    <3>3. /\ req \notin backlog /\ peer'[p] # "none"
          /\ \A c \in backlog : peer'[<<"proxy", c>>] # "none"
      <4>1. \A c \in backlog : <<"proxy", c>> \in Ends /\ <<"proxy", c>> # e
        BY <2>e, EndOf, Constants DEF IInv, Types
      <4> QED BY <4>1, <1>1, <2>0, <2>1, <2>4, <2>e DEF ServerBirths
    <3>4. \A g \in Fds : sock'[g] = e => tunnels' = <<g>>
      BY <2>0, <2>2, <2>f, Opening DEF IsOpen
    <3>5. ASSUME "stale" \notin seen'
          PROVE  /\ \A g \in Fds : sock'[g] = p => g = cur["proxy"]
                 /\ sock'[cur["proxy"]] \in {Closed, p}
                 /\ \A s \in Sides : Silent(<<s, req>>)'
      <4>1. "stale" \notin seen /\ cur["proxy"] # f /\ cur["proxy"] \in Fds
        BY <3>5, <1>1, <2>0, Opening, Constants DEF RefersTo, IInv, InHand
      <4>2. /\ \A g \in Fds : sock[g] = p => g = cur["proxy"]
            /\ sock[cur["proxy"]] \in {Closed, p}
            /\ \A s \in Sides : Silent(<<s, req>>)
        BY <4>1, <1>1, <2>1, <2>e DEF ServerBirths
      <4> QED BY <4>1, <4>2, <1>1, <2>0, Opening DEF Silent
    <3>6. sock'[f] = e
      BY <2>0, Opening
    <3>7. ServerBirths'
      <4>1. UNCHANGED <<backlog, req, pc, cur>>
        BY <1>1
      <4> QED BY <4>1, <3>2, <3>3, <3>4, <3>5, <3>6, <1>1, <2>3, <2>e DEF ServerBirths
    <3> QED BY <3>7, <1>1 DEF Births, IsServer
  <2>11. Routing'
    <3>1. \A s \in Sides : Routed(s)' \subseteq Routed(s)
      BY <1>1 DEF Routed, InUse, Registered, IsServer
    <3>2. ASSUME "stale" \notin seen, NEW s \in Sides, NEW h \in Routed(s)
          PROVE  sock[h] # p
      <4>1. h \in Fds /\ h \in InUse(s)
        BY Facts DEF Routed
      <4>2. sock[h] = p => h = cur["proxy"]
        BY <3>2, <4>1, <1>1, <2>1, <2>e DEF ServerBirths
      <4>3. CASE s = "proxy"
        BY <4>2, <4>3, <1>1 DEF Routed
      <4>4. CASE s = "net"
        <5>1. sock[h] \in {"net"} \X Conns
          BY <4>1, <4>4, Facts, Constants DEF InUse, IInv, Pending0
        <5> QED BY <5>1, <2>e
      <4> QED BY <4>3, <4>4, Constants
    <3> QED BY <3>1, <3>2, <1>1, <2>0, <2>2, OpenRouting
  <2>12. Streams' /\ NoMixing'
    <3>1. \A x \in Ends : x # e => peer'[x] = peer[x]
      BY <2>0
    <3>2. "stale" \notin seen => Silent(e) /\ Silent(p)
      BY <1>1, <2>1, <2>e, Constants DEF ServerBirths
    <3> QED BY <3>1, <3>2, <1>1, <2>0, <2>2, OpenStreams
  <2> QED BY <2>5, <2>6, <2>7, <2>8, <2>9, <2>10, <2>11, <2>12 DEF IInv
<1> QED BY <1>2, <1>3 DEF Promise

\* accept, and a promise is pushed.
LEMMA AcceptStep ==
  ASSUME IInv, Accept, UNCHANGED listener
  PROVE  IInv'
<1> USE DEF maps, queues
<1>c. PICK c \in backlog, f \in Fds :
          /\ OpenOn(f, <<"proxy", c>>, {})
          /\ backlog' = backlog \ {c}
          /\ cur' = [cur EXCEPT !["proxy"] = f]
          /\ req' = c
  BY DEF Accept
<1>e. PICK e, p : e = <<"proxy", c>> /\ p = <<"net", c>>
  OBVIOUS
<1>0. /\ c \in Conns /\ e \in Ends /\ e \in Ends \cup {Misc} /\ {} \in SUBSET Marks
      /\ p = Opposite(e) /\ OpenOn(f, e, {}) /\ p \in Ends /\ p # e
  <2>1. c \in Conns
    BY DEF IInv, Types
  <2> QED BY <2>1, <1>c, <1>e, EndOf, Constants
<1>1. /\ pc["proxy"] = "scan" /\ table["proxy"].fd[0] # NoFd
      /\ slot' = [slot EXCEPT !["proxy"] = 1]
      /\ pc' = [pc EXCEPT !["proxy"] = "insert"]
      /\ UNCHANGED <<peer, sent, taken, got, table, rev, maps, queues, inserted>>
  BY DEF Accept, NextWanted, Wanted, Goto
<1>2. /\ IsServer /\ ServerBirths
      /\ Unused(e) /\ Unused(p) /\ peer[e] # "none" /\ tunnels = <<>>
  <2>1. IsServer
    BY <1>1, Constants DEF IInv, Sockets, IsServer
  <2> QED BY <2>1, <1>0, <1>1, <1>e DEF IInv, Births, ServerBirths
<1>3. /\ pc \in [Sides -> Places \cup {"insert", "await"}]
      /\ cur \in [Sides -> Fds \cup {NoFd}] /\ slot \in [Sides -> 0 .. MaxClient]
      /\ backlog \subseteq Conns /\ "proxy" \in Sides /\ "net" \in Sides
  BY Constants DEF IInv, Types
<1>4. /\ pc'["proxy"] = "insert" /\ pc'["net"] = pc["net"]
      /\ cur'["proxy"] = f /\ cur'["net"] = cur["net"]
      /\ \A s \in Sides : s = "proxy" \/ s = "net"
  BY <1>1, <1>3, <1>c, Constants
<1>5. Types'
  <2>1. sock' \in [Fds -> Ends \cup {Closed, Misc}] /\ seen' \in SUBSET Marks
    BY <1>0, Opening
  <2>2. slot' \in [Sides -> 0 .. MaxClient]
    BY <1>1, <1>3, MaxClientAssumption
  <2> QED BY <2>1, <2>2, <1>0, <1>1, <1>3, <1>c DEF IInv, Types
<1>6. InHand'
  <2>1. c # NoConn
    BY <1>0, TcpServerAssumption
  <2>2. slot'["net"] = slot["net"]
    BY <1>1, <1>3
  <2> QED BY <2>1, <2>2, <1>2, <1>4, <1>c DEF IInv, InHand, IsServer
<1>7. Sockets' /\ Held'
  <2>1. \A s \in Sides : pc'[s] \in {"read", "blocked", "write"} =>
                             pc'[s] = pc[s] /\ cur'[s] = cur[s]
    BY <1>4
  <2> QED BY <2>1, <1>0, <1>1, <1>2, OpenSockets DEF Unused
<1>8. Pending0'
  <2>1. \A i \in DOMAIN actualfds : sock'[actualfds[i]] = sock[actualfds[i]]
    <3>1. \A i \in DOMAIN actualfds : actualfds[i] \in Fds
      BY DEF IInv, Types
    <3> QED BY <3>1, <1>0, Opening
  <2>2. sock'[f] = e /\ f \notin Registered(table["proxy"])
    BY <1>0, <1>3, Opening
  <2>3. table' = table /\ actualfds' = actualfds /\ tunnels' = <<>>
    BY <1>1, <1>2
  <2> QED BY <2>1, <2>2, <2>3, <1>4, <1>c, <1>e DEF IInv, Pending0
<1>8a. InUse("net")' = InUse("net") /\ InUse("proxy")' = InUse("proxy")
  BY <1>1, <1>2, <1>4 DEF InUse, Registered, IsServer
<1>9. Known'
  BY <1>1, <1>4, <1>8a DEF IInv, Known, IsServer
<1>10. Births'
  <2>1. ASSUME NEW x \in Ends, Unused(x), x # e PROVE Unused(x)'
    BY <2>1, <1>0, <1>1, Opening DEF Unused, Silent, IsOpen
  <2>2. ASSUME NEW d \in Conns, d \in backlog' \/ peer'[<<"proxy", d>>] = "none"
        PROVE  Unused(<<"proxy", d>>)' /\ Unused(<<"net", d>>)' /\ req' # d
    <3>1. /\ <<"proxy", d>> \in Ends /\ <<"net", d>> \in Ends
          /\ <<"net", d>> # e
      BY <1>e, EndOf, Constants
    <3>2. d # c /\ <<"proxy", d>> # e
      BY <2>2, <1>1, <1>2, <1>c, <1>e
    <3>3. d \in backlog \/ peer[<<"proxy", d>>] = "none"
      BY <2>2, <1>1, <1>c
    <3> QED BY <3>1, <3>2, <3>3, <2>1, <1>2, <1>c DEF ServerBirths
  <2>3. \A d \in backlog' : peer'[<<"proxy", d>>] # "none"
    BY <1>1, <1>2, <1>c DEF ServerBirths
  <2>4. /\ req' \notin backlog' /\ peer'[<<"proxy", req'>>] # "none"
        /\ \A g \in Fds : sock'[g] # <<"net", req'>>
    <3>1. \A g \in Fds : sock'[g] # p
      BY <1>0, <1>2, Opening DEF Unused, IsOpen
    <3> QED BY <3>1, <1>1, <1>2, <1>c, <1>e
  <2>5. /\ \A g \in Fds : sock'[g] = <<"proxy", req'>> => g = cur'["proxy"]
        /\ sock'[cur'["proxy"]] = <<"proxy", req'>>
    BY <1>0, <1>2, <1>4, <1>c, <1>e, Opening DEF Unused, IsOpen
  <2>6. \A s \in Sides : Silent(<<s, req>>)'
    <3>1. Silent(e)' /\ Silent(p)'
      BY <1>1, <1>2 DEF Unused, Silent
    <3> QED BY <3>1, <1>4, <1>c, <1>e
  <2>7. tunnels' = <<>> /\ Len(<<>>) <= 1
    BY <1>1, <1>2
  <2>8. ServerBirths'
    BY <2>2, <2>3, <2>4, <2>5, <2>6, <2>7 DEF ServerBirths, Silent
  <2> QED BY <2>8, <1>2 DEF Births, IsServer
<1>11. Routing'
  <2>1. \A s \in Sides : Routed(s)' \subseteq Routed(s)
    BY <1>1, <1>4, <1>8a DEF Routed
  <2>2. \A s \in Sides : \A h \in Routed(s) : sock[h] # p
    <3>1. \A s \in Sides : \A h \in Routed(s) : h \in Fds
      BY Facts DEF Routed
    <3> QED BY <3>1, <1>2 DEF Unused, IsOpen
  <2> QED BY <2>1, <2>2, <1>0, <1>1, <1>2, OpenRouting DEF Unused
<1>12. Streams' /\ NoMixing'
  <2>1. peer' = peer
    BY <1>1
  <2> QED BY <2>1, <1>0, <1>1, <1>2, OpenStreams DEF Unused
<1> QED BY <1>5, <1>6, <1>7, <1>8, <1>9, <1>10, <1>11, <1>12 DEF IInv

\* The client connects to its service for the next tunnel.
LEMMA ConnectServiceStep ==
  ASSUME IInv, ~IsServer, pc["proxy"] = "dispatch", tunnels # <<>>,
         tunnels' = Tail(tunnels), NEW f \in Fds, NEW c, c = sock[Head(tunnels)][2],
         OpenOn(f, <<"proxy", c>>, {}),
         peer' = [peer EXCEPT ![<<"proxy", c>>] = "open"],
         Couple(f, Head(tunnels)), cur' = [cur EXCEPT !["proxy"] = f], req' = c,
         Goto("proxy", "insert"),
         UNCHANGED <<listener, sent, taken, got, backlog, table, rev, slot, buffer,
                     removed, inserted>>
  PROVE  IInv'
<1>g. PICK g : g = Head(tunnels)
  OBVIOUS
<1>e. PICK e, p : e = <<"proxy", c>> /\ p = <<"net", c>>
  OBVIOUS
<1>t. /\ tunnels \in Seq(Fds \cup {NoFd}) /\ actualfds \in Seq(Fds)
      /\ pc \in [Sides -> Places \cup {"insert", "await"}]
      /\ cur \in [Sides -> Fds \cup {NoFd}] /\ slot \in [Sides -> 0 .. MaxClient]
      /\ partner \in [Sides -> [Fds -> Fds]]
      /\ peer \in [Ends -> {"none", "open", "fin", "rst", "dead"}]
      /\ "proxy" \in Sides /\ "net" \in Sides
      /\ \A s \in Sides : s = "proxy" \/ s = "net"
  BY Constants DEF IInv, Types
<1>s. /\ g = tunnels[1] /\ 1 \in DOMAIN tunnels /\ DOMAIN tunnels = 1 .. Len(tunnels)
      /\ tunnels' \in Seq(Fds \cup {NoFd})
      /\ DOMAIN tunnels' = 1 .. Len(tunnels) - 1
      /\ \A i \in DOMAIN tunnels' : /\ i + 1 \in DOMAIN tunnels /\ i + 1 # 1
                                    /\ tunnels'[i] = tunnels[i + 1]
  BY <1>t, <1>g
<1>b. ClientBirths /\ g \in Fds /\ g # NoFd
  <2>1. ClientBirths
    BY DEF IInv, Births
  <2>2. g \in Fds \cup {NoFd}
    BY <1>t, <1>s
  <2>3. g # NoFd
    BY <2>1, <1>s DEF ClientBirths
  <2> QED BY <2>1, <2>2, <2>3
<1>0. /\ c \in Conns /\ e \in Ends /\ e \in Ends \cup {Misc} /\ {} \in SUBSET Marks
      /\ p = Opposite(e) /\ OpenOn(f, e, {}) /\ p \in Ends /\ p # e /\ e = Opposite(p)
      /\ sock[g] = p /\ peer' = [peer EXCEPT ![e] = "open"]
  <2>1. sock[g] \in {"net"} \X Conns
    BY <1>b, <1>s DEF IInv, Pending0
  <2>2. sock[g] = <<"net", sock[g][2]>> /\ sock[g][2] \in Conns
    BY <2>1
  <2> QED BY <2>2, <1>g, <1>e, EndOf, Constants
<1>1. /\ peer[e] = "none" /\ Unused(e) /\ ("stale" \notin seen => Silent(p))
      /\ IsOpen(p)
  BY <1>0, <1>b, <1>s, <1>e DEF ClientBirths, IsOpen
<1>2. /\ f # g /\ f # 0 /\ f # NoFd /\ sock'[f] = e /\ sock'[g] = p
      /\ g \notin InUse("net") /\ f \notin InUse("net")
      /\ \A i \in DOMAIN actualfds : actualfds[i] # g
      /\ g \notin Registered(table["net"])
  <2>1. /\ g \notin Registered(table["net"])
        /\ \A i \in DOMAIN actualfds : actualfds[i] # g
    BY <1>b, <1>s DEF IInv, Pending0
  <2>2. g \notin InUse("net")
    BY <2>1, Constants DEF InUse
  <2> QED BY <2>1, <2>2, <1>0, <1>b, <1>s, Opening, Constants
<1>r. ASSUME NEW i \in DOMAIN tunnels
      PROVE  tunnels[i] \in Fds /\ tunnels[i] # NoFd /\ tunnels[i] # f
  <2>1. tunnels[i] \in Fds \cup {NoFd}
    BY <1>t
  <2>2. tunnels[i] # NoFd
    BY <1>b DEF ClientBirths
  <2>3. tunnels[i] # f
    BY <1>0, Opening
  <2> QED BY <2>1, <2>2, <2>3
<1>3. /\ pc'["proxy"] = "insert" /\ pc'["net"] = pc["net"]
      /\ cur'["proxy"] = f /\ cur'["net"] = cur["net"]
      /\ pc' \in [Sides -> Places \cup {"insert", "await"}]
      /\ cur' \in [Sides -> Fds \cup {NoFd}]
  BY <1>t DEF Goto
<1>4. /\ partner' \in [Sides -> [Fds -> Fds]]
      /\ partner'["proxy"][f] = g /\ partner'["net"][g] = f
      /\ \A h \in Fds : h # f => partner'["proxy"][h] = partner["proxy"][h]
      /\ \A h \in Fds : h # g => partner'["net"][h] = partner["net"][h]
  BY <1>t, <1>b, <1>g DEF Couple
<1>5. /\ actualfds' \in Seq(Fds) /\ DOMAIN actualfds' = 1 .. Len(actualfds) + 1
      /\ DOMAIN actualfds = 1 .. Len(actualfds)
      /\ actualfds'[Len(actualfds) + 1] = g
      /\ \A i \in DOMAIN actualfds : actualfds'[i] = actualfds[i]
      /\ \A i \in DOMAIN actualfds' : i \in DOMAIN actualfds \/ i = Len(actualfds) + 1
      /\ \A i \in DOMAIN actualfds : i \in DOMAIN actualfds'
      /\ Len(actualfds) + 1 \in DOMAIN actualfds'
  <2>1. actualfds' = Append(actualfds, g)
    BY <1>g DEF Couple
  <2> QED BY <2>1, <1>t, <1>b
<1>6. Types'
  <2>1. sock' \in [Fds -> Ends \cup {Closed, Misc}] /\ seen' \in SUBSET Marks
    BY <1>0, Opening
  <2> QED BY <2>1, <1>0, <1>s, <1>3, <1>4, <1>5, <1>t DEF IInv, Types
<1>7. InHand'
  <2>1. c # NoConn
    BY <1>0, TcpServerAssumption
  <2> QED BY <2>1, <1>3, <1>t DEF IInv, InHand, IsServer
<1>8. Sockets' /\ Held'
  <2>1. \A s \in Sides : pc'[s] \in {"read", "blocked", "write"} =>
                             pc'[s] = pc[s] /\ cur'[s] = cur[s]
    BY <1>3, <1>t
  <2> QED BY <2>1, <1>0, <1>1, OpenSockets DEF Unused
<1>9. Pending0'
  <2>1. ASSUME NEW i \in DOMAIN tunnels'
        PROVE  /\ sock'[tunnels'[i]] \in {"net"} \X Conns
               /\ tunnels'[i] \notin Registered(table["net"])
               /\ \A j \in DOMAIN actualfds' : actualfds'[j] # tunnels'[i]
               /\ \A j \in DOMAIN tunnels' : tunnels'[i] = tunnels'[j] => i = j
    <3>1. tunnels[i + 1] \in Fds /\ tunnels[i + 1] # NoFd /\ tunnels[i + 1] # f
      BY <1>s, <1>r
    <3>2. /\ sock[tunnels[i + 1]] \in {"net"} \X Conns
          /\ tunnels[i + 1] \notin Registered(table["net"])
          /\ \A j \in DOMAIN actualfds : actualfds[j] # tunnels[i + 1]
          /\ \A j \in DOMAIN tunnels : tunnels[i + 1] = tunnels[j] => i + 1 = j
      BY <3>1, <1>s DEF IInv, Pending0
    <3>3. tunnels[i + 1] # g
      BY <3>2, <1>s
    <3>4. sock'[tunnels[i + 1]] = sock[tunnels[i + 1]]
      BY <3>1, <1>0, Opening
    <3>5. \A j \in DOMAIN tunnels' : tunnels[i + 1] = tunnels[j + 1] => i = j
      <4>1. \A j \in DOMAIN tunnels' : j \in Int
        BY <1>s
      <4> QED BY <4>1, <3>2, <1>s
    <3> QED BY <3>2, <3>3, <3>4, <3>5, <1>s, <1>5
  <2>2. ASSUME NEW i \in DOMAIN actualfds'
        PROVE  /\ sock'[actualfds'[i]] \in {"net"} \X Conns
               /\ actualfds'[i] \notin Registered(table["net"])
               /\ \A j \in DOMAIN actualfds' : actualfds'[i] = actualfds'[j] => i = j
    <3>1. CASE i \in DOMAIN actualfds
      <4>1. actualfds[i] \in Fds /\ actualfds[i] # f /\ actualfds[i] # g
        BY <3>1, <1>t, <1>0, <1>2, Opening
      <4>2. sock'[actualfds[i]] = sock[actualfds[i]]
        BY <4>1, <1>0, Opening
      <4> QED BY <4>1, <4>2, <3>1, <1>5 DEF IInv, Pending0
    <3>2. CASE i = Len(actualfds) + 1
      <4>1. \A j \in DOMAIN actualfds' : actualfds'[j] = g => j = i
        BY <3>2, <1>2, <1>5
      <4>2. p \in {"net"} \X Conns
        BY <1>0, <1>e, EndOf, Constants
      <4> QED BY <4>1, <4>2, <3>2, <1>2, <1>5
    <3> QED BY <3>1, <3>2, <1>5
  <2>3. /\ sock'[cur'["proxy"]] = <<"proxy", req'>>
        /\ cur'["proxy"] \notin Registered(table["proxy"])
    BY <1>0, <1>2, <1>3, <1>e, <1>t, Opening
  <2> QED BY <2>1, <2>2, <2>3 DEF Pending0
<1>10. /\ InUse("net")' = InUse("net") \cup {g}
       /\ InUse("proxy")' = InUse("proxy") \cup {f}
       /\ InUse("proxy") = Registered(table["proxy"])
       /\ Routed("proxy") = InUse("proxy") /\ Routed("net") = InUse("net")
       /\ Routed("proxy")' = InUse("proxy")' /\ Routed("net")' = InUse("net")'
  <2>1. {actualfds'[i] : i \in DOMAIN actualfds'}
           = {actualfds[i] : i \in DOMAIN actualfds} \cup {g}
    BY <1>5
  <2>2. ~IsServer' /\ Registered(table["net"])' = Registered(table["net"])
        /\ Registered(table["proxy"])' = Registered(table["proxy"])
    BY DEF IsServer, Registered
  <2>3. InUse("net")' = InUse("net") \cup {g}
    BY <2>1, <2>2 DEF InUse
  <2>4. InUse("proxy") = Registered(table["proxy"])
    BY DEF InUse
  <2>5. InUse("proxy")' = Registered(table["proxy"])' \cup {f}
    BY <2>2, <1>3 DEF InUse
  <2> QED BY <2>2, <2>3, <2>4, <2>5, <1>3 DEF Routed
<1>11. Known'
  <2>1. \A h \in InUse("net")' : partner'["net"][h] # 0
    <3>1. \A h \in InUse("net") : h \in Fds
      BY Facts, <1>t
    <3> QED BY <3>1, <1>2, <1>4, <1>10 DEF IInv, Known
  <2>2. pc'["net"] \in {"read", "blocked"} => partner'["net"][cur'["net"]] # 0
    <3>1. pc["net"] \in {"read", "blocked"} => cur["net"] \in Fds
      BY <1>t DEF IInv, InHand
    <3> QED BY <3>1, <1>2, <1>3, <1>4 DEF IInv, Known
  <2>3. \A s \in Sides : pc'[s] \in {"read", "blocked", "write"} /\ cur'[s] # NoFd
                            => cur'[s] \in inserted'[s]
    BY <1>3, <1>t DEF IInv, Known
  <2>4. pc'["net"] = "lost" => cur'["net"] # 0
    BY <1>3 DEF IInv, Known
  <2>5. ~IsServer'
    BY DEF IsServer
  <2> QED BY <2>1, <2>2, <2>3, <2>4, <2>5 DEF Known
<1>12. Births'
  <2>1. ASSUME NEW x \in Ends, Unused(x), x # e PROVE Unused(x)'
    BY <2>1, <1>0, Opening DEF Unused, Silent, IsOpen
  <2>2. ASSUME NEW d \in Conns
        PROVE  /\ peer'[<<"net", d>>] = "none" =>
                     /\ Unused(<<"proxy", d>>)' /\ Unused(<<"net", d>>)'
                     /\ peer'[<<"proxy", d>>] = "none"
               /\ peer'[<<"proxy", d>>] = "none" => Unused(<<"proxy", d>>)'
    <3>1. /\ <<"proxy", d>> \in Ends /\ <<"net", d>> \in Ends
          /\ <<"net", d>> # e /\ (<<"proxy", d>> = e <=> d = c)
          /\ <<"net", c>> = p
      BY <1>e, EndOf, Constants
    <3>2. /\ peer'[<<"net", d>>] = peer[<<"net", d>>]
          /\ d # c => peer'[<<"proxy", d>>] = peer[<<"proxy", d>>]
          /\ peer'[e] = "open" /\ peer[p] # "none"
      <4>1. peer[p] # "none"
        BY <1>0, <1>1, <1>b, <1>e DEF ClientBirths, Unused
      <4> QED BY <4>1, <3>1, <1>0, <1>t
    <3> QED BY <3>1, <3>2, <2>1, <1>b DEF ClientBirths
  <2>3. ASSUME NEW d \in Conns, NEW i \in DOMAIN tunnels',
               sock'[tunnels'[i]] = <<"net", d>>
        PROVE  /\ peer'[<<"proxy", d>>] = "none"
               /\ Unused(<<"proxy", d>>)'
               /\ "stale" \notin seen' => Silent(<<"net", d>>)'
    <3>1. tunnels[i + 1] \in Fds /\ tunnels[i + 1] # NoFd /\ tunnels[i + 1] # f
      BY <1>s, <1>r
    <3>2. tunnels[i + 1] # g
      BY <3>1, <1>s DEF IInv, Pending0
    <3>3. sock[tunnels[i + 1]] = <<"net", d>>
      BY <3>1, <2>3, <1>0, <1>s, Opening
    <3>4. d # c
      <4> SUFFICES ASSUME d = c PROVE FALSE
        OBVIOUS
      <4>1. sock[tunnels[i + 1]] = sock[g] /\ sock[g] \in Ends
        BY <3>3, <1>0, <1>e
      <4> QED BY <4>1, <3>1, <3>2, <1>b, OneSocket
    <3>5. <<"proxy", d>> \in Ends /\ <<"proxy", d>> # e
      BY <3>4, <1>e, EndOf, Constants
    <3>6. /\ peer[<<"proxy", d>>] = "none" /\ Unused(<<"proxy", d>>)
          /\ "stale" \notin seen => Silent(<<"net", d>>)
      BY <3>3, <1>b, <1>s DEF ClientBirths
    <3>7. "stale" \notin seen' => "stale" \notin seen
      BY <1>0, Opening
    <3> QED BY <3>5, <3>6, <3>7, <2>1, <1>0, <1>t DEF Silent
  <2>4. backlog' = {} /\ \A i \in DOMAIN tunnels' : tunnels'[i] # NoFd
    BY <1>b, <1>s DEF ClientBirths
  <2>5. ClientBirths'
    BY <2>2, <2>3, <2>4 DEF ClientBirths
  <2> QED BY <2>5 DEF Births, IsServer
<1>13. Routing'
  <2> SUFFICES ASSUME "stale" \notin seen', NEW s \in Sides, NEW h \in Routed(s)',
                      sock'[h] \in Ends
               PROVE  LET there == sock'[partner'[s][h]] IN
                      /\ there \in Ends => there = Opposite(sock'[h])
                      /\ (\E x \in Fds : sock'[x] = Opposite(sock'[h]))
                            => there = Opposite(sock'[h])
    BY DEF Routing, IsOpen
  <2>1. "stale" \notin seen /\ ~RefersTo(f)
    BY <1>0, Opening
  <2>2. CASE s = "proxy" /\ h = f
    BY <2>2, <1>0, <1>2, <1>4
  <2>3. CASE s = "net" /\ h = g
    BY <2>3, <1>0, <1>2, <1>4
  <2>4. CASE h \in Routed(s) /\ ~(s = "proxy" /\ h = f) /\ ~(s = "net" /\ h = g)
    <3>1. h \in Fds /\ h \in InUse(s) /\ partner[s][h] \in Fds /\ h # f
      BY <2>4, <1>2, <1>10, <1>t, Facts
    <3>2. partner'[s][h] = partner[s][h]
      BY <2>4, <3>1, <1>4, <1>t
    <3>3. partner[s][h] # f
      BY <2>1, <2>4, <3>1 DEF RefersTo
    <3>4. sock'[h] = sock[h] /\ sock'[partner[s][h]] = sock[partner[s][h]]
      BY <3>1, <3>3, <1>0, Opening
    <3>5. /\ sock[partner[s][h]] \in Ends => sock[partner[s][h]] = Opposite(sock[h])
          /\ IsOpen(Opposite(sock[h])) => sock[partner[s][h]] = Opposite(sock[h])
      BY <2>1, <2>4, <3>4 DEF IInv, Routing
    <3>6. h # g
      <4>1. CASE s = "net"
        BY <4>1, <2>4
      <4>2. CASE s = "proxy"
        <5>1. sock[h] \in ({"proxy"} \X Conns) \cup {Misc}
          BY <4>2, <3>1, <1>10, <1>t, Facts
        <5> QED BY <5>1, <1>0, <1>e, EndOf, Constants
      <4> QED BY <4>1, <4>2, <1>t
    <3>7. sock[h] # p
      BY <3>1, <3>6, <1>0, <1>b, OneSocket
    <3>8. ASSUME NEW x \in Fds, sock'[x] = Opposite(sock[h])
          PROVE  sock[partner[s][h]] = Opposite(sock[h])
      <4>1. x # f
        <5> SUFFICES ASSUME x = f PROVE FALSE
          OBVIOUS
        <5>1. e = Opposite(sock[h])
          BY <3>8, <1>2
        <5>2. Opposite(Opposite(sock[h])) = sock[h]
          BY <3>4, Constants DEF Opposite, Ends
        <5> QED BY <5>1, <5>2, <3>7, <1>0
      <4>2. sock[x] = Opposite(sock[h])
        BY <4>1, <3>8, <1>0, Opening
      <4> QED BY <4>2, <3>5 DEF IsOpen
    <3> QED BY <3>2, <3>4, <3>5, <3>8
  <2> QED BY <2>2, <2>3, <2>4, <1>10, <1>t
<1>14. Streams' /\ NoMixing'
  <2>1. \A x \in Ends : x # e => peer'[x] = peer[x]
    BY <1>0, SMTT(30)
  <2> QED BY <2>1, <1>0, <1>1, OpenStreams DEF Unused
<1> QED BY <1>6, <1>7, <1>8, <1>9, <1>11, <1>12, <1>13, <1>14 DEF IInv

\* The local service is not there: a descriptor is lost.
LEMMA ConnectFailsStep ==
  ASSUME IInv, ~IsServer, pc["proxy"] = "dispatch", tunnels # <<>>,
         tunnels' = Tail(tunnels), NEW f \in Fds, OpenOn(f, Misc, {"absent"}),
         Goto("proxy", "scan"),
         UNCHANGED <<listener, sent, taken, got, backlog, table, rev, slot, buffer,
                     removed, inserted, peer, cur, req, partner, actualfds>>
  PROVE  IInv'
<1>t. /\ tunnels \in Seq(Fds \cup {NoFd}) /\ pc \in [Sides -> Places \cup {"insert", "await"}]
      /\ actualfds \in Seq(Fds)
      /\ "proxy" \in Sides /\ "net" \in Sides
      /\ \A s \in Sides : s = "proxy" \/ s = "net"
  BY Constants DEF IInv, Types
<1>s. /\ DOMAIN tunnels = 1 .. Len(tunnels)
      /\ tunnels' \in Seq(Fds \cup {NoFd})
      /\ DOMAIN tunnels' = 1 .. Len(tunnels) - 1
      /\ \A i \in DOMAIN tunnels' : /\ i + 1 \in DOMAIN tunnels /\ i \in Int
                                    /\ tunnels'[i] = tunnels[i + 1]
  BY <1>t
<1>0. Misc \in Ends \cup {Misc} /\ {"absent"} \in SUBSET Marks /\ Misc \notin Ends
  BY Constants DEF Marks
<1>b. ClientBirths
  BY DEF IInv, Births
<1>r. ASSUME NEW i \in DOMAIN tunnels
      PROVE  tunnels[i] \in Fds /\ tunnels[i] # NoFd /\ sock'[tunnels[i]] = sock[tunnels[i]]
  <2>1. tunnels[i] \in Fds \cup {NoFd}
    BY <1>t
  <2>2. tunnels[i] # NoFd
    BY <1>b DEF ClientBirths
  <2>3. tunnels[i] # f
    BY <1>0, Opening
  <2> QED BY <2>1, <2>2, <2>3, <1>0, Opening
<1>3. pc'["proxy"] = "scan" /\ pc'["net"] = pc["net"]
      /\ pc' \in [Sides -> Places \cup {"insert", "await"}]
  BY <1>t DEF Goto, Places
<1>4. Types'
  <2>1. sock' \in [Fds -> Ends \cup {Closed, Misc}] /\ seen' \in SUBSET Marks
    BY <1>0, Opening
  <2> QED BY <2>1, <1>s, <1>3 DEF IInv, Types
<1>5. InHand'
  BY <1>3, <1>t DEF IInv, InHand, IsServer
<1>6. Sockets' /\ Held'
  <2>1. \A s \in Sides : pc'[s] \in {"read", "blocked", "write"} =>
                             pc'[s] = pc[s] /\ cur'[s] = cur[s]
    BY <1>3, <1>t
  <2> QED BY <2>1, <1>0, OpenSockets
<1>7. Pending0'
  <2>1. ASSUME NEW i \in DOMAIN tunnels'
        PROVE  /\ sock'[tunnels'[i]] \in {"net"} \X Conns
               /\ tunnels'[i] \notin Registered(table["net"])
               /\ \A j \in DOMAIN actualfds : actualfds[j] # tunnels'[i]
               /\ \A j \in DOMAIN tunnels' : tunnels'[i] = tunnels'[j] => i = j
    <3>1. i + 1 \in DOMAIN tunnels /\ tunnels[i + 1] # NoFd /\ tunnels'[i] = tunnels[i + 1]
          /\ sock'[tunnels[i + 1]] = sock[tunnels[i + 1]]
      BY <1>s, <1>r
    <3>2. /\ sock[tunnels[i + 1]] \in {"net"} \X Conns
          /\ tunnels[i + 1] \notin Registered(table["net"])
          /\ \A j \in DOMAIN actualfds : actualfds[j] # tunnels[i + 1]
          /\ \A j \in DOMAIN tunnels : tunnels[i + 1] = tunnels[j] => i + 1 = j
      BY <3>1 DEF IInv, Pending0
    <3>3. \A j \in DOMAIN tunnels' : tunnels[i + 1] = tunnels[j + 1] => i = j
      BY <3>2, <1>s
    <3> QED BY <3>1, <3>2, <3>3, <1>s
  <2>2. \A i \in DOMAIN actualfds : sock'[actualfds[i]] = sock[actualfds[i]]
    BY <1>0, <1>t, Opening
  <2> QED BY <2>1, <2>2, <1>3 DEF IInv, Pending0
<1>8. InUse("net")' = InUse("net") /\ InUse("proxy")' = InUse("proxy")
  BY <1>3 DEF InUse, Registered, IsServer
<1>9. Known'
  BY <1>3, <1>8, <1>t DEF IInv, Known, IsServer
<1>10. Births'
  <2>1. ASSUME NEW x \in Ends, Unused(x) PROVE Unused(x)'
    BY <2>1, <1>0, Opening DEF Unused, Silent, IsOpen
  <2>2. ASSUME NEW d \in Conns
        PROVE  /\ peer'[<<"net", d>>] = "none" =>
                     /\ Unused(<<"proxy", d>>)' /\ Unused(<<"net", d>>)'
                     /\ peer'[<<"proxy", d>>] = "none"
               /\ peer'[<<"proxy", d>>] = "none" => Unused(<<"proxy", d>>)'
    BY <2>1, <1>b, EndOf, <1>t DEF ClientBirths
  <2>3. ASSUME NEW d \in Conns, NEW i \in DOMAIN tunnels',
               sock'[tunnels'[i]] = <<"net", d>>
        PROVE  /\ peer'[<<"proxy", d>>] = "none"
               /\ Unused(<<"proxy", d>>)'
               /\ "stale" \notin seen' => Silent(<<"net", d>>)'
    <3>1. i + 1 \in DOMAIN tunnels /\ sock[tunnels[i + 1]] = <<"net", d>>
      BY <1>s, <1>r, <2>3
    <3>2. /\ peer[<<"proxy", d>>] = "none" /\ Unused(<<"proxy", d>>)
          /\ "stale" \notin seen => Silent(<<"net", d>>)
      BY <3>1, <1>b DEF ClientBirths
    <3>3. "stale" \notin seen' => "stale" \notin seen
      BY <1>0, Opening
    <3> QED BY <3>2, <3>3, <2>1, EndOf, <1>t DEF Silent
  <2>4. backlog' = {} /\ \A i \in DOMAIN tunnels' : tunnels'[i] # NoFd
    BY <1>b, <1>s, <1>r DEF ClientBirths
  <2>5. ClientBirths'
    BY <2>2, <2>3, <2>4 DEF ClientBirths
  <2> QED BY <2>5 DEF Births, IsServer
<1>11. Routing'
  <2>1. \A s \in Sides : Routed(s)' \subseteq Routed(s)
    BY <1>3, <1>8, <1>t DEF Routed
  <2> QED BY <2>1, <1>0, OpenRouting
<1>12. Streams' /\ NoMixing'
  BY <1>0, OpenStreams
<1> QED BY <1>4, <1>5, <1>6, <1>7, <1>9, <1>10, <1>11, <1>12 DEF IInv

\* There is nothing to set up.
LEMMA NothingNew ==
  ASSUME IInv, NEW s \in Sides, pc[s] = "dispatch", Goto(s, "scan"),
         UNCHANGED <<listener, kernel, table, rev, slot, cur, req, maps, queues,
                     inserted, seen>>
  PROVE  IInv'
<1> USE DEF kernel, maps, queues
<1>1. cur = [cur EXCEPT ![s] = cur[s]] /\ cur[s] \in Fds \cup {NoFd}
      /\ "scan" \in Places
  BY DEF IInv, Types, Places
<1>2. QuietStep(s, {}, "scan", cur[s])
  BY <1>1, NothingGone DEF QuietStep, LoopStep, Goes, Goto
<1>3. Types'
  BY <1>1, <1>2, LoopTypes DEF IInv, Types, QuietStep
<1> QED BY <1>1, <1>2, <1>3, QuietDone

\* The client connects to the local service.
LEMMA ConnectStep ==
  ASSUME IInv, Connect, UNCHANGED listener
  PROVE  IInv'
<1>1. /\ pc["proxy"] = "dispatch" /\ ~IsServer
      /\ UNCHANGED <<sent, taken, got, backlog, table, rev, slot, buffer, removed,
                     inserted>>
  BY DEF Connect
<1>2. CASE /\ tunnels = <<>> /\ Goto("proxy", "scan")
           /\ UNCHANGED <<sock, peer, cur, req, partner, queues, seen>>
  BY <1>1, <1>2, NothingNew, Constants DEF kernel, maps, queues
<1>3. CASE tunnels # <<>> /\ tunnels' = Tail(tunnels) /\
           \E f \in Fds : LET c == sock[Head(tunnels)][2] IN
                /\ OpenOn(f, <<"proxy", c>>, {})
                /\ peer' = [peer EXCEPT ![<<"proxy", c>>] = "open"]
                /\ Couple(f, Head(tunnels))
                /\ cur' = [cur EXCEPT !["proxy"] = f]
                /\ req' = c
                /\ Goto("proxy", "insert")
  BY <1>1, <1>3, ConnectServiceStep
<1>4. CASE tunnels # <<>> /\ tunnels' = Tail(tunnels) /\
           \E f \in Fds :
                /\ OpenOn(f, Misc, {"absent"})
                /\ Goto("proxy", "scan")
                /\ UNCHANGED <<peer, cur, req, partner, actualfds>>
  BY <1>1, <1>4, ConnectFailsStep
<1> QED BY <1>2, <1>3, <1>4 DEF Connect

\* insert of a socket of side s that is not registered.
LEMMA Inserting ==
  ASSUME IInv, NEW s \in Sides, NEW f \in Fds, sock[f] \in {s} \X Conns,
         f \notin Registered(table[s]), InsertInto(s, f), UNCHANGED listener
  PROVE  /\ Sockets' /\ table' \in [Sides -> Tables]
         /\ \A o \in Sides : TableOK(table'[o])
         /\ sock' \in [Fds -> Ends \cup {Closed, Misc}]
         /\ \A g \in Fds : /\ sock'[g] \in {sock[g], Closed}
                           /\ g # f => sock'[g] = sock[g]
         /\ \A o \in Sides : /\ Registered(table[o]) \subseteq Registered(table[o])'
                             /\ o # s => Registered(table[o])' = Registered(table[o])
         /\ Registered(table[s])' \subseteq Registered(table[s]) \cup {f}
         /\ inserted' \in [Sides -> SUBSET Fds] /\ f \in inserted'[s]
         /\ \A o \in Sides : inserted[o] \subseteq inserted'[o]
         /\ seen' \in SUBSET Marks /\ ("stale" \in seen' <=> "stale" \in seen)
<1>0. /\ table \in [Sides -> Tables] /\ \A o \in Sides : TableOK(table[o])
      /\ sock \in [Fds -> Ends \cup {Closed, Misc}]
      /\ inserted \in [Sides -> SUBSET Fds] /\ seen \in SUBSET Marks
  BY DEF IInv, Types
<1>1. inserted' = [inserted EXCEPT ![s] = @ \cup {f}]
  BY DEF InsertInto
<1>2. /\ inserted' \in [Sides -> SUBSET Fds] /\ f \in inserted'[s]
      /\ \A o \in Sides : inserted[o] \subseteq inserted'[o]
      /\ \A o \in Sides : 0 \notin inserted'[o]
  <2>1. f # 0
    BY EndsOfSide, Constants DEF IInv, Sockets
  <2> QED BY <2>1, <1>0, <1>1 DEF IInv, Sockets
<1>3. \A o \in Sides : o # s => f \notin Registered(table[o])
  <2> SUFFICES ASSUME NEW o \in Sides, o # s, f \in Registered(table[o]) PROVE FALSE
    OBVIOUS
  <2>1. sock[f] \in ({o} \X Conns) \cup {Misc}
    BY Facts
  <2> QED BY <2>1, EndsOfSide
<1>4. CASE /\ \E i \in Slots :
                 /\ Placed(s, i)
                 /\ table' = [table EXCEPT ![s] = InsertAt(@, i, f)]
           /\ UNCHANGED <<sock, seen>>
  <2>1. PICK i \in Slots : /\ IsFirstFree(table[s], i)
                           /\ table' = [table EXCEPT ![s] = InsertAt(@, i, f)]
    BY <1>4 DEF Placed
  <2>2. /\ TableOK(InsertAt(table[s], i, f))
        /\ i # 0 /\ table[s].fd[i] = NoFd
        /\ InsertAt(table[s], i, f).fd = [table[s].fd EXCEPT ![i] = f]
        /\ Registered(InsertAt(table[s], i, f)) = Registered(table[s]) \cup {f}
    BY <1>0, <2>1, InsertOK
  <2>3. /\ table'[s] = InsertAt(table[s], i, f)
        /\ \A o \in Sides : o # s => table'[o] = table[o]
        /\ table' \in [Sides -> Tables]
        /\ \A o \in Sides : TableOK(table'[o])
    <3>1. InsertAt(table[s], i, f) \in Tables
      BY <2>2 DEF TableOK
    <3> QED BY <3>1, <1>0, <2>1, <2>2
  <2>4. /\ Registered(table[s])' = Registered(table[s]) \cup {f}
        /\ \A o \in Sides : o # s => Registered(table[o])' = Registered(table[o])
    BY <2>2, <2>3
  <2>5. ASSUME NEW o \in Sides, NEW j \in Slots, table'[o].fd[j] # NoFd
        PROVE  LET h == table'[o].fd[j] IN
               IF j = 0 THEN o = "proxy" /\ h = listener /\ sock[h] = Misc
               ELSE sock[h] \in {o} \X Conns /\ h \in inserted'[o]
    <3>1. CASE o = s /\ j = i
      <4>1. table'[o].fd[j] = f
        BY <3>1, <2>2, <2>3, <1>0 DEF Tables
      <4> QED BY <4>1, <3>1, <2>2, <1>2
    <3>2. CASE ~(o = s /\ j = i)
      <4>1. table'[o].fd[j] = table[o].fd[j]
        BY <3>2, <2>2, <2>3, <1>0 DEF Tables
      <4> QED BY <4>1, <2>5, <1>2 DEF IInv, Sockets
    <3> QED BY <3>1, <3>2
  <2>6. Sockets'
    BY <2>5, <1>2, <1>4 DEF IInv, Sockets
  <2> QED BY <2>3, <2>4, <2>6, <1>0, <1>2, <1>4
<1>5. CASE /\ CloseAll({f}) /\ seen' = seen \cup {FullMark(s)} /\ UNCHANGED table
  <2>1. /\ \A g \in Fds : sock'[g] = IF g = f THEN Closed ELSE sock[g]
        /\ sock' \in [Fds -> Ends \cup {Closed, Misc}]
    BY <1>0, <1>5 DEF CloseAll
  <2>2. \A o \in Sides : Registered(table[o])' = Registered(table[o])
    BY <1>5 DEF Registered
  <2>3. ASSUME NEW o \in Sides, NEW j \in Slots, table[o].fd[j] # NoFd
        PROVE  sock'[table[o].fd[j]] = sock[table[o].fd[j]]
    <3>1. table[o].fd[j] \in Registered(table[o])
      BY <2>3 DEF Registered
    <3>2. table[o].fd[j] \in Fds /\ table[o].fd[j] # f
      BY <3>1, <1>3, Facts
    <3> QED BY <3>2, <2>1
  <2>4. sock'[0] = Misc
    <3>1. sock[0] = Misc /\ 0 \in Fds /\ sock[f] # Misc
      BY EndsOfSide, Constants DEF IInv, Sockets
    <3> QED BY <3>1, <2>1
  <2>5. \A g, h \in Fds : sock'[g] = sock'[h] /\ sock'[g] \in Ends => g = h
    BY <2>1, OneSocket, Constants
  <2>6. Sockets'
    BY <2>3, <2>4, <2>5, <1>2, <1>5 DEF IInv, Sockets
  <2>7. seen' \in SUBSET Marks /\ ("stale" \in seen' <=> "stale" \in seen)
    BY <1>0, <1>5 DEF FullMark, Marks
  <2> QED BY <2>1, <2>2, <2>6, <2>7, <1>0, <1>2, <1>5
<1> QED BY <1>4, <1>5 DEF InsertInto

\* Nothing comes into being: the socket invariants of the unused ends.
LEMMA ClosingUnused ==
  ASSUME \A f \in Fds : sock'[f] \in {sock[f], Closed}, UNCHANGED <<taken, got>>
  PROVE  \A e \in Ends : Unused(e) => Unused(e)'
  BY Constants DEF Unused, Silent, IsOpen

\* The net thread takes the next tunnel and registers it.
LEMMA TakeTunnelStep ==
  ASSUME IInv, TakeTunnel, UNCHANGED listener
  PROVE  IInv'
<1> USE DEF maps
<1>1. /\ pc["net"] = "dispatch" /\ Goto("net", "scan")
      /\ UNCHANGED <<peer, sent, taken, got, backlog, rev, slot, cur, req, maps,
                     tunnels>>
  BY DEF TakeTunnel
<1>2. CASE actualfds = <<>>
  BY <1>1, <1>2, NothingNew, Constants DEF TakeTunnel, kernel, queues
<1>3. CASE actualfds # <<>>
  <2>g. PICK g : g = Head(actualfds)
    OBVIOUS
  <2>t. /\ actualfds \in Seq(Fds) /\ pc \in [Sides -> Places \cup {"insert", "await"}]
        /\ tunnels \in Seq(Fds \cup {NoFd})
        /\ "proxy" \in Sides /\ "net" \in Sides
        /\ \A s \in Sides : s = "proxy" \/ s = "net"
    BY Constants DEF IInv, Types
  <2>s. /\ g = actualfds[1] /\ 1 \in DOMAIN actualfds /\ g \in Fds
        /\ DOMAIN actualfds = 1 .. Len(actualfds)
        /\ actualfds' \in Seq(Fds)
        /\ DOMAIN actualfds' = 1 .. Len(actualfds) - 1
        /\ \A i \in DOMAIN actualfds' : /\ i + 1 \in DOMAIN actualfds /\ i \in Int
                                        /\ actualfds'[i] = actualfds[i + 1]
    <3>1. actualfds' = Tail(actualfds)
      BY <1>3 DEF TakeTunnel
    <3> QED BY <3>1, <1>3, <2>t, <2>g
  <2>0. /\ sock[g] \in {"net"} \X Conns /\ g \notin Registered(table["net"])
        /\ InsertInto("net", g)
    BY <1>3, <2>g, <2>s DEF TakeTunnel, IInv, Pending0
  <2>1. /\ Sockets' /\ table' \in [Sides -> Tables]
        /\ \A o \in Sides : TableOK(table'[o])
        /\ sock' \in [Fds -> Ends \cup {Closed, Misc}]
        /\ \A h \in Fds : /\ sock'[h] \in {sock[h], Closed}
                          /\ h # g => sock'[h] = sock[h]
        /\ \A o \in Sides : Registered(table[o]) \subseteq Registered(table[o])'
        /\ Registered(table["proxy"])' = Registered(table["proxy"])
        /\ Registered(table["net"])' \subseteq Registered(table["net"]) \cup {g}
        /\ inserted' \in [Sides -> SUBSET Fds]
        /\ \A o \in Sides : inserted[o] \subseteq inserted'[o]
        /\ seen' \in SUBSET Marks /\ ("stale" \in seen' <=> "stale" \in seen)
    BY <2>0, <2>s, <2>t, Inserting, ZenonT(40)
  <2>2. /\ pc'["net"] = "scan" /\ pc'["proxy"] = pc["proxy"]
        /\ pc' \in [Sides -> Places \cup {"insert", "await"}]
    BY <1>1, <2>t DEF Goto, Places
  <2>3. Types'
    BY <1>1, <2>1, <2>2, <2>s DEF IInv, Types
  <2>4. InHand'
    BY <1>1, <2>2, <2>t DEF IInv, InHand, IsServer
  <2>5. Pending0'
    <3>1. ASSUME NEW i \in DOMAIN tunnels, tunnels[i] # NoFd
          PROVE  /\ sock'[tunnels[i]] \in {"net"} \X Conns
                 /\ tunnels[i] \notin Registered(table["net"])'
                 /\ \A j \in DOMAIN actualfds' : actualfds'[j] # tunnels[i]
                 /\ \A j \in DOMAIN tunnels : tunnels[i] = tunnels[j] => i = j
      <4>1. tunnels[i] \in Fds
        BY <3>1, <2>t
      <4>2. /\ sock[tunnels[i]] \in {"net"} \X Conns
            /\ tunnels[i] \notin Registered(table["net"])
            /\ \A j \in DOMAIN actualfds : actualfds[j] # tunnels[i]
            /\ \A j \in DOMAIN tunnels : tunnels[i] = tunnels[j] => i = j
        BY <3>1 DEF IInv, Pending0
      <4> QED BY <4>1, <4>2, <2>1, <2>s
    <3>2. ASSUME NEW i \in DOMAIN actualfds'
          PROVE  /\ sock'[actualfds'[i]] \in {"net"} \X Conns
                 /\ actualfds'[i] \notin Registered(table["net"])'
                 /\ \A j \in DOMAIN actualfds' : actualfds'[i] = actualfds'[j] => i = j
      <4>1. /\ i + 1 \in DOMAIN actualfds /\ actualfds'[i] = actualfds[i + 1]
            /\ actualfds[i + 1] \in Fds /\ i + 1 # 1
        BY <2>s, <2>t
      <4>2. /\ sock[actualfds[i + 1]] \in {"net"} \X Conns
            /\ actualfds[i + 1] \notin Registered(table["net"])
            /\ \A j \in DOMAIN actualfds : actualfds[i + 1] = actualfds[j] => i + 1 = j
        BY <4>1 DEF IInv, Pending0
      <4>3. actualfds[i + 1] # g
        BY <4>1, <4>2, <2>s
      <4>4. \A j \in DOMAIN actualfds' : actualfds[i + 1] = actualfds[j + 1] => i = j
        BY <4>2, <2>s
      <4> QED BY <4>1, <4>2, <4>3, <4>4, <2>1, <2>s
    <3>3. pc["proxy"] = "insert" =>
             /\ sock'[cur["proxy"]] = <<"proxy", req>>
             /\ cur["proxy"] \notin Registered(table["proxy"])'
      <4> SUFFICES ASSUME pc["proxy"] = "insert"
                   PROVE  /\ sock'[cur["proxy"]] = <<"proxy", req>>
                          /\ cur["proxy"] \notin Registered(table["proxy"])'
        OBVIOUS
      <4>1. /\ cur["proxy"] \in Fds /\ sock[cur["proxy"]] = <<"proxy", req>>
            /\ cur["proxy"] \notin Registered(table["proxy"]) /\ req \in Conns
        BY <2>t DEF IInv, InHand, Pending0, Types
      <4>2. cur["proxy"] # g
        BY <4>1, <2>0
      <4> QED BY <4>1, <4>2, <2>1
    <3> QED BY <3>1, <3>2, <3>3, <1>1, <2>2 DEF Pending0
  <2>6. /\ InUse("net")' \subseteq InUse("net") /\ InUse("proxy")' = InUse("proxy")
        /\ \A s \in Sides : Routed(s)' \subseteq Routed(s)
    <3>1. InUse("net")' \subseteq InUse("net")
      <4>1. \A i \in DOMAIN actualfds' :
               \E j \in DOMAIN actualfds : actualfds'[i] = actualfds[j]
        BY <2>s
      <4> QED BY <4>1, <2>1, <2>s DEF InUse
    <3>2. InUse("proxy")' = InUse("proxy")
      BY <1>1, <2>1, <2>2 DEF InUse, IsServer
    <3> QED BY <3>1, <3>2, <1>1, <2>2, <2>t DEF Routed
  <2>7. Known'
    <3>1. \A h \in InUse("net")' : partner'["net"][h] # 0
      BY <1>1, <2>6 DEF IInv, Known
    <3>2. IsServer' => /\ \A f \in Fds : partner["net"][f] \in {0} \cup inserted'["proxy"]
                       /\ pc["proxy"] = "await" => cur["proxy"] \in inserted'["proxy"]
      <4>1. inserted["proxy"] \subseteq inserted'["proxy"]
        BY <2>1, <2>t
      <4> QED BY <4>1 DEF IInv, Known, IsServer
    <3>3. \A s \in Sides : pc'[s] \in {"read", "blocked", "write"} /\ cur[s] # NoFd
                              => cur[s] \in inserted'[s]
      BY <2>1, <2>2, <2>t DEF IInv, Known
    <3> QED BY <3>1, <3>2, <3>3, <1>1, <2>2 DEF Known
  <2>8. Held'
    <3> SUFFICES ASSUME "stale" \notin seen', NEW s \in Sides,
                        pc'[s] \in {"read", "blocked", "write"}, cur'[s] # NoFd
                 PROVE  sock'[cur[s]] = Closed \/ cur[s] \in Registered(table[s])'
      BY <1>1 DEF Held
    <3>1. sock[cur[s]] = Closed \/ cur[s] \in Registered(table[s])
      BY <1>1, <2>1, <2>2, <2>t DEF IInv, Held
    <3>2. cur[s] \in Fds
      BY <1>1 DEF IInv, Types
    <3> QED BY <3>1, <3>2, <2>1
  <2>9. Births'
    <3>1. \A e \in Ends : Unused(e) => Unused(e)'
      BY <1>1, <2>1, ClosingUnused
    <3>2. \A c \in Conns : <<"proxy", c>> \in Ends /\ <<"net", c>> \in Ends
      BY EndOf, <2>t
    <3>3. ASSUME ServerBirths PROVE ServerBirths'
      <4>1. ASSUME NEW c \in Conns, c \in backlog \/ peer[<<"proxy", c>>] = "none"
            PROVE  Unused(<<"proxy", c>>)' /\ Unused(<<"net", c>>)' /\ req # c
        BY <3>1, <3>2, <3>3, <4>1 DEF ServerBirths
      <4>2. ASSUME pc["proxy"] \in {"insert", "await"}
            PROVE  /\ \A f \in Fds : sock'[f] = <<"net", req>> => tunnels = <<f>>
                   /\ tunnels # <<>> /\ tunnels[1] # NoFd =>
                         sock'[tunnels[1]] = <<"net", req>>
                   /\ "stale" \notin seen' =>
                      /\ \A f \in Fds : sock'[f] = <<"proxy", req>> => f = cur["proxy"]
                      /\ sock'[cur["proxy"]] \in {Closed, <<"proxy", req>>}
        <5>1. /\ req \in Conns /\ cur["proxy"] \in Fds
              /\ <<"net", req>> # Closed /\ <<"proxy", req>> # Closed
          BY <4>2, <2>t, EndOf DEF IInv, InHand, Types
        <5>2. tunnels # <<>> /\ tunnels[1] # NoFd =>
                 tunnels[1] \in Fds /\ tunnels[1] # g
          <6>1. tunnels # <<>> => 1 \in DOMAIN tunnels /\ tunnels[1] \in Fds \cup {NoFd}
            BY <2>t
          <6> QED BY <6>1, <2>s DEF IInv, Pending0
        <5> QED BY <3>3, <4>2, <5>1, <5>2, <2>1 DEF ServerBirths
      <4> QED BY <3>3, <4>1, <4>2, <1>1, <2>1, <2>2 DEF ServerBirths, Silent
    <3>4. ASSUME ClientBirths PROVE ClientBirths'
      <4>1. ASSUME NEW c \in Conns, NEW i \in DOMAIN tunnels,
                   sock'[tunnels[i]] = <<"net", c>>
            PROVE  sock[tunnels[i]] = <<"net", c>>
        <5>1. tunnels[i] \in Fds
          BY <3>4, <2>t DEF ClientBirths
        <5>2. <<"net", c>> # Closed
          BY <2>t, EndOf
        <5> QED BY <5>1, <5>2, <4>1, <2>1
      <4> QED BY <3>1, <3>2, <3>4, <4>1, <1>1, <2>1 DEF ClientBirths, Silent
    <3> QED BY <3>3, <3>4 DEF IInv, Births, IsServer
  <2>10. Routing'
    BY <1>1, <2>1, <2>6, ClosingRouting
  <2>11. Streams' /\ NoMixing'
    <3>1. \A f \in Fds : sock'[f] \in Ends => sock'[f] = sock[f]
      BY <2>1, Constants
    <3> QED BY <3>1, <1>1, <2>1, QuietStreams
  <2> QED BY <2>1, <2>3, <2>4, <2>5, <2>7, <2>8, <2>9, <2>10, <2>11 DEF IInv
<1> QED BY <1>2, <1>3

\* proxyThread registers its end.
LEMMA InsertProxyStep ==
  ASSUME IInv, InsertProxy, UNCHANGED listener
  PROVE  IInv'
<1> USE DEF maps, queues
<1>f. PICK f : f = cur["proxy"]
  OBVIOUS
<1>t. /\ pc \in [Sides -> Places \cup {"insert", "await"}]
      /\ cur \in [Sides -> Fds \cup {NoFd}] /\ req \in Conns \cup {NoConn}
      /\ tunnels \in Seq(Fds \cup {NoFd}) /\ actualfds \in Seq(Fds)
      /\ "proxy" \in Sides /\ "net" \in Sides
      /\ \A s \in Sides : s = "proxy" \/ s = "net"
  BY Constants DEF IInv, Types
<1>1. /\ pc["proxy"] = "insert" /\ InsertInto("proxy", f)
      /\ pc' = [pc EXCEPT !["proxy"] = IF IsServer THEN "await" ELSE "scan"]
      /\ cur' = IF IsServer THEN cur ELSE [cur EXCEPT !["proxy"] = NoFd]
      /\ req' = IF IsServer THEN req ELSE NoConn
      /\ UNCHANGED <<peer, sent, taken, got, backlog, rev, slot, maps, queues>>
  BY <1>f DEF InsertProxy, Goto
<1>0. /\ f \in Fds /\ req \in Conns /\ sock[f] = <<"proxy", req>>
      /\ sock[f] \in {"proxy"} \X Conns /\ f \notin Registered(table["proxy"])
  <2>1. f \in Fds /\ req \in Conns /\ sock[f] = <<"proxy", req>>
        /\ f \notin Registered(table["proxy"])
    BY <1>1, <1>f, <1>t DEF IInv, InHand, Pending0, Types
  <2> QED BY <2>1, <1>t, EndOf
<1>2. /\ Sockets' /\ table' \in [Sides -> Tables]
      /\ \A o \in Sides : TableOK(table'[o])
      /\ sock' \in [Fds -> Ends \cup {Closed, Misc}]
      /\ \A h \in Fds : /\ sock'[h] \in {sock[h], Closed}
                        /\ h # f => sock'[h] = sock[h]
      /\ \A o \in Sides : Registered(table[o]) \subseteq Registered(table[o])'
      /\ Registered(table["net"])' = Registered(table["net"])
      /\ Registered(table["proxy"])' \subseteq Registered(table["proxy"]) \cup {f}
      /\ inserted' \in [Sides -> SUBSET Fds] /\ f \in inserted'["proxy"]
      /\ \A o \in Sides : inserted[o] \subseteq inserted'[o]
      /\ seen' \in SUBSET Marks /\ ("stale" \in seen' <=> "stale" \in seen)
  <2>1. InsertInto("proxy", f) /\ "net" # "proxy"
    BY <1>1
  <2>2. UNCHANGED listener
    OBVIOUS
  <2>3. \A o \in Sides : o # "proxy" => Registered(table[o])' = Registered(table[o])
    BY <1>0, <2>1, <2>2, <1>t, Inserting
  <2>4. Registered(table["net"])' = Registered(table["net"])
    BY <2>1, <2>3, <1>t
  <2> QED BY <1>0, <2>1, <2>2, <2>4, <1>t, Inserting
<1>3. /\ pc'["proxy"] = IF IsServer THEN "await" ELSE "scan"
      /\ pc'["net"] = pc["net"] /\ cur'["net"] = cur["net"]
      /\ IsServer => cur'["proxy"] = f
      /\ pc' \in [Sides -> Places \cup {"insert", "await"}]
      /\ cur' \in [Sides -> Fds \cup {NoFd}] /\ req' \in Conns \cup {NoConn}
      /\ IsServer' = IsServer
  BY <1>1, <1>f, <1>t DEF Places, IsServer
<1>4. Types'
  BY <1>1, <1>2, <1>3 DEF IInv, Types
<1>5. InHand'
  <2>1. req # NoConn
    BY <1>0, TcpServerAssumption
  <2> QED BY <2>1, <1>0, <1>1, <1>3, <1>t DEF IInv, InHand
<1>6. Pending0'
  <2>1. ASSUME NEW h \in Fds, sock[h] \in {"net"} \X Conns PROVE sock'[h] = sock[h]
    BY <2>1, <1>0, <1>2
  <2>2. \A i \in DOMAIN tunnels : tunnels[i] # NoFd => tunnels[i] \in Fds
    BY <1>t
  <2>3. \A i \in DOMAIN actualfds : actualfds[i] \in Fds
    BY <1>t
  <2> QED BY <2>1, <2>2, <2>3, <1>1, <1>2, <1>3 DEF IInv, Pending0
<1>7. /\ InUse("net")' = InUse("net")
      /\ \A s \in Sides : Routed(s)' \subseteq Routed(s)
  <2>1. InUse("net")' = InUse("net")
    BY <1>1, <1>2 DEF InUse
  <2>2. Routed("proxy")' \subseteq Routed("proxy")
    <3>1. CASE IsServer
      <4>1. Routed("proxy")' = Registered(table["proxy"])' \ {f}
        BY <3>1, <1>3 DEF Routed, InUse
      <4>2. Routed("proxy") = Registered(table["proxy"])
        BY <3>1, <1>1 DEF Routed, InUse
      <4> QED BY <4>1, <4>2, <1>2
    <3>2. CASE ~IsServer
      <4>1. Routed("proxy")' = Registered(table["proxy"])'
        BY <3>2, <1>3 DEF Routed, InUse
      <4>2. Routed("proxy") = Registered(table["proxy"]) \cup {f}
        BY <3>2, <1>1, <1>f DEF Routed, InUse
      <4> QED BY <4>1, <4>2, <1>2
    <3> QED BY <3>1, <3>2
  <2> QED BY <2>1, <2>2, <1>t DEF Routed
<1>8. Known'
  <2>1. \A h \in InUse("net")' : partner'["net"][h] # 0
    BY <1>1, <1>7 DEF IInv, Known
  <2>2. IsServer' => /\ \A h \in Fds : partner["net"][h] \in {0} \cup inserted'["proxy"]
                     /\ pc'["net"] = "lost" => cur'["net"] \in inserted'["proxy"]
                     /\ pc'["proxy"] = "await" => cur'["proxy"] \in inserted'["proxy"]
    <3>1. inserted["proxy"] \subseteq inserted'["proxy"]
      BY <1>2, <1>t
    <3> QED BY <3>1, <1>2, <1>3 DEF IInv, Known
  <2>3. \A s \in Sides : pc'[s] \in {"read", "blocked", "write"} /\ cur'[s] # NoFd
                            => cur'[s] \in inserted'[s]
    BY <1>2, <1>3, <1>t DEF IInv, Known
  <2> QED BY <2>1, <2>2, <2>3, <1>1, <1>3 DEF IInv, Known
<1>9. Held'
  <2> SUFFICES ASSUME "stale" \notin seen', NEW s \in Sides,
                      pc'[s] \in {"read", "blocked", "write"}, cur'[s] # NoFd
               PROVE  sock'[cur'[s]] = Closed \/ cur'[s] \in Registered(table[s])'
    BY DEF Held
  <2>1. s = "net" /\ cur'[s] = cur[s] /\ pc'[s] = pc[s]
    BY <1>3, <1>t
  <2>2. sock[cur[s]] = Closed \/ cur[s] \in Registered(table[s])
    BY <2>1, <1>2 DEF IInv, Held
  <2>3. cur[s] \in Fds
    BY <2>1, <1>t
  <2> QED BY <2>1, <2>2, <2>3, <1>2
<1>10. Births'
  <2>1. \A e \in Ends : Unused(e) => Unused(e)'
    BY <1>1, <1>2, ClosingUnused
  <2>2. \A c \in Conns : <<"proxy", c>> \in Ends /\ <<"net", c>> \in Ends
                         /\ <<"proxy", c>> # Closed /\ <<"net", c>> # Closed
    BY EndOf, <1>t
  <2>3. ASSUME IsServer, ServerBirths PROVE ServerBirths'
    <3>1. /\ pc'["proxy"] = "await" /\ req' = req /\ cur'["proxy"] = f /\ tunnels = <<>>
          /\ tunnels' = <<>> /\ backlog' = backlog /\ peer' = peer
      BY <2>3, <1>1, <1>3 DEF ServerBirths
    <3>2. ASSUME NEW c \in Conns, c \in backlog \/ peer[<<"proxy", c>>] = "none"
          PROVE  Unused(<<"proxy", c>>)' /\ Unused(<<"net", c>>)' /\ req # c
      BY <2>1, <2>2, <2>3, <3>2 DEF ServerBirths
    <3>3. /\ \A h \in Fds : sock'[h] # <<"net", req>>
          /\ req \notin backlog /\ peer[<<"proxy", req>>] # "none"
      <4>1. \A h \in Fds : <<>> # <<h>>
        OBVIOUS
      <4>2. \A h \in Fds : sock[h] # <<"net", req>>
        BY <4>1, <2>3, <3>1, <1>1 DEF ServerBirths
      <4> QED BY <4>2, <2>2, <2>3, <1>0, <1>1, <1>2 DEF ServerBirths
    <3>4. "stale" \notin seen' =>
             /\ \A h \in Fds : sock'[h] = <<"proxy", req>> => h = f
             /\ sock'[f] \in {Closed, <<"proxy", req>>}
             /\ \A s \in Sides : Silent(<<s, req>>)
      BY <2>2, <2>3, <1>0, <1>1, <1>2, <1>f DEF ServerBirths
    <3>5. \A s \in Sides : Silent(<<s, req>>)' = Silent(<<s, req>>)
      BY <1>1, <3>1 DEF Silent
    <3> QED BY <2>3, <3>1, <3>2, <3>3, <3>4, <3>5 DEF ServerBirths, Silent
  <2>4. ASSUME ClientBirths PROVE ClientBirths'
    <3>1. ASSUME NEW c \in Conns, NEW i \in DOMAIN tunnels,
                 sock'[tunnels[i]] = <<"net", c>>
          PROVE  sock[tunnels[i]] = <<"net", c>>
      <4>1. tunnels[i] \in Fds
        BY <2>4, <1>t DEF ClientBirths
      <4> QED BY <4>1, <3>1, <1>2, <2>2
    <3> QED BY <2>1, <2>2, <2>4, <3>1, <1>1, <1>2 DEF ClientBirths, Silent
  <2> QED BY <2>3, <2>4, <1>3 DEF IInv, Births
<1>11. Routing'
  BY <1>1, <1>2, <1>7, ClosingRouting
<1>12. Streams' /\ NoMixing'
  <2>1. \A h \in Fds : sock'[h] \in Ends => sock'[h] = sock[h]
    BY <1>2, Constants
  <2> QED BY <2>1, <1>1, <1>2, QuietStreams
<1> QED BY <1>2, <1>4, <1>5, <1>6, <1>8, <1>9, <1>10, <1>11, <1>12 DEF IInv

\* proxyThread couples both ends, or shuts down what the map mentions.
LEMMA TakePromiseStep ==
  ASSUME IInv, TakePromise, UNCHANGED listener
  PROVE  IInv'
<1>g. PICK f, g : f = cur["proxy"] /\ g = Head(tunnels)
  OBVIOUS
<1>t. /\ pc \in [Sides -> Places \cup {"insert", "await"}]
      /\ cur \in [Sides -> Fds \cup {NoFd}] /\ req \in Conns
      /\ tunnels \in Seq(Fds \cup {NoFd}) /\ actualfds \in Seq(Fds)
      /\ partner \in [Sides -> [Fds -> Fds]] /\ sock[0] = Misc /\ 0 \in Fds
      /\ peer \in [Ends -> {"none", "open", "fin", "rst", "dead"}]
      /\ "proxy" \in Sides /\ "net" \in Sides
      /\ \A s \in Sides : s = "proxy" \/ s = "net"
  BY Constants DEF IInv, Types, TakePromise, InHand, Sockets
<1>1. /\ IsServer /\ pc["proxy"] = "await" /\ tunnels # <<>> /\ tunnels' = Tail(tunnels)
      /\ pc' = [pc EXCEPT !["proxy"] = "scan"]
      /\ cur' = [cur EXCEPT !["proxy"] = NoFd] /\ req' = NoConn
      /\ UNCHANGED <<listener, sock, sent, taken, got, backlog, table, rev, slot, buffer,
                     removed, inserted>>
  BY DEF TakePromise, Goto
<1>b. ServerBirths
  BY <1>1 DEF IInv, Births
<1>s. /\ tunnels' = <<>> /\ g = tunnels[1] /\ g \in Fds \cup {NoFd}
      /\ 1 \in DOMAIN tunnels /\ f \in Fds
  <2>0. Len(tunnels) \in Nat /\ (Len(tunnels) = 0 => tunnels = <<>>)
    BY <1>t
  <2>1. Len(tunnels) = 1
    <3>1. PICK n \in Nat : n = Len(tunnels)
      BY <2>0
    <3>2. n <= 1
      BY <3>1, <1>b DEF ServerBirths
    <3>3. n # 0
      BY <3>1, <2>0, <1>1
    <3>4. n = 1
      BY <3>2, <3>3
    <3> QED BY <3>1, <3>4
  <2>2. f \in Fds
    BY <1>1, <1>g, <1>t DEF IInv, InHand
  <2> QED BY <2>1, <2>2, <1>1, <1>t, <1>g
<1>2. /\ pc'["proxy"] = "scan" /\ pc'["net"] = pc["net"] /\ cur'["net"] = cur["net"]
      /\ pc' \in [Sides -> Places \cup {"insert", "await"}]
      /\ cur' \in [Sides -> Fds \cup {NoFd}] /\ IsServer'
  BY <1>1, <1>t DEF Places, IsServer
<1>3. /\ "stale" \notin seen' => "stale" \notin seen
      /\ seen' \in SUBSET Marks
      /\ peer' \in [Ends -> {"none", "open", "fin", "rst", "dead"}]
      /\ \A e \in Ends : /\ peer'[e] = "none" => peer[e] = "none"
                         /\ peer'[e] \in {"open", "fin"} => peer[e] \in {"open", "fin"}
                         /\ peer[e] # "none" => peer'[e] # "none"
  <2>1. seen \in SUBSET Marks
    BY DEF IInv, Types
  <2> QED BY <2>1, <1>t DEF TakePromise, Marks
<1>4. Sockets'
  BY <1>1 DEF IInv, Sockets
<1>5. InHand'
  BY <1>1, <1>2, <1>t DEF IInv, InHand, IsServer
<1>6. Held'
  BY <1>1, <1>2, <1>3, <1>t DEF IInv, Held
<1>7. Births'
  <2>1. \A e \in Ends : Unused(e) => Unused(e)'
    BY <1>1 DEF Unused, Silent, IsOpen
  <2>2. \A c \in Conns : <<"proxy", c>> \in Ends /\ <<"net", c>> \in Ends /\ c # NoConn
    BY EndOf, <1>t, TcpServerAssumption
  <2>3. backlog \subseteq Conns /\ Len(<<>>) <= 1
    BY DEF IInv, Types
  <2>4. ServerBirths'
    BY <2>1, <2>2, <2>3, <1>b, <1>1, <1>2, <1>3, <1>s DEF ServerBirths
  <2> QED BY <2>4, <1>2 DEF Births
<1>8. Streams' /\ NoMixing'
  BY <1>1, <1>3, QuietStreams
<1>9. /\ Registered(table["proxy"])' = Registered(table["proxy"])
      /\ Registered(table["net"])' = Registered(table["net"])
      /\ Routed("proxy") = Registered(table["proxy"]) \ {f}
      /\ Routed("proxy")' = Registered(table["proxy"])
      /\ Routed("net") = InUse("net") /\ Routed("net")' = InUse("net")'
  BY <1>1, <1>2, <1>g, <1>t DEF Routed, InUse, Registered
<1>10. CASE g # NoFd /\ Couple(f, g) /\ UNCHANGED <<peer, seen>>
  <2>1. /\ partner' \in [Sides -> [Fds -> Fds]]
        /\ partner'["proxy"][f] = g /\ partner'["net"][g] = f
        /\ \A h \in Fds : h # f => partner'["proxy"][h] = partner["proxy"][h]
        /\ \A h \in Fds : h # g => partner'["net"][h] = partner["net"][h]
    <3>1. /\ partner' = [partner EXCEPT !["proxy"][f] = g, !["net"][g] = f]
          /\ g \in Fds /\ f \in Fds
      BY <1>10, <1>s DEF Couple
    <3> QED BY <3>1, <1>t
  <2>2. /\ actualfds' \in Seq(Fds) /\ DOMAIN actualfds' = 1 .. Len(actualfds) + 1
        /\ DOMAIN actualfds = 1 .. Len(actualfds)
        /\ actualfds'[Len(actualfds) + 1] = g
        /\ \A i \in DOMAIN actualfds : actualfds'[i] = actualfds[i]
        /\ \A i \in DOMAIN actualfds' : i \in DOMAIN actualfds \/ i = Len(actualfds) + 1
        /\ \A i \in DOMAIN actualfds : i \in DOMAIN actualfds'
        /\ Len(actualfds) + 1 \in DOMAIN actualfds'
    <3>1. actualfds' = Append(actualfds, g) /\ g \in Fds
      BY <1>10, <1>s DEF Couple
    <3> QED BY <3>1, <1>t
  <2>3. /\ sock[g] \in {"net"} \X Conns /\ g \notin Registered(table["net"])
        /\ \A i \in DOMAIN actualfds : actualfds[i] # g
        /\ sock[g] = <<"net", req>> /\ g \in Fds
    BY <1>10, <1>1, <1>b, <1>s DEF IInv, Pending0, ServerBirths
  <2>4. f \in inserted["proxy"] /\ f # 0
    BY <1>1, <1>g, <1>t DEF IInv, Known, Sockets
  <2>5. InUse("net")' = InUse("net") \cup {g}
    <3>1. {actualfds'[i] : i \in DOMAIN actualfds'}
             = {actualfds[i] : i \in DOMAIN actualfds} \cup {g}
      BY <2>2
    <3> QED BY <3>1, <1>9 DEF InUse
  <2>6. Types'
    <3>1. <<>> \in Seq(Fds \cup {NoFd})
      OBVIOUS
    <3> QED BY <3>1, <2>1, <2>2, <1>1, <1>2, <1>3, <1>s DEF IInv, Types
  <2>7. Pending0'
    <3>1. ASSUME NEW i \in DOMAIN actualfds'
          PROVE  /\ sock[actualfds'[i]] \in {"net"} \X Conns
                 /\ actualfds'[i] \notin Registered(table["net"])
                 /\ \A j \in DOMAIN actualfds' : actualfds'[i] = actualfds'[j] => i = j
      <4>1. CASE i \in DOMAIN actualfds
        <5>1. actualfds[i] # g
          BY <4>1, <2>3
        <5> QED BY <4>1, <5>1, <2>2 DEF IInv, Pending0
      <4>2. CASE i = Len(actualfds) + 1
        <5>1. \A j \in DOMAIN actualfds' : actualfds'[j] = g => j = i
          BY <4>2, <2>2, <2>3
        <5> QED BY <5>1, <4>2, <2>2, <2>3
      <4> QED BY <4>1, <4>2, <2>2
    <3>2. DOMAIN tunnels' = {}
      BY <1>s
    <3> QED BY <3>1, <3>2, <1>1, <1>2, <1>9 DEF Pending0
  <2>8. Known'
    <3>1. \A h \in InUse("net")' : partner'["net"][h] # 0
      <4>1. \A h \in InUse("net") : h \in Fds
        BY Facts, <1>t
      <4> QED BY <4>1, <2>1, <2>4, <2>5 DEF IInv, Known
    <3>2. pc'["net"] \in {"read", "blocked"} => partner'["net"][cur'["net"]] # 0
      <4>1. pc["net"] \in {"read", "blocked"} => cur["net"] \in Fds
        BY <1>t DEF IInv, InHand
      <4> QED BY <4>1, <2>1, <2>4, <1>2 DEF IInv, Known
    <3>3. \A h \in Fds : partner'["net"][h] \in {0} \cup inserted["proxy"]
      BY <2>1, <2>4, <1>1 DEF IInv, Known
    <3>4. \A s \in Sides : pc'[s] \in {"read", "blocked", "write"} /\ cur'[s] # NoFd
                              => cur'[s] \in inserted[s]
      BY <1>2, <1>t DEF IInv, Known
    <3> QED BY <3>1, <3>2, <3>3, <3>4, <1>1, <1>2 DEF IInv, Known
  <2>9. Routing'
    <3> SUFFICES ASSUME "stale" \notin seen', NEW s \in Sides, NEW h \in Routed(s)',
                        sock[h] \in Ends
                 PROVE  LET there == sock[partner'[s][h]] IN
                        /\ there \in Ends => there = Opposite(sock[h])
                        /\ IsOpen(Opposite(sock[h])) => there = Opposite(sock[h])
      BY <1>1 DEF Routing, IsOpen
    <3>1. /\ \A x \in Fds : sock[x] = <<"proxy", req>> => x = f
          /\ sock[f] \in {Closed, <<"proxy", req>>}
          /\ Opposite(<<"proxy", req>>) = <<"net", req>>
          /\ Opposite(<<"net", req>>) = <<"proxy", req>>
      BY <1>1, <1>3, <1>b, <1>g, <1>t, EndOf, Constants DEF ServerBirths
    <3>2. CASE s = "proxy" /\ h = f
      <4>1. sock[f] = <<"proxy", req>>
        BY <3>1, <3>2, Constants
      <4> QED BY <4>1, <3>1, <3>2, <2>1, <2>3
    <3>3. CASE s = "net" /\ h = g
      <4>1. sock[f] \in Ends => sock[f] = <<"proxy", req>>
        BY <3>1, Constants
      <4>2. IsOpen(<<"proxy", req>>) => sock[f] = <<"proxy", req>>
        BY <3>1 DEF IsOpen
      <4> QED BY <4>1, <4>2, <3>1, <3>3, <2>1, <2>3
    <3>4. CASE ~(s = "proxy" /\ h = f) /\ ~(s = "net" /\ h = g)
      <4>1. h \in Routed(s) /\ h \in Fds
        BY <3>4, <2>5, <1>9, <1>t, Facts
      <4>2. partner'[s][h] = partner[s][h]
        BY <3>4, <4>1, <2>1, <1>t
      <4> QED BY <4>1, <4>2, <1>3 DEF IInv, Routing
    <3> QED BY <3>2, <3>3, <3>4
  <2> QED BY <2>6, <2>7, <2>8, <2>9, <1>4, <1>5, <1>6, <1>7, <1>8 DEF IInv
<1>11. CASE /\ g = NoFd /\ UNCHANGED <<partner, actualfds>>
            /\ seen' = IF partner["proxy"][f] # 0 THEN seen \cup {"stale"} ELSE seen
  <2>1. Types'
    <3>1. <<>> \in Seq(Fds \cup {NoFd})
      OBVIOUS
    <3> QED BY <3>1, <1>1, <1>2, <1>3, <1>11, <1>s DEF IInv, Types
  <2>2. Pending0'
    <3>1. DOMAIN tunnels' = {}
      BY <1>s
    <3> QED BY <3>1, <1>1, <1>2, <1>9, <1>11 DEF IInv, Pending0
  <2>3. InUse("net")' = InUse("net")
    BY <1>9, <1>11 DEF InUse
  <2>4. Known'
    BY <2>3, <1>1, <1>2, <1>11, <1>t DEF IInv, Known
  <2>5. Routing'
    <3> SUFFICES ASSUME "stale" \notin seen', NEW s \in Sides, NEW h \in Routed(s)',
                        sock[h] \in Ends
                 PROVE  LET there == sock[partner[s][h]] IN
                        /\ there \in Ends => there = Opposite(sock[h])
                        /\ IsOpen(Opposite(sock[h])) => there = Opposite(sock[h])
      BY <1>1, <1>11 DEF Routing, IsOpen
    <3>1. "stale" \notin seen /\ partner["proxy"][f] = 0
      BY <1>3, <1>11
    <3>2. CASE s = "proxy" /\ h = f
      <4>1. sock[f] = <<"proxy", req>>
        BY <3>1, <3>2, <1>1, <1>b, <1>g, Constants DEF ServerBirths
      <4>2. ~IsOpen(<<"net", req>>)
        <5>1. \A x \in Fds : sock[x] = <<"net", req>> => tunnels = <<x>>
          BY <1>1, <1>b DEF ServerBirths
        <5>2. \A x \in Fds : tunnels # <<x>>
          <6>1. \A x \in Fds : <<x>>[1] = x /\ x # NoFd
            BY Constants
          <6> QED BY <6>1, <1>s, <1>11
        <5> QED BY <5>1, <5>2 DEF IsOpen
      <4>3. Opposite(<<"proxy", req>>) = <<"net", req>>
        BY EndOf, <1>t, Constants
      <4> QED BY <4>1, <4>2, <4>3, <3>1, <3>2, <1>t, Constants
    <3>3. CASE ~(s = "proxy" /\ h = f)
      <4>1. h \in Routed(s)
        BY <3>3, <2>3, <1>9, <1>t
      <4> QED BY <4>1, <3>1 DEF IInv, Routing
    <3> QED BY <3>2, <3>3
  <2> QED BY <2>1, <2>2, <2>4, <2>5, <1>4, <1>5, <1>6, <1>7, <1>8 DEF IInv
<1> QED BY <1>10, <1>11, <1>g, <1>s DEF TakePromise

\* No step reads what is left of the variables.
LEMMA StutterStep == IInv /\ UNCHANGED vars => IInv'
<1> SUFFICES ASSUME IInv, UNCHANGED vars
             PROVE  IInv'
  OBVIOUS
<1>1. UNCHANGED <<listener, sock, peer, sent, taken, got, backlog, table, rev, pc,
                  slot, cur, req, partner, buffer, removed, tunnels, actualfds,
                  inserted, seen>>
  BY DEF vars, kernel, loops, maps, queues
<1>2. \A s \in Sides : InUse(s)' = InUse(s) /\ Registered(table[s])' = Registered(table[s])
  BY <1>1 DEF InUse, Registered, IsServer
<1>3. \A s \in Sides : Routed(s)' = Routed(s)
  BY <1>1, <1>2 DEF Routed
<1>4. Types' /\ InHand' /\ Sockets'
  BY <1>1 DEF IInv, Types, InHand, Sockets, IsServer
<1>5. Pending0' /\ Known' /\ Held'
  BY <1>1, <1>2, Constants DEF IInv, Pending0, Known, Held, IsServer
<1>6. Births'
  BY <1>1 DEF IInv, Births, ServerBirths, ClientBirths, IsServer, Unused, Silent, IsOpen
<1>7. Routing'
  BY <1>1, <1>3 DEF IInv, Routing, IsOpen
<1>8. Streams' /\ NoMixing'
  BY <1>1, QuietStreams
<1> QED BY <1>4, <1>5, <1>6, <1>7, <1>8 DEF IInv

\* The steps of the threads.
LEMMA ThreadStep ==
  ASSUME IInv, NEW s \in Sides, Thread(s)
  PROVE  IInv'
<1>0. UNCHANGED listener
  BY DEF Thread
<1>1. CASE Poll(s)
  BY <1>0, <1>1, PollStep
<1>2. CASE Scan(s)
  BY <1>0, <1>2, ScanStep
<1>3. CASE TakeTunnel
  BY <1>0, <1>3, TakeTunnelStep
<1>4. CASE IgnoreEof
  BY <1>0, <1>4, IgnoreEofStep
<1>5. CASE Accept
  BY <1>0, <1>5, AcceptStep
<1>6. CASE InsertProxy
  BY <1>0, <1>6, InsertProxyStep
<1>7. CASE TakePromise
  BY <1>0, <1>7, TakePromiseStep
<1>8. CASE Connect
  BY <1>0, <1>8, ConnectStep
<1>9. CASE ReadBlocks(s)
  BY <1>0, <1>9, ReadBlocksStep
<1>10. CASE ReadData(s)
  BY <1>0, <1>10, ReadDataStep
<1>11. CASE Lose(s)
  BY <1>0, <1>11, LoseStep
<1>12. CASE LosePartner(s)
  BY <1>0, <1>12, LosePartnerStep
<1>13. CASE NothingToWrite(s)
  BY <1>0, <1>13, NothingToWriteStep
<1>14. CASE WriteFails(s)
  BY <1>0, <1>14, WriteFailsStep
<1>15. ASSUME NEW n \in 1 .. MaxWrite, Write(s, n)
       PROVE  IInv'
  BY <1>0, <1>15, WriteStep
<1> QED
  BY <1>1, <1>2, <1>3, <1>4, <1>5, <1>6, <1>7, <1>8, <1>9, <1>10, <1>11, <1>12,
     <1>13, <1>14, <1>15
  DEF Thread

\* Every step keeps the invariant.
LEMMA NextIInv == IInv /\ [Next]_vars => IInv'
<1> SUFFICES ASSUME IInv, [Next]_vars
             PROVE  IInv'
  OBVIOUS
<1>1. CASE Environment
  <2>1. CASE Promise
    BY <2>1, PromiseStep
  <2>2. ASSUME NEW c \in Conns, Arrive(c), UNCHANGED listener
        PROVE  IInv'
    BY <2>2, ArriveStep
  <2>3. ASSUME NEW c \in Conns, Offer(c), UNCHANGED listener
        PROVE  IInv'
    BY <2>3, OfferStep
  <2>4. ASSUME NEW e \in Ends, PeerSend(e), UNCHANGED listener
        PROVE  IInv'
    BY <2>4, PeerSendStep
  <2>5. ASSUME NEW e \in Ends, PeerEnd(e), UNCHANGED listener
        PROVE  IInv'
    BY <2>5, PeerEndStep
  <2> QED BY <1>1, <2>1, <2>2, <2>3, <2>4, <2>5 DEF Environment
<1>2. ASSUME NEW s \in Sides, Thread(s)
      PROVE  IInv'
  BY <1>2, ThreadStep
<1>3. CASE UNCHANGED vars
  BY <1>3, StutterStep
<1> QED BY <1>1, <1>2, <1>3 DEF Next

\* Whatever the two threads, the peers and the connection manager do, in
\* whatever order, the relay stays in the states of IInv.
THEOREM Invariance == Spec => []IInv
  BY InitIInv, NextIInv, PTL DEF Spec

\* Every variable keeps to the values its declaration in the code allows, and
\* no write offset goes below the bound.
THEOREM TypeCorrect == Spec => []TypeOK
<1>1. IInv => TypeOK
  BY DEF IInv, Types, TypeOK, TableOK, Places
<1> QED BY Invariance, <1>1, PTL

\* What a peer received is the beginning of what the other peer of the same
\* connection sent, as long as no descriptor number was given out again while
\* a map, a buffer or a removed set of the relay still mentioned it: onRead
\* and onWrite, with both threads, never mix, lose, repeat or reorder bytes.
THEOREM NothingMixed == Spec => []NoMixing
<1>1. IInv => NoMixing
  BY DEF IInv
<1> QED BY Invariance, <1>1, PTL

-----------------------------------------------------------------------------
(* Each dispatcher table of the relay implements PollDispatcher.  Dispatches *)
(* says what PollDispatcher lets happen to the table of side s in one step.  *)

Full(s) == FullMark(s) \in seen

\* The descriptors the table's owner may call remove with.
MayRemove(s) == IF s = "net" \/ ~IsServer THEN Fds ELSE inserted[s]

Dispatches(s) ==
    \/ UNCHANGED <<table[s], Opened, inserted[s]>> /\ (Full(s)' <=> Full(s))
    \/ \E f \in Fds :
          \/ /\ f \notin Opened /\ Opened' = Opened \cup {f}
             /\ UNCHANGED <<table[s], inserted[s]>> /\ (Full(s)' <=> Full(s))
          \/ /\ f \in Opened \ Registered(table[s])
             /\ \E i \in Slots : /\ IsFirstFree(table[s], i)
                                 /\ table'[s] = InsertAt(table[s], i, f)
             /\ inserted'[s] = inserted[s] \cup {f}
             /\ UNCHANGED Opened /\ (Full(s)' <=> Full(s))
          \/ /\ f \in Opened \ Registered(table[s]) /\ IsFull(table[s])
             /\ Opened' = Opened \ {f} /\ Full(s)'
             /\ inserted'[s] = inserted[s] \cup {f}
             /\ UNCHANGED table[s]
          \/ /\ f \in MayRemove(s)
             /\ table'[s] = Vacate(table[s], f)
             /\ Opened' = Opened \ {Victim(table[s], f)}
             /\ UNCHANGED inserted[s] /\ (Full(s)' <=> Full(s))
          \/ /\ f \in Opened \ Registered(table[s]) /\ Opened' = Opened \ {f}
             /\ UNCHANGED <<table[s], inserted[s]>> /\ (Full(s)' <=> Full(s))

\* A step that opens, closes and registers nothing.
LEMMA DispatchesNothing ==
  ASSUME UNCHANGED <<table, sock, inserted>>,
         \A s \in Sides : Full(s)' <=> Full(s)
  PROVE  \A s \in Sides : Dispatches(s)
<1>1. UNCHANGED Opened
  BY DEF Opened
<1> QED BY <1>1 DEF Dispatches

\* accept, connect, or the connection manager opens f.
LEMMA DispatchesOpen ==
  ASSUME IInv, NEW f \in Fds, NEW e \in Ends \cup {Misc}, NEW marks,
         OpenOn(f, e, marks), UNCHANGED <<table, inserted>>,
         \A s \in Sides : Full(s)' <=> Full(s)
  PROVE  \A s \in Sides : Dispatches(s)
<1>1. sock[f] = Closed /\ sock' = [sock EXCEPT ![f] = e] /\ e # Closed
  BY Constants DEF OpenOn
<1>2. sock \in [Fds -> Ends \cup {Closed, Misc}]
  BY DEF IInv, Types
<1>3. f \notin Opened /\ Opened' = Opened \cup {f}
  BY <1>1, <1>2 DEF Opened
<1> QED BY <1>3 DEF Dispatches

\* remove(f) on side o: for the other side another descriptor is closed.
LEMMA DispatchesRemove ==
  ASSUME IInv, NEW o \in Sides, NEW f \in MayRemove(o),
         table' = [table EXCEPT ![o] = Vacate(@, f)],
         CloseAll({Victim(table[o], f)}), UNCHANGED inserted,
         \A s \in Sides : Full(s)' <=> Full(s)
  PROVE  \A s \in Sides : Dispatches(s)
<1>v. PICK v : v = Victim(table[o], f)
  OBVIOUS
<1>1. /\ sock \in [Fds -> Ends \cup {Closed, Misc}] /\ table \in [Sides -> Tables]
      /\ TableOK(table[o]) /\ inserted \in [Sides -> SUBSET Fds]
  BY DEF IInv, Types
<1>2. f \in Fds
  BY <1>1 DEF MayRemove
<1>3. v \in Registered(table[o]) \cup {NoFd}
  BY <1>v, <1>1, <1>2, VacateOK
<1>4. Opened' = Opened \ {v}
  BY <1>v, <1>1, Constants DEF Opened, CloseAll
<1>5. Dispatches(o)
  <2>1. table'[o] = Vacate(table[o], f)
    BY <1>1
  <2> QED BY <2>1, <1>2, <1>4, <1>v DEF Dispatches
<1>6. ASSUME NEW s \in Sides, s # o
      PROVE  Dispatches(s)
  <2>1. table'[s] = table[s]
    BY <1>6, <1>1
  <2>2. CASE v = NoFd
    <3>1. Opened' = Opened
      BY <2>2, <1>4, Constants DEF Opened
    <3> QED BY <3>1, <2>1 DEF Dispatches
  <2>3. CASE v # NoFd
    <3>1. PICK i \in Slots : v = table[o].fd[i]
      BY <1>3, <2>3 DEF Registered
    <3>2. v \in Fds
      BY <3>1, <2>3, <1>1 DEF Tables
    <3>3. v \in Opened
      <4>1. sock[v] # Closed
        BY <3>1, <2>3, EndsOfSide, Constants DEF IInv, Sockets
      <4> QED BY <4>1, <3>2 DEF Opened
    <3>4. v \notin Registered(table[s])
      <4>1. ASSUME NEW j \in Slots, table[s].fd[j] = v
            PROVE  FALSE
        <5>1. \/ i = 0 /\ o = "proxy" /\ sock[v] = Misc
              \/ sock[v] \in {o} \X Conns
          BY <3>1, <2>3 DEF IInv, Sockets
        <5>2. \/ j = 0 /\ s = "proxy" /\ sock[v] = Misc
              \/ sock[v] \in {s} \X Conns
          BY <4>1, <2>3 DEF IInv, Sockets
        <5>3. sock[v] \in {o} \X Conns => sock[v] # Misc /\ sock[v][1] = o
          BY EndsOfSide
        <5>4. sock[v] \in {s} \X Conns => sock[v] # Misc /\ sock[v][1] = s
          BY EndsOfSide
        <5> QED BY <5>1, <5>2, <5>3, <5>4, <1>6
      <4> QED BY <4>1 DEF Registered
    <3> QED BY <3>2, <3>3, <3>4, <2>1, <1>4 DEF Dispatches
  <2> QED BY <2>2, <2>3
<1> QED BY <1>5, <1>6

\* insert(f) on side o, and when the table is full f is closed.
LEMMA DispatchesInsert ==
  ASSUME IInv, NEW o \in Sides, NEW f \in Fds, sock[f] \in {o} \X Conns,
         f \notin Registered(table[o]), InsertInto(o, f)
  PROVE  \A s \in Sides : Dispatches(s)
<1>1. /\ sock \in [Fds -> Ends \cup {Closed, Misc}] /\ table \in [Sides -> Tables]
      /\ inserted \in [Sides -> SUBSET Fds]
  BY DEF IInv, Types
<1>2. f \in Opened /\ sock[f] # Misc /\ sock[f][1] = o
  BY EndsOfSide DEF Opened
<1>3. /\ inserted'[o] = inserted[o] \cup {f}
      /\ \A s \in Sides : s # o => inserted'[s] = inserted[s]
  BY <1>1 DEF InsertInto
<1>4. \A s \in Sides : s # o => f \notin Registered(table[s])
  <2>1. ASSUME NEW s \in Sides, s # o, NEW j \in Slots, table[s].fd[j] = f
        PROVE  FALSE
    <3>1. \/ sock[f] = Misc
          \/ sock[f] \in {s} \X Conns
      BY <2>1, Constants DEF IInv, Sockets
    <3>2. sock[f] \in {s} \X Conns => sock[f][1] = s
      BY EndsOfSide
    <3> QED BY <3>1, <3>2, <1>2, <2>1
  <2> QED BY <2>1 DEF Registered
<1>5. CASE /\ \E i \in Slots :
                /\ Placed(o, i)
                /\ table' = [table EXCEPT ![o] = InsertAt(@, i, f)]
           /\ UNCHANGED <<sock, seen>>
  <2>1. PICK i \in Slots : /\ IsFirstFree(table[o], i)
                           /\ table' = [table EXCEPT ![o] = InsertAt(@, i, f)]
    BY <1>5 DEF Placed
  <2>2. table'[o] = InsertAt(table[o], i, f) /\ \A s \in Sides : s # o => table'[s] = table[s]
    BY <2>1, <1>1
  <2>3. UNCHANGED Opened /\ \A s \in Sides : Full(s)' <=> Full(s)
    BY <1>5 DEF Opened, Full
  <2>4. Dispatches(o)
    BY <2>1, <2>2, <2>3, <1>2, <1>3 DEF Dispatches
  <2>5. \A s \in Sides : s # o => Dispatches(s)
    BY <2>2, <2>3, <1>3 DEF Dispatches
  <2> QED BY <2>4, <2>5
<1>6. CASE /\ IsFull(table[o])
           /\ CloseAll({f})
           /\ seen' = seen \cup {FullMark(o)}
           /\ UNCHANGED table
  <2>1. Opened' = Opened \ {f}
    BY <1>6, <1>1 DEF Opened, CloseAll
  <2>2. Full(o)' /\ \A s \in Sides : s # o => (Full(s)' <=> Full(s))
    <3>1. \A s \in Sides : s # o => FullMark(s) # FullMark(o)
      BY Constants DEF FullMark
    <3> QED BY <3>1, <1>6 DEF Full
  <2>3. Dispatches(o)
    BY <2>1, <2>2, <1>2, <1>3, <1>6 DEF Dispatches
  <2>4. ASSUME NEW s \in Sides, s # o
        PROVE  Dispatches(s)
    BY <2>1, <2>2, <2>4, <1>2, <1>3, <1>4, <1>6 DEF Dispatches
  <2> QED BY <2>3, <2>4
<1> QED BY <1>5, <1>6 DEF InsertInto

\* The thread's steps, as the tables see them.
LEMMA ThreadDispatches ==
  ASSUME IInv, NEW s \in Sides, Thread(s)
  PROVE  \A t \in Sides : Dispatches(t)
<1> USE DEF kernel, maps, queues
<1>t. /\ sock \in [Fds -> Ends \cup {Closed, Misc}] /\ table \in [Sides -> Tables]
      /\ inserted \in [Sides -> SUBSET Fds] /\ cur \in [Sides -> Fds \cup {NoFd}]
      /\ tunnels \in Seq(Fds \cup {NoFd}) /\ actualfds \in Seq(Fds)
  BY DEF IInv, Types
<1>m. \A m \in {"early", "absent", "stale", "late"} : \A t \in Sides : m # FullMark(t)
  BY DEF FullMark
<1>1. CASE Poll(s) \/ Scan(s) \/ ReadBlocks(s) \/ ReadData(s) \/ NothingToWrite(s)
              \/ WriteFails(s) \/ IgnoreEof
  <2>1. UNCHANGED <<table, sock, inserted, seen>>
    BY <1>1 DEF Poll, Scan, ReadBlocks, ReadData, NothingToWrite, WriteFails, IgnoreEof
  <2> QED BY <2>1, DispatchesNothing DEF Full
<1>2. CASE TakeTunnel
  <2>1. CASE actualfds = <<>>
    <3>1. UNCHANGED <<table, sock, inserted, seen>>
      BY <1>2, <2>1 DEF TakeTunnel
    <3> QED BY <3>1, DispatchesNothing DEF Full
  <2>2. CASE actualfds # <<>>
    <3>1. 1 \in DOMAIN actualfds /\ Head(actualfds) = actualfds[1]
      BY <2>2, <1>t
    <3>2. actualfds[1] \in Fds
      BY <3>1, <1>t
    <3>3. InsertInto("net", actualfds[1])
      BY <1>2, <2>2, <3>1 DEF TakeTunnel
    <3>4. /\ sock[actualfds[1]] \in {"net"} \X Conns
          /\ actualfds[1] \notin Registered(table["net"])
      BY <3>1 DEF IInv, Pending0
    <3> QED BY <3>2, <3>3, <3>4, DispatchesInsert, Constants
  <2> QED BY <2>1, <2>2
<1>3. CASE Accept
  <2>1. PICK c \in backlog, f \in Fds : OpenOn(f, <<"proxy", c>>, {})
    BY <1>3 DEF Accept
  <2>2. UNCHANGED <<table, inserted>> /\ seen' = seen \cup {m \in {"stale"} : RefersTo(f)}
                                                 \cup {m \in {"late"} : WillClose(f)}
    BY <1>3, <2>1 DEF Accept, OpenOn
  <2>3. <<"proxy", c>> \in Ends
    BY Constants, EndOf DEF IInv, Types
  <2>4. \A t \in Sides : Full(t)' <=> Full(t)
    BY <2>2, <1>m DEF Full
  <2> QED BY <2>1, <2>2, <2>3, <2>4, DispatchesOpen
<1>4. CASE InsertProxy
  <2>1. /\ pc["proxy"] = "insert" /\ InsertInto("proxy", cur["proxy"])
    BY <1>4 DEF InsertProxy
  <2>2. /\ cur["proxy"] \in Fds /\ req # NoConn
        /\ sock[cur["proxy"]] = <<"proxy", req>>
        /\ cur["proxy"] \notin Registered(table["proxy"])
    BY <2>1, Constants DEF IInv, InHand, Pending0
  <2>3. <<"proxy", req>> \in {"proxy"} \X Conns
    BY <2>2, EndOf, Constants DEF IInv, Types
  <2> QED BY <2>1, <2>2, <2>3, DispatchesInsert, Constants
<1>5. CASE TakePromise
  <2>1. UNCHANGED <<table, sock, inserted>> /\ seen \subseteq seen'
        /\ seen' \subseteq seen \cup {"stale"}
    BY <1>5 DEF TakePromise
  <2>2. \A t \in Sides : Full(t)' <=> Full(t)
    BY <2>1, <1>m DEF Full
  <2> QED BY <2>1, <2>2, DispatchesNothing
<1>6. CASE Connect
  <2>1. UNCHANGED <<table, inserted>>
    BY <1>6 DEF Connect
  <2>2. CASE UNCHANGED <<sock, seen>>
    BY <2>1, <2>2, DispatchesNothing DEF Full
  <2>3. ASSUME NEW f \in Fds, NEW e \in Ends \cup {Misc}, NEW marks \in SUBSET {"absent"},
               OpenOn(f, e, marks)
        PROVE  \A t \in Sides : Dispatches(t)
    <3>1. seen' = seen \cup marks \cup {m \in {"stale"} : RefersTo(f)}
                  \cup {m \in {"late"} : WillClose(f)}
      BY <2>3 DEF OpenOn
    <3>2. \A t \in Sides : Full(t)' <=> Full(t)
      BY <3>1, <1>m DEF Full
    <3> QED BY <2>1, <2>3, <3>2, DispatchesOpen
  <2>4. CASE tunnels # <<>> /\ ~UNCHANGED <<sock, seen>>
    <3>1. PICK f \in Fds : LET c == sock[Head(tunnels)][2] IN
                OpenOn(f, <<"proxy", c>>, {}) \/ OpenOn(f, Misc, {"absent"})
      BY <1>6, <2>4 DEF Connect
    <3>2. CASE OpenOn(f, Misc, {"absent"})
      BY <3>2, <2>3
    <3>3. CASE OpenOn(f, <<"proxy", sock[Head(tunnels)][2]>>, {})
      <4>1. 1 \in DOMAIN tunnels /\ Head(tunnels) = tunnels[1]
        BY <2>4, <1>t
      <4>2. tunnels[1] # NoFd
        BY <1>6, <4>1 DEF Connect, IInv, Births, ClientBirths
      <4>3. sock[tunnels[1]] \in {"net"} \X Conns
        BY <4>1, <4>2 DEF IInv, Pending0
      <4>4. sock[tunnels[1]][2] \in Conns
        BY <4>3
      <4>5. <<"proxy", sock[tunnels[1]][2]>> \in Ends
        BY <4>4, EndOf, Constants
      <4> QED BY <3>3, <4>1, <4>5, <2>3
    <3> QED BY <3>1, <3>2, <3>3
  <2>5. tunnels = <<>> => UNCHANGED <<sock, seen>>
    BY <1>6 DEF Connect
  <2> QED BY <2>2, <2>4, <2>5
<1>7. CASE Lose(s)
  <2>1. /\ pc[s] \in {"read", "blocked"} /\ cur[s] \in Fds
        /\ UNCHANGED <<inserted, seen>>
        /\ table' = [table EXCEPT ![s] = Vacate(@, cur[s])]
        /\ CloseAll({Victim(table[s], cur[s])})
    BY <1>7 DEF Lose, Reading, IInv, InHand
  <2>2. cur[s] # NoFd
    BY <2>1, Constants
  <2>3. cur[s] \in MayRemove(s)
    BY <2>1, <2>2 DEF MayRemove, IInv, Known
  <2> QED BY <2>1, <2>3, DispatchesRemove DEF Full
<1>8. CASE LosePartner(s)
  <2>1. pc[s] = "lost" /\ cur[s] \in Fds /\ UNCHANGED inserted /\ Other(s) \in Sides
    BY <1>8, Constants DEF LosePartner, IInv, InHand
  <2>2. cur[s] \in MayRemove(Other(s))
    <3>1. Other(s) = "net" \/ s = "net"
      BY DEF Other, Sides
    <3> QED BY <2>1, <3>1 DEF MayRemove, Other, IInv, Known
  <2>3. CASE UNCHANGED <<table, sock, seen>>
    BY <2>1, <2>3, DispatchesNothing DEF Full
  <2>4. CASE /\ table' = [table EXCEPT ![Other(s)] = Vacate(@, cur[s])]
             /\ CloseAll({Victim(table[Other(s)], cur[s])})
             /\ seen' = seen \cup {m \in {"early"} :
                                      cur[s] \notin Registered(table[Other(s)])}
    <3>1. \A t \in Sides : Full(t)' <=> Full(t)
      BY <2>4, <1>m DEF Full
    <3> QED BY <2>1, <2>2, <2>4, <3>1, DispatchesRemove
  <2> QED BY <1>8, <2>3, <2>4 DEF LosePartner
<1>9. ASSUME NEW n \in 1 .. MaxWrite, Write(s, n)
      PROVE  \A t \in Sides : Dispatches(t)
  <2>1. PICK last \in BOOLEAN :
           /\ table' = [table EXCEPT ![s] = IF last THEN Vacate(@, cur[s]) ELSE @]
           /\ CloseAll(IF last THEN {Victim(table[s], cur[s])} ELSE {})
    <3>1. PICK last : last = (/\ buffer[s][cur[s]].offset + n
                                    = Len(Head(buffer[s][cur[s]].chunks))
                              /\ Awaited(s, cur[s]))
      OBVIOUS
    <3> QED BY <1>9, <3>1 DEF Write
  <2>2. UNCHANGED <<inserted, seen>> /\ pc[s] = "write" /\ cur[s] # NoFd
    BY <1>9 DEF Write, Writing, HasData
  <2>3. CASE last
    <3>1. cur[s] \in MayRemove(s)
      BY <2>2, <1>t DEF MayRemove, IInv, Known
    <3> QED BY <2>1, <2>2, <2>3, <3>1, DispatchesRemove DEF Full
  <2>4. CASE ~last
    <3>1. table' = table /\ sock' = sock
      BY <2>1, <2>4, <1>t DEF CloseAll
    <3> QED BY <2>2, <3>1, DispatchesNothing DEF Full
  <2> QED BY <2>3, <2>4
<1> QED BY <1>1, <1>2, <1>3, <1>4, <1>5, <1>6, <1>7, <1>8, <1>9 DEF Thread

\* Every step of the relay, as the tables see it.
LEMMA NextDispatches ==
  ASSUME IInv, [Next]_vars
  PROVE  UNCHANGED listener /\ \A t \in Sides : Dispatches(t)
<1> USE DEF kernel, maps, queues, loops
<1>m. \A m \in {"early", "absent", "stale", "late"} : \A t \in Sides : m # FullMark(t)
  BY DEF FullMark
<1>1. CASE UNCHANGED vars
  <2>1. UNCHANGED <<listener, table, sock, inserted, seen>>
    BY <1>1 DEF vars
  <2> QED BY <2>1, DispatchesNothing DEF Full
<1>2. ASSUME NEW s \in Sides, Thread(s)
      PROVE  UNCHANGED listener /\ \A t \in Sides : Dispatches(t)
  BY <1>2, ThreadDispatches DEF Thread
<1>3. ASSUME NEW f \in Fds, NEW c \in Conns, OpenOn(f, <<"net", c>>, {}),
             UNCHANGED <<table, inserted>>
      PROVE  \A t \in Sides : Dispatches(t)
  <2>1. seen' = seen \cup {m \in {"stale"} : RefersTo(f)}
                \cup {m \in {"late"} : WillClose(f)}
    BY <1>3 DEF OpenOn
  <2>2. \A t \in Sides : Full(t)' <=> Full(t)
    BY <2>1, <1>m DEF Full
  <2>3. <<"net", c>> \in Ends
    BY EndOf, Constants
  <2> QED BY <1>3, <2>2, <2>3, DispatchesOpen
<1>4. CASE Promise
  <2>1. UNCHANGED <<listener, table, inserted>>
    BY <1>4 DEF Promise
  <2>2. CASE \E f \in Fds : OpenOn(f, <<"net", req>>, {})
    <3>1. req \in Conns
      BY <1>4 DEF Promise, IInv, InHand, Types
    <3> QED BY <2>1, <2>2, <3>1, <1>3
  <2>3. CASE UNCHANGED sock /\ seen' = seen \cup {"absent"}
    <3>1. \A t \in Sides : Full(t)' <=> Full(t)
      BY <2>3, <1>m DEF Full
    <3> QED BY <2>1, <2>3, <3>1, DispatchesNothing
  <2> QED BY <1>4, <2>1, <2>2, <2>3 DEF Promise
<1>5. ASSUME NEW c \in Conns, Offer(c), UNCHANGED listener
      PROVE  UNCHANGED listener /\ \A t \in Sides : Dispatches(t)
  <2>1. UNCHANGED <<table, inserted>> /\ \E f \in Fds : OpenOn(f, <<"net", c>>, {})
    BY <1>5 DEF Offer
  <2> QED BY <2>1, <1>5, <1>3
<1>6. ASSUME \/ \E c \in Conns : Arrive(c)
             \/ \E e \in Ends : PeerSend(e) \/ PeerEnd(e),
             UNCHANGED listener
      PROVE  UNCHANGED listener /\ \A t \in Sides : Dispatches(t)
  <2>1. UNCHANGED <<table, sock, inserted, seen>>
    BY <1>6 DEF Arrive, PeerSend, PeerEnd
  <2> QED BY <2>1, <1>6, DispatchesNothing DEF Full
<1> QED BY <1>1, <1>2, <1>4, <1>5, <1>6 DEF Next, Environment

\* The operators of PollTable mean the same inside the two instances.
LEMMA SameTables ==
  /\ ProxyTable!Slots = Slots /\ NetTable!Slots = Slots
  /\ ProxyTable!NoFd = NoFd /\ NetTable!NoFd = NoFd
  BY DEF ProxyTable!Slots, NetTable!Slots, Slots, ProxyTable!NoFd, NetTable!NoFd, NoFd

\* Both dispatchers start with an empty table.
LEMMA InitTables == Init => ProxyTable!Init /\ NetTable!Init
<1> SUFFICES ASSUME Init PROVE ProxyTable!Init /\ NetTable!Init
  OBVIOUS
<1>1. /\ listener \in Listeners /\ listener \in Fds \cup {NoFd}
      /\ table["proxy"] = NewTable(listener) /\ table["net"] = NewTable(NoFd)
      /\ inserted["proxy"] = {} /\ inserted["net"] = {} /\ seen = {}
      /\ sock = [f \in Fds |-> IF f \in {0, listener} THEN Misc ELSE Closed]
  BY Constants DEF Init
<1>2. /\ ProxyTable!NewTable(listener) = NewTable(listener)
      /\ NetTable!NewTable(NoFd) = NewTable(NoFd)
  BY SameTables DEF ProxyTable!NewTable, NetTable!NewTable, NewTable
<1>3. Opened \in SUBSET Fds /\ {listener} \ {NoFd} \subseteq Opened
  BY <1>1, Constants DEF Opened
<1>4. ProxyTable!Init
  BY <1>1, <1>2, <1>3, SameTables DEF ProxyTable!Init
<1>5. NetTable!Init
  BY <1>1, <1>2, <1>3, SameTables DEF NetTable!Init
<1> QED BY <1>4, <1>5

\* What Dispatches lets happen is a step of PollDispatcher, or a stutter.
LEMMA ProxyDispatches ==
  ASSUME IInv, UNCHANGED listener, Dispatches("proxy")
  PROVE  ProxyTable!Next \/ UNCHANGED ProxyTable!vars
<1>1. /\ \A i \in Slots : ProxyTable!IsFirstFree(table["proxy"], i)
                             <=> IsFirstFree(table["proxy"], i)
      /\ \A i \in Slots, f \in Fds : ProxyTable!InsertAt(table["proxy"], i, f)
                                        = InsertAt(table["proxy"], i, f)
      /\ ProxyTable!Registered(table["proxy"]) = Registered(table["proxy"])
      /\ ProxyTable!IsFull(table["proxy"]) <=> IsFull(table["proxy"])
      /\ \A f \in Fds : /\ ProxyTable!Vacate(table["proxy"], f) = Vacate(table["proxy"], f)
                        /\ ProxyTable!Victim(table["proxy"], f) = Victim(table["proxy"], f)
  BY SameTables
  DEF ProxyTable!IsFirstFree, IsFirstFree, ProxyTable!IsFree, IsFree,
      ProxyTable!InsertAt, InsertAt, ProxyTable!Registered, Registered,
      ProxyTable!IsFull, IsFull, ProxyTable!Vacate, Vacate, ProxyTable!Victim, Victim
<1>2. /\ ProxyTable!Removable = MayRemove("proxy")
      /\ ("proxyFull" \in seen <=> Full("proxy")) /\ ("proxyFull" \in seen' <=> Full("proxy")')
  BY SameTables DEF ProxyTable!Removable, MayRemove, IsServer, Full, FullMark
<1>3. (("proxyFull" \in seen)' <=> ("proxyFull" \in seen))
         => ("proxyFull" \in seen)' = ("proxyFull" \in seen)
  OBVIOUS
<1>4. CASE UNCHANGED <<table["proxy"], Opened, inserted["proxy"]>>
           /\ (Full("proxy")' <=> Full("proxy"))
  BY <1>2, <1>4 DEF ProxyTable!vars, FullMark
<1>5. ASSUME NEW f \in Fds,
             f \notin Opened, Opened' = Opened \cup {f},
             UNCHANGED <<table["proxy"], inserted["proxy"]>>,
             Full("proxy")' <=> Full("proxy")
      PROVE  ProxyTable!Next
  <2>1. ProxyTable!Open(f)
    BY <1>2, <1>5 DEF ProxyTable!Open, FullMark
  <2> QED BY <2>1 DEF ProxyTable!Next
<1>6. ASSUME NEW f \in Fds, f \in Opened \ Registered(table["proxy"]),
             NEW i \in Slots, IsFirstFree(table["proxy"], i),
             table'["proxy"] = InsertAt(table["proxy"], i, f),
             inserted'["proxy"] = inserted["proxy"] \cup {f},
             UNCHANGED Opened, Full("proxy")' <=> Full("proxy")
      PROVE  ProxyTable!Next
  <2>1. ProxyTable!Insert(f)
    BY <1>1, <1>2, <1>6, SameTables DEF ProxyTable!Insert, FullMark
  <2> QED BY <2>1 DEF ProxyTable!Next
<1>7. ASSUME NEW f \in Fds, f \in Opened \ Registered(table["proxy"]),
             IsFull(table["proxy"]), Opened' = Opened \ {f}, Full("proxy")',
             inserted'["proxy"] = inserted["proxy"] \cup {f},
             UNCHANGED table["proxy"]
      PROVE  ProxyTable!Next
  <2>1. ProxyTable!Refuse(f)
    BY <1>1, <1>2, <1>7 DEF ProxyTable!Refuse, FullMark
  <2> QED BY <2>1 DEF ProxyTable!Next
<1>8. ASSUME NEW f \in Fds, f \in MayRemove("proxy"),
             table'["proxy"] = Vacate(table["proxy"], f),
             Opened' = Opened \ {Victim(table["proxy"], f)},
             UNCHANGED inserted["proxy"], Full("proxy")' <=> Full("proxy")
      PROVE  ProxyTable!Next
  <2>1. ProxyTable!Remove(f)
    BY <1>1, <1>2, <1>8 DEF ProxyTable!Remove, FullMark
  <2> QED BY <2>1 DEF ProxyTable!Next
<1>9. ASSUME NEW f \in Fds, f \in Opened \ Registered(table["proxy"]),
             Opened' = Opened \ {f},
             UNCHANGED <<table["proxy"], inserted["proxy"]>>,
             Full("proxy")' <=> Full("proxy")
      PROVE  ProxyTable!Next
  <2>1. ProxyTable!CloseOther(f)
    BY <1>1, <1>2, <1>9 DEF ProxyTable!CloseOther, FullMark
  <2> QED BY <2>1 DEF ProxyTable!Next
<1> QED BY <1>4, <1>5, <1>6, <1>7, <1>8, <1>9 DEF Dispatches

\* What the net thread does to its dispatcher is a step of PollDispatcher.
LEMMA NetDispatches ==
  ASSUME IInv, UNCHANGED listener, Dispatches("net")
  PROVE  NetTable!Next \/ UNCHANGED NetTable!vars
<1>1. /\ \A i \in Slots : NetTable!IsFirstFree(table["net"], i)
                             <=> IsFirstFree(table["net"], i)
      /\ \A i \in Slots, f \in Fds : NetTable!InsertAt(table["net"], i, f)
                                        = InsertAt(table["net"], i, f)
      /\ NetTable!Registered(table["net"]) = Registered(table["net"])
      /\ NetTable!IsFull(table["net"]) <=> IsFull(table["net"])
      /\ \A f \in Fds : /\ NetTable!Vacate(table["net"], f) = Vacate(table["net"], f)
                        /\ NetTable!Victim(table["net"], f) = Victim(table["net"], f)
  BY SameTables
  DEF NetTable!IsFirstFree, IsFirstFree, NetTable!IsFree, IsFree,
      NetTable!InsertAt, InsertAt, NetTable!Registered, Registered,
      NetTable!IsFull, IsFull, NetTable!Vacate, Vacate, NetTable!Victim, Victim
<1>2. /\ NetTable!Removable = MayRemove("net")
      /\ ("netFull" \in seen <=> Full("net")) /\ ("netFull" \in seen' <=> Full("net")')
  BY SameTables DEF NetTable!Removable, MayRemove, IsServer, Full, FullMark
<1>3. (("netFull" \in seen)' <=> ("netFull" \in seen))
         => ("netFull" \in seen)' = ("netFull" \in seen)
  OBVIOUS
<1>4. CASE UNCHANGED <<table["net"], Opened, inserted["net"]>>
           /\ (Full("net")' <=> Full("net"))
  BY <1>2, <1>4 DEF NetTable!vars, FullMark
<1>5. ASSUME NEW f \in Fds,
             f \notin Opened, Opened' = Opened \cup {f},
             UNCHANGED <<table["net"], inserted["net"]>>,
             Full("net")' <=> Full("net")
      PROVE  NetTable!Next
  <2>1. NetTable!Open(f)
    BY <1>2, <1>5 DEF NetTable!Open, FullMark
  <2> QED BY <2>1 DEF NetTable!Next
<1>6. ASSUME NEW f \in Fds, f \in Opened \ Registered(table["net"]),
             NEW i \in Slots, IsFirstFree(table["net"], i),
             table'["net"] = InsertAt(table["net"], i, f),
             inserted'["net"] = inserted["net"] \cup {f},
             UNCHANGED Opened, Full("net")' <=> Full("net")
      PROVE  NetTable!Next
  <2>1. NetTable!Insert(f)
    BY <1>1, <1>2, <1>6, SameTables DEF NetTable!Insert, FullMark
  <2> QED BY <2>1 DEF NetTable!Next
<1>7. ASSUME NEW f \in Fds, f \in Opened \ Registered(table["net"]),
             IsFull(table["net"]), Opened' = Opened \ {f}, Full("net")',
             inserted'["net"] = inserted["net"] \cup {f},
             UNCHANGED table["net"]
      PROVE  NetTable!Next
  <2>1. NetTable!Refuse(f)
    BY <1>1, <1>2, <1>7 DEF NetTable!Refuse, FullMark
  <2> QED BY <2>1 DEF NetTable!Next
<1>8. ASSUME NEW f \in Fds, f \in MayRemove("net"),
             table'["net"] = Vacate(table["net"], f),
             Opened' = Opened \ {Victim(table["net"], f)},
             UNCHANGED inserted["net"], Full("net")' <=> Full("net")
      PROVE  NetTable!Next
  <2>1. NetTable!Remove(f)
    BY <1>1, <1>2, <1>8 DEF NetTable!Remove, FullMark
  <2> QED BY <2>1 DEF NetTable!Next
<1>9. ASSUME NEW f \in Fds, f \in Opened \ Registered(table["net"]),
             Opened' = Opened \ {f},
             UNCHANGED <<table["net"], inserted["net"]>>,
             Full("net")' <=> Full("net")
      PROVE  NetTable!Next
  <2>1. NetTable!CloseOther(f)
    BY <1>1, <1>2, <1>9 DEF NetTable!CloseOther, FullMark
  <2> QED BY <2>1 DEF NetTable!Next
<1> QED BY <1>4, <1>5, <1>6, <1>7, <1>8, <1>9 DEF Dispatches

\* Both tables of the relay behave as PollDispatcher says, whatever the two
\* threads do: nobody but insert and remove touches a table, remove is called
\* with descriptors the table was given, and all else that is opened or closed
\* is not registered.
THEOREM Refinement == Spec => ImplementsTables
<1>1. IInv /\ [Next]_vars => [ProxyTable!Next]_(ProxyTable!vars)
  BY NextDispatches, ProxyDispatches, Constants
<1>2. IInv /\ [Next]_vars => [NetTable!Next]_(NetTable!vars)
  BY NextDispatches, NetDispatches, Constants
<1> QED BY <1>1, <1>2, InitTables, Invariance, PTL
        DEF Spec, ImplementsTables, ProxyTable!Spec, NetTable!Spec

-----------------------------------------------------------------------------
(* The two halves of a connection are closed together.                     *)

AtRead(s) == pc[s] \in {"read", "blocked"}

\* The slot that sockMap has for the descriptor in a thread's hand is that
\* descriptor's, or was emptied meanwhile; it is not the listener's.
Grip ==
    \A s \in Sides : pc[s] \in {"read", "blocked", "write"} /\ cur[s] # NoFd =>
       /\ Victim(table[s], cur[s]) \in {cur[s], NoFd}
       /\ cur[s] # table[s].fd[0]

\* The descriptors of a side that are closed next, or when their buffer is
\* written.
Doomed(s) == removed[s] \cup {f \in {cur[Other(s)]} : pc[Other(s)] = "lost"}

\* The numbers that the maps or a thread of side s have for partners.
Reach(s) == {partner[s][g] : g \in Routed(s) \cup {f \in {cur[s]} : AtRead(s)}}

\* Nobody is going to close f, which is to be coupled on side s.
Fresh(s, f) == f \notin Doomed(s) \cup Reach(Other(s))

\* f waits to be closed, and will be.
Waits(s, f) == \/ f \in removed[s] /\ buffer[s][f].chunks # <<>>
               \/ pc[Other(s)] = "lost" /\ cur[Other(s)] = f

\* The other half of a descriptor in use is open, or the descriptor waits.
Paired ==
    \A s \in Sides : \A f \in Routed(s) :
       \/ partner[s][f] = 0
       \/ sock[f] \in Ends /\ sock[partner[s][f]] = Opposite(sock[f])
       \/ Waits(s, f)

\* What is to be closed has no other half.
Orphans ==
    \A s \in Sides : \A f \in Doomed(s) \cap InUse(s) :
       sock[f] \in Ends => ~IsOpen(Opposite(sock[f]))

\* What is to be coupled is open, and nobody is about to close it.
Newcomers ==
    /\ \A i \in DOMAIN tunnels : tunnels[i] # NoFd => Fresh("net", tunnels[i])
    /\ IsServer /\ pc["proxy"] \in {"insert", "await"} => Fresh("proxy", cur["proxy"])
    /\ pc["proxy"] = "await" => cur["proxy"] \in Registered(table["proxy"])

\* The partner of a descriptor that was closed in a thread's hand is closed.
Behind ==
    \A s \in Sides : AtRead(s) /\ cur[s] \notin Registered(table[s]) =>
       sock[partner[s][cur[s]]] \notin Ends

Pairs == Grip /\ (Usual(seen) => Paired /\ Orphans /\ Newcomers /\ Behind)

\* Only an absent peer leaves everything as usual.
LEMMA UsualMarks ==
  ASSUME IInv
  PROVE  Usual(seen) <=> \A m \in {"stale", "late", "early", "proxyFull", "netFull"} : m \notin seen
<1>1. seen \in SUBSET Marks
  BY DEF IInv, Types
<1> QED BY <1>1 DEF Usual, Marks

\* The program starts with nothing to close.
LEMMA InitPairs == Init => Pairs
<1> SUFFICES ASSUME Init PROVE Pairs
  OBVIOUS
<1>1. /\ \A s \in Sides : pc[s] = "poll" /\ removed[s] = {} /\ Other(s) \in Sides
      /\ tunnels = <<>> /\ \A s \in Sides, f \in Fds : partner[s][f] = 0
      /\ IInv
  BY InitIInv, Constants DEF Init
<1>2. \A s \in Sides : Routed(s) \subseteq Fds
  BY <1>1, Facts DEF Routed
<1>3. Grip
  BY <1>1 DEF Grip
<1>4. Paired
  BY <1>1, <1>2 DEF Paired
<1>5. Orphans
  BY <1>1 DEF Orphans, Doomed
<1>6. Newcomers
  BY <1>1, Constants DEF Newcomers
<1>7. Behind
  BY <1>1 DEF Behind, AtRead
<1> QED BY <1>3, <1>4, <1>5, <1>6, <1>7 DEF Pairs

\* What the pieces are, in every state of the invariant.
LEMMA PairFacts ==
  ASSUME IInv
  PROVE  /\ pc \in [Sides -> Places \cup {"insert", "await"}]
         /\ cur \in [Sides -> Fds \cup {NoFd}]
         /\ partner \in [Sides -> [Fds -> Fds]]
         /\ removed \in [Sides -> SUBSET Fds]
         /\ sock \in [Fds -> Ends \cup {Closed, Misc}]
         /\ table \in [Sides -> Tables] /\ \A s \in Sides : TableOK(table[s])
         /\ tunnels \in Seq(Fds \cup {NoFd}) /\ actualfds \in Seq(Fds)
         /\ "insert" \notin Places /\ "await" \notin Places
         /\ \A s \in Sides : /\ Routed(s) \subseteq InUse(s) /\ InUse(s) \subseteq Fds
                             /\ Registered(table[s]) \subseteq InUse(s)
                             /\ Other(s) \in Sides /\ Other(s) # s /\ Other(Other(s)) = s
         /\ \A s \in Sides : pc[s] \in {"insert", "await", "read", "blocked", "lost"} => cur[s] \in Fds
         /\ \A s \in Sides : \A f \in InUse(s) :
               f \in Routed(s) \/ (s = "proxy" /\ pc["proxy"] = "await" /\ f = cur["proxy"])
         /\ \A i \in DOMAIN tunnels : tunnels[i] # NoFd => tunnels[i] \in Fds
         /\ \A i \in DOMAIN actualfds : actualfds[i] \in Fds
<1>1. /\ pc \in [Sides -> Places \cup {"insert", "await"}]
      /\ cur \in [Sides -> Fds \cup {NoFd}]
      /\ partner \in [Sides -> [Fds -> Fds]]
      /\ removed \in [Sides -> SUBSET Fds]
      /\ sock \in [Fds -> Ends \cup {Closed, Misc}]
      /\ table \in [Sides -> Tables] /\ \A s \in Sides : TableOK(table[s])
      /\ tunnels \in Seq(Fds \cup {NoFd}) /\ actualfds \in Seq(Fds)
      /\ "insert" \notin Places /\ "await" \notin Places
  BY DEF IInv, Types, Places
<1>2. \A s \in Sides : /\ Routed(s) \subseteq InUse(s) /\ InUse(s) \subseteq Fds
                       /\ Registered(table[s]) \subseteq InUse(s)
                       /\ Other(s) \in Sides /\ Other(s) # s /\ Other(Other(s)) = s
  BY Facts, Constants DEF Routed, InUse
<1>3. \A s \in Sides : pc[s] \in {"insert", "await", "read", "blocked", "lost"} => cur[s] \in Fds
  BY DEF IInv, InHand
<1>4. \A s \in Sides : \A f \in InUse(s) :
               f \in Routed(s) \/ (s = "proxy" /\ pc["proxy"] = "await" /\ f = cur["proxy"])
  <2> SUFFICES ASSUME NEW s \in Sides, NEW f \in InUse(s), f \notin Routed(s)
               PROVE  s = "proxy" /\ pc["proxy"] = "await" /\ f = cur["proxy"]
    OBVIOUS
  <2>1. s = "proxy" /\ pc["proxy"] = "await"
    BY DEF Routed
  <2>2. Routed(s) = InUse(s) \ {cur[s]}
    BY <2>1 DEF Routed
  <2> QED BY <2>1, <2>2
<1> QED BY <1>1, <1>2, <1>3, <1>4

\* The property, from the invariant.
LEMMA PairsMeans ==
  ASSUME IInv, Pairs
  PROVE  PairsCloseTogether
<1> SUFFICES ASSUME Usual(seen), NEW s \in Sides, NEW f \in Registered(table[s])
             PROVE  \/ partner[s][f] = 0 \/ sock[f] = <<"proxy", req>>
                    \/ sock[partner[s][f]] = Opposite(sock[f])
                    \/ f \in removed[s] /\ buffer[s][f].chunks # <<>>
                    \/ pc[Other(s)] = "lost" /\ cur[Other(s)] = f
  BY DEF PairsCloseTogether
<1>1. CASE f \in Routed(s)
  BY <1>1 DEF Pairs, Paired, Waits
<1>2. CASE f \notin Routed(s)
  <2>1. s = "proxy" /\ pc["proxy"] = "await" /\ f = cur["proxy"] /\ f \in Fds
    BY <1>2, PairFacts
  <2>2. IsServer /\ "stale" \notin seen
    BY <2>1, UsualMarks DEF IInv, InHand
  <2>3. sock[f] \in {Closed, <<"proxy", req>>}
    BY <2>1, <2>2 DEF IInv, Births, ServerBirths
  <2>4. sock[f] # Closed
    BY <2>1, Facts, EndsOfSide, Constants
  <2> QED BY <2>3, <2>4
<1> QED BY <1>1, <1>2

\* Tables, removed sets and partners shrink, and what a thread takes into its
\* hand was in reach.
Steps(s, gone, p, g) ==
    /\ LoopStep(s, gone, p, g)
    /\ \A t \in Sides : /\ removed'[t] \subseteq Doomed(t)
                        /\ \A f \in Fds : Victim(table'[t], f) \in {Victim(table[t], f), NoFd}

\* What was closed is not in use.
LEMMA LoopGone ==
  ASSUME IInv, NEW s \in Sides, NEW gone \in SUBSET Fds, NEW p \in Places,
         NEW g \in Fds \cup {NoFd}, LoopStep(s, gone, p, g)
  PROVE  \A t \in Sides : \A f \in InUse(t)' : f \notin gone
<1> SUFFICES ASSUME NEW t \in Sides, NEW f \in InUse(t)', f \in gone PROVE FALSE
  OBVIOUS
<1>1. f \in InUse(t)
  BY LoopSockets
<1>2. PICK o \in Sides : f \in Registered(table[o])
  BY DEF LoopStep, Shrinks
<1>3. f \notin Registered(table[t])'
  BY DEF LoopStep, Shrinks, Registered
<1>4. \/ t = "net" /\ f \in {actualfds[i] : i \in DOMAIN actualfds}
      \/ t = "proxy" /\ f = cur["proxy"] /\ pc["proxy"] = "insert"
  <2>1. /\ actualfds' = actualfds
        /\ pc'["proxy"] = "insert" => pc["proxy"] = "insert" /\ cur'["proxy"] = cur["proxy"]
    BY PairFacts, Constants DEF LoopStep, Goes, queues
  <2>2. CASE t = "net"
    BY <1>3, <2>1, <2>2 DEF InUse
  <2>3. CASE t = "proxy"
    BY <1>3, <2>1, <2>3 DEF InUse
  <2> QED BY <2>2, <2>3, Constants
<1>5. CASE t = "net" /\ f \in {actualfds[i] : i \in DOMAIN actualfds}
  <2>1. sock[f] \in {"net"} \X Conns /\ f \notin Registered(table["net"])
    BY <1>5 DEF IInv, Pending0
  <2>2. o = "proxy"
    BY <1>2, <2>1, Constants
  <2>3. sock[f] \in ({"proxy"} \X Conns) \cup {Misc}
    BY <1>2, <2>2, Facts
  <2> QED BY <2>1, <2>3, EndsOfSide, Constants
<1>6. CASE t = "proxy" /\ f = cur["proxy"] /\ pc["proxy"] = "insert"
  <2>1. sock[f] = <<"proxy", req>> /\ f \notin Registered(table["proxy"])
    BY <1>6 DEF IInv, Pending0
  <2>2. f \in Registered(table["net"])
    BY <1>2, <2>1, Constants
  <2>3. sock[f] \in {"net"} \X Conns
    BY <2>2, Facts
  <2> QED BY <2>1, <2>3
<1> QED BY <1>4, <1>5, <1>6

\* Nothing comes in reach, and nobody else is doomed but the partner of a
\* descriptor that is lost.
LEMMA LoopReach ==
  ASSUME IInv, IInv', NEW s \in Sides, NEW gone \in SUBSET Fds, NEW p \in Places,
         NEW g \in Fds \cup {NoFd}, Steps(s, gone, p, g)
  PROVE  /\ \A t \in Sides : /\ Routed(t)' \subseteq Routed(t)
                             /\ InUse(t)' \subseteq InUse(t)
                             /\ Reach(t)' \subseteq Reach(t)
                             /\ Doomed(t)' \subseteq Doomed(t) \cup Reach(Other(t))
                             /\ \A f \in Doomed(t)' : f \in Doomed(t) \/ (p = "lost" /\ f = g /\ t = Other(s))
         /\ p \in {"read", "blocked", "write"} /\ g # NoFd =>
               \/ AtRead(s) /\ g = cur[s] /\ p = "blocked"
               \/ g \in Registered(table[s])' /\ g \in Registered(table[s])
<1>1. /\ pc' = [pc EXCEPT ![s] = p] /\ cur' = [cur EXCEPT ![s] = g]
      /\ pc[s] \notin {"insert", "await"}
      /\ p = "lost" => AtRead(s) /\ g = partner[s][cur[s]]
      /\ partner' = partner
  BY DEF Steps, LoopStep, Goes, AtRead
<1>2. \A t \in Sides : /\ pc'[t] = IF t = s THEN p ELSE pc[t]
                       /\ cur'[t] = IF t = s THEN g ELSE cur[t]
  BY <1>1, PairFacts
<1>3. \A t \in Sides : /\ Registered(table[t])' \subseteq Registered(table[t])
                       /\ InUse(t)' \subseteq InUse(t)
  BY LoopSockets DEF Steps
<1>4. \A t \in Sides : Routed(t)' \subseteq Routed(t)
  <2>1. pc'["proxy"] = "await" <=> pc["proxy"] = "await"
    BY <1>1, <1>2, PairFacts, Constants
  <2>2. pc["proxy"] = "await" => cur'["proxy"] = cur["proxy"]
    BY <1>1, <1>2, Constants
  <2> QED BY <1>3, <2>1, <2>2 DEF Routed
<1>5. p \in {"read", "blocked", "write"} /\ g # NoFd =>
               \/ AtRead(s) /\ g = cur[s] /\ p = "blocked"
               \/ g \in Registered(table[s])' /\ g \in Registered(table[s])
  <2> SUFFICES ASSUME p \in {"read", "blocked", "write"}, g # NoFd
               PROVE  \/ AtRead(s) /\ g = cur[s] /\ p = "blocked"
                      \/ g \in Registered(table[s])' /\ g \in Registered(table[s])
    OBVIOUS
  <2>1. CASE AtRead(s) /\ g = cur[s] /\ p = "blocked"
    BY <2>1
  <2>2. CASE \E i \in Slots \ {0} : table'[s].fd[i] = g
    <3>1. g \in Registered(table[s])'
      BY <2>2 DEF Registered
    <3> QED BY <3>1, <1>3
  <2> QED BY <2>1, <2>2 DEF Steps, LoopStep, Goes, AtRead
<1>6. ASSUME NEW t \in Sides PROVE Reach(t)' \subseteq Reach(t)
  <2> SUFFICES ASSUME NEW h \in Routed(t)' \cup {f \in {cur'[t]} : AtRead(t)'}
               PROVE  partner[t][h] \in Reach(t)
    BY <1>1 DEF Reach
  <2>1. CASE h \in Routed(t)'
    BY <2>1, <1>4 DEF Reach
  <2>2. CASE h = cur'[t] /\ AtRead(t)' /\ t # s
    BY <2>2, <1>2 DEF Reach, AtRead
  <2>3. CASE h = cur'[t] /\ AtRead(t)' /\ t = s
    <3>1. h = g /\ p \in {"read", "blocked"} /\ g # NoFd
      BY <2>3, <1>2, PairFacts, Constants DEF AtRead, IInv, InHand
    <3>2. CASE AtRead(s) /\ g = cur[s]
      BY <3>1, <3>2, <2>3 DEF Reach
    <3>3. CASE g \in Registered(table[s])
      <4>1. pc'[s] # "await" /\ pc[s] # "await"
        BY <3>1, <1>1, <1>2
      <4>2. g \in Routed(s)
        BY <4>1, <3>3, PairFacts
      <4> QED BY <4>2, <3>1, <2>3 DEF Reach
    <3> QED BY <3>1, <3>2, <3>3, <1>5
  <2> QED BY <2>1, <2>2, <2>3
<1>7. ASSUME NEW t \in Sides, NEW f \in Doomed(t)'
      PROVE  /\ f \in Doomed(t) \cup Reach(Other(t))
             /\ f \in Doomed(t) \/ (p = "lost" /\ f = g /\ t = Other(s))
  <2>1. CASE f \in removed'[t]
    BY <2>1 DEF Steps
  <2>2. CASE f = cur'[Other(t)] /\ pc'[Other(t)] = "lost"
    <3>1. CASE Other(t) = s
      <4>1. p = "lost" /\ f = g /\ t = Other(s)
        BY <2>2, <3>1, <1>2, Constants
      <4>2. f = partner[s][cur[s]] /\ AtRead(s)
        BY <4>1, <1>1
      <4>3. f \in Reach(s)
        BY <4>2 DEF Reach
      <4> QED BY <4>1, <4>3, <3>1
    <3>2. CASE Other(t) # s
      BY <2>2, <3>2, <1>2, Constants DEF Doomed
    <3> QED BY <3>1, <3>2
  <2> QED BY <2>1, <2>2 DEF Doomed
<1> QED BY <1>3, <1>4, <1>5, <1>6, <1>7

\* What a step of a loop has to show for the pairs.
LEMMA LoopPairs ==
  ASSUME IInv, IInv', Pairs, NEW s \in Sides, NEW gone \in SUBSET Fds, NEW p \in Places,
         NEW g \in Fds \cup {NoFd}, Steps(s, gone, p, g),
         Usual(seen') =>
            /\ \A t \in Sides : \A f \in Routed(t)' : Waits(t, f) => Waits(t, f)'
            /\ \A y \in gone, t \in Sides : \A x \in Routed(t)' :
                  sock[y] \in Ends /\ sock[y] = Opposite(sock[x]) => Waits(t, x)'
            /\ pc["proxy"] = "await" => cur["proxy"] \notin gone
            /\ p = "lost" /\ g \in InUse(Other(s)) /\ sock[g] \in Ends =>
                  ~IsOpen(Opposite(sock[g]))'
            /\ \A t \in Sides : AtRead(t)' /\ AtRead(t) /\ cur[t] \in gone =>
                  sock'[partner[t][cur[t]]] \notin Ends
  PROVE  Pairs'
<1>1. /\ pc' = [pc EXCEPT ![s] = p] /\ cur' = [cur EXCEPT ![s] = g]
      /\ pc[s] \notin {"insert", "await"}
      /\ UNCHANGED <<partner, tunnels, listener>> /\ seen \subseteq seen'
  BY DEF Steps, LoopStep, Goes, queues
<1>2. \A t \in Sides : /\ pc'[t] = IF t = s THEN p ELSE pc[t]
                       /\ cur'[t] = IF t = s THEN g ELSE cur[t]
  BY <1>1, PairFacts
<1>3. /\ \A t \in Sides : /\ Registered(table[t])' \subseteq Registered(table[t])
                          /\ Registered(table[t]) \ gone \subseteq Registered(table[t])'
      /\ \A f \in Fds : sock'[f] # sock[f] => f \in gone /\ sock'[f] = Closed
      /\ \A f \in gone : sock'[f] = Closed
  <2>1. \A f \in gone : sock'[f] = Closed
    BY DEF Steps, LoopStep, Shrinks, CloseAll
  <2> QED BY <2>1, LoopSockets DEF Steps
<1>4. /\ \A t \in Sides : /\ Routed(t)' \subseteq Routed(t)
                          /\ InUse(t)' \subseteq InUse(t)
                          /\ Reach(t)' \subseteq Reach(t)
                          /\ Doomed(t)' \subseteq Doomed(t) \cup Reach(Other(t))
                          /\ \A f \in Doomed(t)' : f \in Doomed(t) \/ (p = "lost" /\ f = g /\ t = Other(s))
      /\ p \in {"read", "blocked", "write"} /\ g # NoFd =>
               \/ AtRead(s) /\ g = cur[s] /\ p = "blocked"
               \/ g \in Registered(table[s])' /\ g \in Registered(table[s])
  BY LoopReach
<1>5. Grip'
  <2> SUFFICES ASSUME NEW t \in Sides, pc'[t] \in {"read", "blocked", "write"}, cur'[t] # NoFd
               PROVE  /\ Victim(table'[t], cur'[t]) \in {cur'[t], NoFd}
                      /\ cur'[t] # table'[t].fd[0]
    BY DEF Grip
  <2>1. cur'[t] \in Fds
    <3>1. cur'[t] \in {g, cur[t]} /\ cur[t] \in Fds \cup {NoFd}
      BY <1>2, PairFacts
    <3> QED BY <3>1
  <2>2. CASE cur'[t] = cur[t] /\ pc[t] \in {"read", "blocked", "write"}
    <3>1. Victim(table[t], cur[t]) \in {cur[t], NoFd} /\ cur[t] # table[t].fd[0]
      BY <2>2 DEF Pairs, Grip
    <3>2. table'[t].fd[0] \in {table[t].fd[0], NoFd}
      BY Constants DEF Steps, LoopStep, Shrinks
    <3> QED BY <3>1, <3>2, <2>1, <2>2 DEF Steps
  <2>3. CASE cur'[t] \in Registered(table[t])' /\ \E i \in Slots \ {0} : table'[t].fd[i] = cur'[t]
    <3>1. TableOK(table'[t])
      BY DEF IInv, Types
    <3>2. Victim(table'[t], cur'[t]) = cur'[t]
      BY <3>1, <2>1, <2>3, VacateOK
    <3>3. cur'[t] # table'[t].fd[0]
      BY <3>1, <2>1, <2>3, Constants DEF TableOK
    <3> QED BY <3>2, <3>3
  <2>4. t = s => \/ AtRead(s) /\ g = cur[s]
                 \/ \E i \in Slots \ {0} : table'[s].fd[i] = g
    BY <1>2 DEF Steps, LoopStep, Goes, AtRead
  <2>5. t = s => \/ AtRead(s) /\ g = cur[s]
                 \/ g \in Registered(table[s])'
    BY <2>4, <1>2 DEF Registered
  <2> QED BY <1>2, <2>2, <2>3, <2>4, <2>5 DEF AtRead
<1> SUFFICES ASSUME Usual(seen')
             PROVE  Paired' /\ Orphans' /\ Newcomers' /\ Behind'
  BY <1>5 DEF Pairs
<1>6. Paired /\ Orphans /\ Newcomers /\ Behind /\ "stale" \notin seen
  BY <1>1 DEF Pairs, Usual
<1>7. Paired'
  <2> SUFFICES ASSUME NEW t \in Sides, NEW f \in Routed(t)'
               PROVE  \/ partner[t][f] = 0
                      \/ sock'[f] \in Ends /\ sock'[partner[t][f]] = Opposite(sock'[f])
                      \/ Waits(t, f)'
    BY <1>1 DEF Paired, Opposite, Other
  <2>1. f \in Routed(t) /\ f \in Fds /\ partner[t][f] \in Fds
    BY <1>4, PairFacts
  <2>2. CASE partner[t][f] = 0 \/ Waits(t, f)
    BY <2>2
  <2>3. CASE sock[f] \in Ends /\ sock[partner[t][f]] = Opposite(sock[f])
    <3>0. f \notin gone
      BY LoopGone DEF Steps, Routed
    <3>1. sock'[f] = sock[f]
      BY <3>0, <2>1, <1>3
    <3>2. CASE partner[t][f] \in gone
      <4>1. Opposite(sock[f]) \in Ends
        BY <2>3, Constants DEF Ends, Opposite
      <4> QED BY <2>3, <3>2, <4>1
    <3>3. CASE partner[t][f] \notin gone
      BY <2>1, <2>3, <3>1, <3>3, <1>3
    <3> QED BY <3>2, <3>3
  <2> QED BY <1>6, <2>1, <2>2, <2>3 DEF Paired
<1>8. Orphans'
  <2> SUFFICES ASSUME NEW t \in Sides, NEW f \in (Doomed(t) \cap InUse(t))',
                      sock'[f] \in Ends, NEW h \in Fds, sock'[h] = Opposite(sock'[f])
               PROVE  FALSE
    BY DEF Orphans, IsOpen, Opposite, Other
  <2>0. /\ \A x \in Ends : x # Closed
        /\ \A x \in Fds : sock'[x] \in Ends => sock'[x] = sock[x]
    <3>1. \A x \in Ends : x # Closed
      BY Constants DEF Ends
    <3> QED BY <3>1, <1>3
  <2>1. f \in InUse(t) /\ f \in Fds /\ sock[f] = sock'[f]
    <3>1. f \in InUse(t) /\ f \in Fds
      BY <1>4, PairFacts
    <3> QED BY <3>1, <2>0
  <2>2. Opposite(sock[f]) \in Ends
    BY <2>1, Constants DEF Ends, Opposite
  <2>3. sock[h] = Opposite(sock[f])
    BY <2>0, <2>1, <2>2
  <2>4. CASE f \in Doomed(t)
    BY <1>6, <2>1, <2>3, <2>4 DEF Orphans, IsOpen
  <2>5. CASE p = "lost" /\ f = g /\ t = Other(s)
    BY <2>1, <2>5 DEF IsOpen, Opposite, Other
  <2> QED BY <1>4, <2>4, <2>5
<1>9. Newcomers'
  <2>1. \A t \in Sides : \A f : Fresh(t, f) => Fresh(t, f)'
    BY <1>4, PairFacts DEF Fresh
  <2>2. \A i \in DOMAIN tunnels' : tunnels'[i] # NoFd => Fresh("net", tunnels[i])'
    BY <1>1, <1>6, <2>1, Constants DEF Newcomers
  <2>3. pc'["proxy"] \in {"insert", "await"} =>
          pc'["proxy"] = pc["proxy"] /\ cur'["proxy"] = cur["proxy"]
    BY <1>1, <1>2, PairFacts, Constants
  <2>4. IsServer' <=> IsServer
    BY <1>1 DEF IsServer
  <2> QED BY <1>1, <1>3, <1>6, <2>1, <2>2, <2>3, <2>4, Constants DEF Newcomers
<1>10. Behind'
  <2> SUFFICES ASSUME NEW t \in Sides, AtRead(t)', cur'[t] \notin Registered(table[t])'
               PROVE  sock'[partner[t][cur'[t]]] \notin Ends
    BY <1>1 DEF Behind
  <2>1. cur'[t] = cur[t] /\ AtRead(t) /\ cur[t] \in Fds /\ partner[t][cur[t]] \in Fds
    <3>1. CASE t = s
      <4>1. p \in {"read", "blocked"} /\ g # NoFd /\ cur'[t] = g
        BY <3>1, <1>2 DEF AtRead, Steps, LoopStep, Goes
      <4>2. AtRead(s) /\ g = cur[s]
        BY <3>1, <4>1, <1>4
      <4> QED BY <3>1, <4>1, <4>2, PairFacts, Constants DEF AtRead
    <3>2. CASE t # s
      BY <3>2, <1>2, PairFacts DEF AtRead
    <3> QED BY <3>1, <3>2
  <2>2. CASE cur[t] \in gone
    BY <2>1, <2>2
  <2>3. CASE cur[t] \notin Registered(table[t])
    <3>1. sock[partner[t][cur[t]]] \notin Ends
      BY <1>6, <2>1, <2>3 DEF Behind
    <3> QED BY <3>1, <2>1, <1>3, Constants
  <2> QED BY <2>1, <2>2, <2>3, <1>3
<1> QED BY <1>7, <1>8, <1>9, <1>10

\* A step of a loop that takes nothing off the tables.
LEMMA QuietPairs ==
  ASSUME IInv, IInv', Pairs, NEW s \in Sides, NEW p \in Places \ {"lost"},
         NEW g \in Fds \cup {NoFd}, LoopStep(s, {}, p, g), pc[s] # "lost",
         UNCHANGED <<table, removed>>,
         \A t \in Sides : \A f \in removed[t] :
            buffer[t][f].chunks # <<>> => buffer'[t][f].chunks # <<>>
  PROVE  Pairs'
<1>1. Steps(s, {}, p, g)
  BY DEF Steps, Doomed
<1>2. \A t \in Sides : pc[t] = "lost" => pc'[t] = "lost" /\ cur'[t] = cur[t]
  BY PairFacts DEF LoopStep, Goes
<1>3. \A t \in Sides : \A f : Waits(t, f) => Waits(t, f)'
  BY <1>2, PairFacts DEF Waits
<1> QED BY <1>1, <1>3, LoopPairs

\* After a read, or a write, the thread is back in its scan.
LEMMA AfterReadGoesOn ==
  ASSUME IInv, NEW s \in Sides, pc[s] \in {"read", "blocked", "lost"},
         AfterRead(s), table'[s] \in Tables, UNCHANGED slot
  PROVE  \E p \in Places \ {"lost"}, g \in Fds \cup {NoFd} : Goes(s, p, g)
<1>1. PICK p \in Places, g \in Fds \cup {NoFd} : Goes(s, p, g)
  BY AfterReadGoes
<1>2. pc'[s] = p /\ pc'[s] \in {"write", "scan"}
  BY <1>1, PairFacts DEF Goes, AfterRead, Goto
<1> QED BY <1>1, <1>2

\* poll, the scan, and reads and writes that move no data.
LEMMA IdlePairs ==
  ASSUME IInv, IInv', Pairs, NEW s \in Sides, UNCHANGED listener,
         \/ Poll(s) \/ Scan(s) \/ ReadBlocks(s) \/ NothingToWrite(s)
         \/ s = "net" /\ IgnoreEof
  PROVE  Pairs'
<1> USE DEF kernel, maps, queues
<1>1. UNCHANGED <<table, removed, buffer>> /\ pc[s] # "lost"
  BY DEF Poll, Scan, ReadBlocks, NothingToWrite, IgnoreEof, Reading
<1>2. Shrinks({})
  BY NothingGone DEF Poll, Scan, ReadBlocks, NothingToWrite, IgnoreEof
<1>3. cur = [cur EXCEPT ![s] = cur[s]] /\ cur[s] \in Fds \cup {NoFd}
  BY PairFacts
<1>4. \E p \in Places \ {"lost"}, g \in Fds \cup {NoFd} : Goes(s, p, g)
  <2>1. CASE Poll(s)
    <3>1. PICK p \in {"scan", "dispatch"} :
              pc' = [pc EXCEPT ![s] = p] /\ (p = "dispatch" => s = "net" \/ ~IsServer)
      BY <2>1 DEF Poll, Goto, Sides
    <3>2. Goes(s, p, cur[s])
      BY <2>1, <3>1, <1>3 DEF Poll, Goes
    <3> QED BY <3>1, <3>2, <1>3 DEF Places
  <2>2. CASE Scan(s)
    <3>1. CASE \E i \in Slots \ {0} :
                /\ NextWanted(s, i)
                /\ slot' = [slot EXCEPT ![s] = i + 1]
                /\ cur' = [cur EXCEPT ![s] = table[s].fd[i]]
                /\ Goto(s, IF "in" \in rev[s][i] THEN "read" ELSE "write")
      <4>1. PICK i \in Slots \ {0} :
                /\ NextWanted(s, i)
                /\ slot' = [slot EXCEPT ![s] = i + 1]
                /\ cur' = [cur EXCEPT ![s] = table[s].fd[i]]
                /\ Goto(s, IF "in" \in rev[s][i] THEN "read" ELSE "write")
        BY <3>1
      <4>2. table[s].fd[i] \in Fds /\ i + 1 >= 2
        BY <4>1, Facts, SlotsAndFds DEF NextWanted, Wanted, TableOK, Tables
      <4>3. PICK p \in {"read", "write"} : pc' = [pc EXCEPT ![s] = p]
        BY <4>1 DEF Goto
      <4>4. slot \in [Sides -> 0 .. MaxClient]
        BY DEF IInv, Types
      <4>5. Goes(s, p, table[s].fd[i])
        BY <2>2, <4>1, <4>2, <4>3, <4>4, <1>1, Constants DEF Scan, Goes
      <4> QED BY <4>2, <4>3, <4>5 DEF Places
    <3>2. CASE slot' = [slot EXCEPT ![s] = 0] /\ Goto(s, "poll") /\ UNCHANGED cur
      <4>1. Goes(s, "poll", cur[s])
        BY <2>2, <3>2, <1>3 DEF Scan, Goes, Goto, IInv, Types
      <4> QED BY <4>1, <1>3 DEF Places
    <3> QED BY <2>2, <3>1, <3>2 DEF Scan
  <2>3. CASE ReadBlocks(s)
    <3>1. cur[s] \in Fds /\ slot[s] >= 2 /\ NoFd \notin Fds
      BY <2>3, Constants DEF ReadBlocks, IInv, InHand
    <3>2. Goes(s, "blocked", cur[s])
      BY <2>3, <3>1, <1>3 DEF ReadBlocks, Goes, Goto
    <3> QED BY <3>2, <1>3 DEF Places
  <2>4. CASE NothingToWrite(s)
    BY <2>4, AfterWriteGoes DEF NothingToWrite
  <2>5. CASE s = "net" /\ IgnoreEof
    BY <2>5, AfterReadGoesOn, PairFacts DEF IgnoreEof, Reading
  <2> QED BY <2>1, <2>2, <2>3, <2>4, <2>5
<1>5. PICK p \in Places \ {"lost"}, g \in Fds \cup {NoFd} : Goes(s, p, g)
  BY <1>4
<1>6. LoopStep(s, {}, p, g)
  BY <1>2, <1>5 DEF LoopStep, Poll, Scan, ReadBlocks, NothingToWrite, IgnoreEof
<1> QED BY <1>1, <1>5, <1>6, QuietPairs

\* A read appends to a buffer.
LEMMA ReadDataPairs ==
  ASSUME IInv, IInv', Pairs, NEW s \in Sides, ReadData(s), UNCHANGED listener
  PROVE  Pairs'
<1> USE DEF kernel, maps, queues
<1>1. /\ UNCHANGED <<table, removed, sock>> /\ pc[s] \in {"read", "blocked"}
      /\ table'[s] \in Tables
  BY PairFacts DEF ReadData, Reading
<1>2. PICK p \in Places \ {"lost"}, g \in Fds \cup {NoFd} : Goes(s, p, g)
  BY <1>1, AfterReadGoesOn DEF ReadData
<1>3. LoopStep(s, {}, p, g)
  BY <1>1, <1>2, NothingGone DEF ReadData, LoopStep
<1>4. \A t \in Sides : \A f \in removed[t] :
         buffer[t][f].chunks # <<>> => buffer'[t][f].chunks # <<>>
  <2> DEFINE e == sock[cur[s]]
             n == IF Pending(e) < MaxLine THEN Pending(e) ELSE MaxLine
             d == [k \in 1 .. n |-> <<s, e[2], taken[e] + k>>]
             o == Other(s)
             h == Destination(s)
  <2>1. buffer' = [buffer EXCEPT ![o][h].chunks = Append(@, d)]
    BY DEF ReadData
  <2> HIDE DEF d, o, h
  <2>2. buffer \in [Sides -> [Fds -> Buffers]]
    BY DEF IInv, Types
  <2>3. ASSUME NEW t \in Sides, NEW f \in Fds, buffer[t][f].chunks # <<>>
        PROVE  buffer'[t][f].chunks # <<>>
    <3>1. CASE t = o /\ f = h
      <4>1. buffer'[t][f].chunks = Append(buffer[t][f].chunks, d)
        BY <2>1, <2>2, <2>3, <3>1 DEF Buffers
      <4>2. PICK q \in Seq(Chunk) : q = buffer[t][f].chunks
        BY <2>2 DEF Buffers
      <4>3. Len(Append(q, d)) = Len(q) + 1 /\ Len(q) \in Nat
        OBVIOUS
      <4>4. Append(q, d) # <<>>
        BY <4>3
      <4> QED BY <4>1, <4>2, <4>4
    <3>2. CASE ~(t = o /\ f = h)
      BY <2>1, <2>2, <2>3, <3>2
    <3> QED BY <3>1, <3>2
  <2> QED BY <2>3, PairFacts
<1> QED BY <1>1, <1>2, <1>3, <1>4, QuietPairs

\* A write that fails leaves the chunks.
LEMMA WriteFailsPairs ==
  ASSUME IInv, IInv', Pairs, NEW s \in Sides, WriteFails(s), UNCHANGED listener
  PROVE  Pairs'
<1> USE DEF kernel, maps, queues
<1>1. UNCHANGED <<table, removed, sock>> /\ pc[s] = "write"
  BY DEF WriteFails, Writing
<1>2. LoopStep(s, {}, "scan", NoFd) /\ "scan" \in Places \ {"lost"}
  BY <1>1, NothingGone, AfterWriteGoes DEF WriteFails, LoopStep
<1>3. \A t \in Sides, f \in Fds : buffer'[t][f].chunks = buffer[t][f].chunks
  <2>1. buffer \in [Sides -> [Fds -> Buffers]]
    BY DEF IInv, Types
  <2>2. /\ buffer' = [buffer EXCEPT ![s][cur[s]].offset =
                          IF @ > MinOffset THEN @ - 1 ELSE @]
        /\ cur[s] \in Fds
    BY PairFacts DEF WriteFails, Writing, HasData
  <2> QED BY <2>1, <2>2 DEF Buffers
<1> QED BY <1>1, <1>2, <1>3, PairFacts, QuietPairs

\* Opposite ends are opposite to each other.
LEMMA Opposites ==
  /\ \A e \in Ends : Opposite(e) \in Ends /\ Opposite(Opposite(e)) = e
  /\ \A e \in Ends : \A s \in Sides : e \in {s} \X Conns => Opposite(e) \in {Other(s)} \X Conns
  /\ Opposite(Closed) \notin Ends \cup {Closed, Misc} /\ Opposite(Misc) \notin Ends
<1>1. ASSUME NEW e \in Ends
      PROVE  /\ Opposite(e) \in Ends /\ Opposite(Opposite(e)) = e
             /\ \A s \in Sides : e \in {s} \X Conns => Opposite(e) \in {Other(s)} \X Conns
  <2>1. PICK s \in Sides, c \in Conns : e = <<s, c>>
    BY DEF Ends
  <2>2. Opposite(e) = <<Other(s), c>>
    BY <2>1, EndOf
  <2>3. Other(s) \in Sides /\ Opposite(<<Other(s), c>>) = <<s, c>>
    BY Constants DEF Opposite
  <2> QED BY <2>1, <2>2, <2>3 DEF Ends
<1>2. Opposite(Closed) = <<"proxy", NoConn>> /\ Opposite(Misc) = <<"proxy", NoConn>>
  BY DEF Opposite, Closed, Misc, Other
<1>3. NoConn \notin Conns
  BY TcpServerAssumption
<1> QED BY <1>1, <1>2, <1>3 DEF Ends, Closed, Misc

\* What is in use on a side is open there.
LEMMA OwnSide ==
  ASSUME IInv, NEW s \in Sides, NEW f \in InUse(s)
  PROVE  f \in Fds /\ sock[f] \in ({s} \X Conns) \cup {Misc}
<1>1. CASE f \in Registered(table[s])
  BY <1>1, Facts
<1>2. CASE s = "net" /\ f \in {actualfds[i] : i \in DOMAIN actualfds}
  BY <1>2, PairFacts DEF IInv, Pending0
<1>3. CASE s = "proxy" /\ f = cur["proxy"] /\ pc["proxy"] = "insert"
  <2>1. sock[f] = <<"proxy", req>>
    BY <1>3 DEF IInv, Pending0
  <2>2. req \in Conns
    BY <1>3 DEF IInv, InHand, Types
  <2> QED BY <1>3, <2>1, <2>2, PairFacts
<1> QED BY <1>1, <1>2, <1>3, Constants DEF InUse

\* One descriptor is not in use on both sides.
LEMMA OneSide ==
  ASSUME IInv, NEW s \in Sides, NEW t \in Sides, NEW f \in InUse(s), f \in InUse(t),
         sock[f] \in Ends
  PROVE  s = t
<1>1. sock[f] \in {s} \X Conns /\ sock[f] \in {t} \X Conns
  BY OwnSide, Constants
<1> QED BY <1>1

\* remove leaves the other slots, and sockMap.
LEMMA VacateVictims ==
  ASSUME IInv, NEW o \in Sides, NEW f \in Fds,
         table' = [table EXCEPT ![o] = Vacate(@, f)]
  PROVE  \A t \in Sides, x \in Fds : Victim(table'[t], x) \in {Victim(table[t], x), NoFd}
<1> SUFFICES ASSUME NEW t \in Sides, NEW x \in Fds
             PROVE  Victim(table'[t], x) \in {Victim(table[t], x), NoFd}
  OBVIOUS
<1>1. /\ table \in [Sides -> Tables] /\ TableOK(table[o]) /\ table[o] \in Tables
  BY PairFacts
<1>2. CASE t # o
  BY <1>1, <1>2
<1>3. CASE t = o
  <2>1. /\ table'[t] = Vacate(table[o], f)
        /\ table[o].index[x] \in Slots
    BY <1>1, <1>3 DEF Tables
  <2>2. table'[t].index = table[o].index
    BY <2>1, <1>1 DEF Vacate, Tables
  <2>3. table'[t].fd[table[o].index[x]] \in {table[o].fd[table[o].index[x]], NoFd}
    BY <2>1, <1>1, VacateOK
  <2> QED BY <2>2, <2>3, <1>3 DEF Victim
<1> QED BY <1>2, <1>3

\* What a thread that reads or writes closes is the descriptor in its hand.
LEMMA OwnVictim ==
  ASSUME IInv, Pairs, NEW s \in Sides, pc[s] \in {"read", "blocked", "write"},
         cur[s] \in Fds, Usual(seen)
  PROVE  /\ {Victim(table[s], cur[s])} \cap Fds \subseteq {cur[s]}
         /\ cur[s] \in Registered(table[s]) =>
               /\ {Victim(table[s], cur[s])} \cap Fds = {cur[s]}
               /\ sock[cur[s]] \in {s} \X Conns /\ sock[cur[s]] \in Ends
               /\ cur[s] \in Routed(s) /\ cur[s] \in InUse(s)
         /\ \A f \in Fds : {Victim(table[s], cur[s])} \cap Fds = {f} =>
               f = cur[s] /\ f \in Registered(table[s])
<1>1. Victim(table[s], cur[s]) \in {cur[s], NoFd} /\ cur[s] # table[s].fd[0] /\ NoFd \notin Fds
  BY Constants DEF Pairs, Grip
<1>2. ASSUME cur[s] \in Registered(table[s])
      PROVE  /\ Victim(table[s], cur[s]) = cur[s]
             /\ sock[cur[s]] \in {s} \X Conns /\ sock[cur[s]] \in Ends
             /\ cur[s] \in Routed(s) /\ cur[s] \in InUse(s)
  <2>1. Victim(table[s], cur[s]) = cur[s]
    BY <1>2, PairFacts, VacateOK
  <2>2. PICK i \in Slots : table[s].fd[i] = cur[s]
    BY <1>2 DEF Registered
  <2>3. sock[cur[s]] \in {s} \X Conns
    BY <1>1, <2>2, Facts, Constants
  <2>4. sock[cur[s]] \in Ends
    BY <2>3, EndsOfSide
  <2>5. cur[s] \in InUse(s)
    BY <1>2, PairFacts
  <2> QED BY <2>1, <2>3, <2>4, <2>5 DEF Routed
<1>3. Victim(table[s], cur[s]) \in Registered(table[s]) \cup {NoFd}
  BY PairFacts, VacateOK
<1> QED BY <1>1, <1>2, <1>3

\* A write that ends the last chunk closes a descriptor without other half.
LEMMA WritePairs ==
  ASSUME IInv, IInv', Pairs, NEW s \in Sides, NEW n \in 1 .. MaxWrite, Write(s, n),
         UNCHANGED listener
  PROVE  Pairs'
<1> USE DEF kernel, maps, queues
<1> DEFINE f == cur[s]
           b == buffer[s][f]
           last == b.offset + n = Len(Head(b.chunks)) /\ Awaited(s, f)
<1>1. /\ pc[s] = "write" /\ pc[Other(s)] # "lost" /\ f \in Fds
      /\ sock[f] \in Ends /\ b.chunks # <<>> /\ AfterWrite(s)
      /\ UNCHANGED <<peer, sent, taken, backlog, rev, slot, req, partner, queues,
                     inserted, seen>>
      /\ buffer' = [buffer EXCEPT ![s][f] = Advanced(@, n)]
      /\ removed' = [removed EXCEPT ![s] = IF last THEN @ \ {f} ELSE @]
      /\ table' = [table EXCEPT ![s] = IF last THEN Vacate(@, f) ELSE @]
      /\ CloseAll(IF last THEN {Victim(table[s], f)} ELSE {})
  <2>0. Writing(s)
    BY DEF Write
  <2>1. f \in Fds
    BY <2>0, PairFacts DEF Writing, HasData
  <2> QED BY <2>1 DEF Write, Writing, HasData, CanWrite, HasLock
<1>2. /\ buffer \in [Sides -> [Fds -> Buffers]] /\ b \in Buffers
      /\ buffer'[s][f] = Advanced(b, n)
      /\ \A q \in Sides, x \in Fds : q # s \/ x # f => buffer'[q][x] = buffer[q][x]
  <2>1. buffer \in [Sides -> [Fds -> Buffers]]
    BY DEF IInv, Types
  <2> QED BY <1>1, <2>1
<1>3. ~last /\ f \in removed[s] => Advanced(b, n).chunks # <<>>
  <2> SUFFICES ASSUME ~last, f \in removed[s] PROVE Advanced(b, n).chunks # <<>>
    OBVIOUS
  <2>1. PICK q \in Seq(Chunk) : q = b.chunks
    BY <1>2 DEF Buffers
  <2>2. CASE b.offset + n = Len(Head(b.chunks))
    <3>1. Len(q) # 1 /\ Len(q) # 0 /\ Len(q) \in Nat
      BY <2>1, <2>2, <1>1 DEF Awaited
    <3>2. Len(Tail(q)) = Len(q) - 1
      BY <3>1
    <3>3. Len(Tail(q)) # 0
      BY <3>1, <3>2
    <3>4. Tail(q) # <<>>
      <4>1. Len(<<>>) = 0
        OBVIOUS
      <4> QED BY <3>3, <4>1, Zenon
    <3> QED BY <3>4, <2>1, <2>2 DEF Advanced
  <2>3. CASE b.offset + n # Len(Head(b.chunks))
    <3>1. Advanced(b, n).chunks = b.chunks
      BY <2>3, <1>2 DEF Advanced, Buffers
    <3> QED BY <3>1, <1>1
  <2> QED BY <2>2, <2>3
<1>4. Goes(s, "scan", NoFd) /\ "scan" \in Places \ {"lost"}
  BY <1>1, AfterWriteGoes DEF Places
<1>5. CASE ~last
  <2>1. UNCHANGED <<table, removed>> /\ CloseAll({})
    BY <1>5, <1>1, PairFacts
  <2>2. sock' = sock
    BY <2>1 DEF CloseAll, IInv, Types
  <2>3. LoopStep(s, {}, "scan", NoFd)
    BY <1>1, <1>4, <2>1, <2>2, NothingGone DEF LoopStep
  <2>4. \A t \in Sides : \A x \in removed[t] :
            buffer[t][x].chunks # <<>> => buffer'[t][x].chunks # <<>>
    BY <1>2, <1>3, <1>5, PairFacts
  <2> QED BY <1>1, <1>4, <2>1, <2>3, <2>4, QuietPairs
<1>6. CASE last
  <2> PICK gone : gone = {Victim(table[s], f)} \cap Fds
    OBVIOUS
  <2>1. /\ table' = [table EXCEPT ![s] = Vacate(@, f)]
        /\ CloseAll({Victim(table[s], f)})
        /\ removed' = [removed EXCEPT ![s] = @ \ {f}] /\ f \in removed[s]
    BY <1>1, <1>6 DEF Awaited
  <2>2. Shrinks(gone) /\ gone \in SUBSET Fds
    BY <1>1, <2>1, VacateShrinks
  <2>3. LoopStep(s, gone, "scan", NoFd)
    BY <1>1, <1>4, <2>2 DEF LoopStep
  <2>4. Steps(s, gone, "scan", NoFd)
    <3>1. \A t \in Sides : removed'[t] \subseteq removed[t]
      BY <2>1, PairFacts
    <3>2. \A t \in Sides, x \in Fds : Victim(table'[t], x) \in {Victim(table[t], x), NoFd}
      BY <1>1, <2>1, VacateVictims
    <3> QED BY <2>3, <3>1, <3>2 DEF Steps, Doomed
  <2> SUFFICES ASSUME Usual(seen)
               PROVE
            /\ \A t \in Sides : \A x \in Routed(t)' : Waits(t, x) => Waits(t, x)'
            /\ \A y \in gone, t \in Sides : \A x \in Routed(t)' :
                  sock[y] \in Ends /\ sock[y] = Opposite(sock[x]) => Waits(t, x)'
            /\ pc["proxy"] = "await" => cur["proxy"] \notin gone
            /\ \A t \in Sides : AtRead(t)' /\ AtRead(t) /\ cur[t] \in gone =>
                  sock'[partner[t][cur[t]]] \notin Ends
    BY <1>1, <1>4, <2>2, <2>4, LoopPairs
  <2>5. "stale" \notin seen
    BY DEF Usual
  <2>6. gone = {f} /\ f \in Registered(table[s]) /\ f \in InUse(s) /\ f \in Doomed(s)
    <3>1. f \in Registered(table[s])
      BY <1>1, <2>5, OwnSocket
    <3> QED BY <3>1, <1>1, <2>1, OwnVictim DEF Doomed
  <2>7. ~IsOpen(Opposite(sock[f]))
    BY <2>6, <1>1 DEF Pairs, Orphans
  <2>8. ASSUME NEW t \in Sides, NEW x \in Routed(t)', Waits(t, x) PROVE Waits(t, x)'
    <3>1. x \in InUse(t)' /\ x # f
      BY <2>2, <2>3, <2>6, <1>4, LoopGone DEF Routed
    <3>2. pc[Other(t)] = "lost" => pc'[Other(t)] = "lost" /\ cur'[Other(t)] = cur[Other(t)]
      BY <1>1, <1>4, PairFacts DEF Goes
    <3>3. x \in Fds /\ (x \in removed[t] => x \in removed'[t])
      <4>1. x \in InUse(t)
        BY <3>1, <2>2, <2>3, <1>4, LoopSockets
      <4> QED BY <4>1, <3>1, <2>1, PairFacts
    <3> QED BY <3>1, <3>2, <3>3, <2>8, <1>2 DEF Waits
  <2>9. ASSUME NEW t \in Sides, NEW x \in Routed(t)', sock[f] = Opposite(sock[x])
        PROVE  FALSE
    <3>1. x \in InUse(t)
      BY <2>2, <2>3, <1>4, LoopSockets DEF Routed
    <3>2. x \in Fds /\ sock[x] \in Ends
      BY <3>1, <2>9, <1>1, OwnSide, Opposites, EndsOfSide
    <3>3. sock[x] = Opposite(sock[f])
      BY <3>2, <2>9, Opposites
    <3> QED BY <3>2, <3>3, <2>7 DEF IsOpen
  <2>10. ASSUME NEW t \in Sides, t # s PROVE f \notin InUse(t)
    BY <2>6, <2>10, <1>1, OneSide
  <2>11. pc["proxy"] = "await" => cur["proxy"] \notin gone
    <3> SUFFICES ASSUME pc["proxy"] = "await" PROVE cur["proxy"] # f
      BY <2>6
    <3>1. cur["proxy"] \in Registered(table["proxy"])
      BY DEF Pairs, Newcomers
    <3>2. "proxy" \in Sides /\ "proxy" # s
      BY <1>1, Constants
    <3> QED BY <3>1, <3>2, <2>10, PairFacts
  <2>12. ASSUME NEW t \in Sides, AtRead(t)', AtRead(t), cur[t] = f PROVE FALSE
    <3>1. t # s
      BY <2>12, <1>1 DEF AtRead
    <3>2. f \in Registered(table[t])
      BY <2>12, <1>1, <2>5, OwnSocket DEF AtRead
    <3> QED BY <3>1, <3>2, <2>10, PairFacts
  <2> QED BY <2>6, <2>8, <2>9, <2>11, <2>12
<1> QED BY <1>5, <1>6

\* A half that leaves is closed, and its other half is next, or waits.
LEMMA LosePairs ==
  ASSUME IInv, IInv', Pairs, NEW s \in Sides, Lose(s), UNCHANGED listener
  PROVE  Pairs'
<1> USE DEF kernel, maps, queues
<1>1. /\ pc[s] \in {"read", "blocked"} /\ AtRead(s) /\ cur[s] \in Fds /\ slot[s] >= 2
      /\ partner[s][cur[s]] \in Fds /\ "lost" \in Places /\ cur[s] # NoFd
      /\ table' = [table EXCEPT ![s] = Vacate(@, cur[s])]
      /\ CloseAll({Victim(table[s], cur[s])})
      /\ UNCHANGED <<removed, buffer, seen, partner>>
  <2>1. Reading(s) /\ slot[s] >= 2
    BY DEF Lose, Reading, IInv, InHand
  <2>2. /\ pc[s] \in {"read", "blocked"} /\ AtRead(s) /\ cur[s] \in Fds /\ "lost" \in Places
    BY <2>1, PairFacts DEF Reading, AtRead, Places
  <2>3. partner[s][cur[s]] \in Fds /\ cur[s] # NoFd
    BY <2>2, PairFacts, Constants
  <2> QED BY <2>1, <2>2, <2>3 DEF Lose
<1> PICK c, h : c = cur[s] /\ h = partner[s][cur[s]]
  OBVIOUS
<1> PICK gone : gone = {Victim(table[s], c)} \cap Fds
  OBVIOUS
<1>2. Goes(s, "lost", h)
  BY <1>1, PairFacts DEF Lose, Goes, Goto
<1>3. Shrinks(gone) /\ gone \in SUBSET Fds
  BY <1>1, VacateShrinks
<1>4. LoopStep(s, gone, "lost", h) /\ h \in Fds \cup {NoFd}
  BY <1>1, <1>2, <1>3 DEF LoopStep, Lose
<1>5. Steps(s, gone, "lost", h)
  <2>1. \A t \in Sides, x \in Fds : Victim(table'[t], x) \in {Victim(table[t], x), NoFd}
    BY <1>1, VacateVictims
  <2> QED BY <1>1, <1>4, <2>1 DEF Steps, Doomed
<1> SUFFICES ASSUME Usual(seen)
             PROVE
            /\ \A t \in Sides : \A x \in Routed(t)' : Waits(t, x) => Waits(t, x)'
            /\ \A y \in gone, t \in Sides : \A x \in Routed(t)' :
                  sock[y] \in Ends /\ sock[y] = Opposite(sock[x]) => Waits(t, x)'
            /\ pc["proxy"] = "await" => cur["proxy"] \notin gone
            /\ h \in InUse(Other(s)) /\ sock[h] \in Ends => ~IsOpen(Opposite(sock[h]))'
            /\ \A t \in Sides : AtRead(t)' /\ AtRead(t) /\ cur[t] \in gone =>
                  sock'[partner[t][cur[t]]] \notin Ends
  BY <1>1, <1>3, <1>4, <1>5, LoopPairs
<1>6. "stale" \notin seen
  BY DEF Usual
<1>7. /\ gone \subseteq {c}
      /\ c \in Registered(table[s]) =>
            /\ gone = {c} /\ sock[c] \in {s} \X Conns /\ sock[c] \in Ends
            /\ c \in Routed(s) /\ c \in InUse(s)
      /\ c \in gone => c \in Registered(table[s])
  BY <1>1, OwnVictim
<1>8. /\ pc' = [pc EXCEPT ![s] = "lost"] /\ cur' = [cur EXCEPT ![s] = h]
      /\ \A t \in Sides : /\ pc'[t] = IF t = s THEN "lost" ELSE pc[t]
                          /\ cur'[t] = IF t = s THEN h ELSE cur[t]
  BY <1>2, PairFacts DEF Goes
<1>9. ASSUME NEW t \in Sides, NEW x \in Routed(t)', Waits(t, x) PROVE Waits(t, x)'
  <2>1. pc[Other(t)] = "lost" => pc'[Other(t)] = "lost" /\ cur'[Other(t)] = cur[Other(t)]
    BY <1>1, <1>8, PairFacts
  <2> QED BY <1>1, <1>9, <2>1 DEF Waits
<1>10. ASSUME NEW t \in Sides, NEW x \in Routed(t)', c \in gone,
              sock[c] \in Ends, sock[c] = Opposite(sock[x])
       PROVE  Waits(t, x)'
  <2>0. x \in InUse(t)'
    BY DEF Routed
  <2>1. x \in InUse(t) /\ x \in Fds
    <3>1. InUse(t)' \subseteq InUse(t)
      BY <1>3, <1>4, <1>1, LoopSockets, Zenon
    <3> QED BY <2>0, <3>1, PairFacts
  <2>2. sock[x] \in Ends /\ sock[x] = Opposite(sock[c]) /\ sock[x] \in {Other(s)} \X Conns
    <3>1. sock[x] \in Ends
      BY <2>1, <1>10, OwnSide, Opposites, EndsOfSide
    <3>2. sock[x] = Opposite(sock[c])
      BY <3>1, <1>10, Opposites
    <3> QED BY <3>1, <3>2, <1>7, <1>10, Opposites
  <2>3. t = Other(s)
    <3>1. sock[x] \in {t} \X Conns
      BY <2>1, <2>2, OwnSide, Constants
    <3> QED BY <3>1, <2>2
  <2>4. x = h
    <3>1. IsOpen(Opposite(sock[c]))
      BY <2>1, <2>2 DEF IsOpen
    <3>2. sock[h] = Opposite(sock[c])
      BY <3>1, <1>6, <1>7, <1>10 DEF IInv, Routing
    <3> QED BY <3>2, <2>1, <2>2, <1>1, OneSocket
  <2>5. Other(t) = s
    BY <2>3, PairFacts
  <2> QED BY <2>4, <2>5, <1>8 DEF Waits
<1>11. pc["proxy"] = "await" => cur["proxy"] \notin gone
  <2> SUFFICES ASSUME pc["proxy"] = "await", cur["proxy"] = c, c \in gone PROVE FALSE
    BY <1>7
  <2>1. cur["proxy"] \in Registered(table["proxy"])
    BY DEF Pairs, Newcomers
  <2>2. "proxy" \in Sides /\ "proxy" # s
    BY <1>1, Constants
  <2> QED BY <2>1, <2>2, <1>7, OneSide, PairFacts
<1>12. ASSUME h \in InUse(Other(s)), sock[h] \in Ends, IsOpen(Opposite(sock[h]))'
       PROVE  FALSE
  <2>1. PICK y \in Fds : sock'[y] = Opposite(sock'[h])
    BY <1>12 DEF IsOpen, Opposite, Other
  <2>2. sock'[h] = sock[h]
    <3>1. sock'[y] \in Ends \cup {Closed, Misc}
      BY DEF IInv, Types
    <3>2. sock'[h] # Closed
      BY <2>1, <3>1, Opposites
    <3>3. h \in Fds
      BY <1>1
    <3> QED BY <3>2, <3>3, <1>1, <1>3, <1>4, LoopSockets
  <2>3. sock[y] = Opposite(sock[h]) /\ y \notin gone
    <3>1. sock'[y] # Closed
      BY <2>1, <2>2, <1>12, Opposites, Constants
    <3>2. y \notin gone
      BY <3>1, <1>3 DEF Shrinks, CloseAll
    <3> QED BY <3>2, <2>1, <2>2, <1>1, <1>3, <1>4, LoopSockets
  <2>4. CASE c \in Registered(table[s])
    <3>1. sock[h] = Opposite(sock[c])
      BY <2>4, <1>6, <1>7, <1>12 DEF IInv, Routing
    <3>2. sock[y] = sock[c]
      BY <3>1, <2>3, <2>4, <1>7, Opposites
    <3>3. y = c
      BY <3>2, <2>4, <1>1, <1>7, OneSocket
    <3> QED BY <3>3, <2>3, <2>4, <1>7
  <2>5. CASE c \notin Registered(table[s])
    BY <2>5, <1>1, <1>12 DEF Pairs, Behind
  <2> QED BY <2>4, <2>5
<1>13. ASSUME NEW t \in Sides, AtRead(t)', AtRead(t), cur[t] = c, c \in gone PROVE FALSE
  <2>1. t # s
    BY <1>13, <1>8 DEF AtRead
  <2>2. c \in Registered(table[t])
    BY <1>1, <1>13, <1>6, <1>7, OwnSocket DEF AtRead
  <2> QED BY <2>1, <2>2, <1>7, <1>13, OneSide, PairFacts
<1> QED BY <1>7, <1>9, <1>10, <1>11, <1>12, <1>13

\* The other half is closed, too, or waits for its buffer to be written.
LEMMA LosePartnerPairs ==
  ASSUME IInv, IInv', Pairs, NEW s \in Sides, LosePartner(s), UNCHANGED listener
  PROVE  Pairs'
<1> USE DEF kernel, maps, queues
<1> PICK c, o : c = cur[s] /\ o = Other(s)
  OBVIOUS
<1>1. /\ pc[s] = "lost" /\ c \in Fds /\ o \in Sides /\ o # s /\ Other(o) = s
      /\ UNCHANGED <<buffer, partner, slot>> /\ seen \subseteq seen'
  <2>1. seen \subseteq seen'
    BY DEF LosePartner
  <2> QED BY <2>1, PairFacts DEF LosePartner
<1>2. c \in Doomed(o)
  BY <1>1 DEF Doomed
<1>3. CASE MayClose(o, c)
  <2>1. /\ table' = [table EXCEPT ![o] = Vacate(@, c)]
        /\ CloseAll({Victim(table[o], c)})
        /\ seen' = seen \cup {m \in {"early"} : c \notin Registered(table[o])}
        /\ UNCHANGED removed
    BY <1>3 DEF LosePartner
  <2> PICK gone : gone = {Victim(table[o], c)} \cap Fds
    OBVIOUS
  <2>2. Shrinks(gone) /\ gone \in SUBSET Fds /\ table'[s] \in Tables
    BY <1>1, <2>1, PairFacts, VacateShrinks
  <2>3. PICK p \in Places \ {"lost"}, g \in Fds \cup {NoFd} : Goes(s, p, g)
    BY <1>1, <2>2, AfterReadGoesOn DEF LosePartner
  <2>4. LoopStep(s, gone, p, g)
    BY <1>1, <2>2, <2>3 DEF LoopStep, LosePartner
  <2>5. Steps(s, gone, p, g)
    <3>1. \A t \in Sides, x \in Fds : Victim(table'[t], x) \in {Victim(table[t], x), NoFd}
      BY <1>1, <2>1, VacateVictims
    <3> QED BY <2>1, <2>4, <3>1 DEF Steps, Doomed
  <2> SUFFICES ASSUME Usual(seen')
               PROVE
            /\ \A t \in Sides : \A x \in Routed(t)' : Waits(t, x) => Waits(t, x)'
            /\ \A y \in gone, t \in Sides : \A x \in Routed(t)' :
                  sock[y] \in Ends /\ sock[y] = Opposite(sock[x]) => Waits(t, x)'
            /\ pc["proxy"] = "await" => cur["proxy"] \notin gone
            /\ \A t \in Sides : AtRead(t)' /\ AtRead(t) /\ cur[t] \in gone =>
                  sock'[partner[t][cur[t]]] \notin Ends
    BY <2>2, <2>3, <2>5, LoopPairs
  <2>6. Usual(seen) /\ "stale" \notin seen /\ "early" \notin seen'
    BY <1>1 DEF Usual
  <2>7. c \in Registered(table[o]) /\ gone = {c} /\ c \in InUse(o)
    <3>1. c \in Registered(table[o])
      BY <2>1, <2>6
    <3>2. Victim(table[o], c) = c
      BY <3>1, <1>1, PairFacts, VacateOK
    <3> QED BY <3>1, <3>2, <1>1, PairFacts
  <2>8. sock[c] \in Ends => ~IsOpen(Opposite(sock[c]))
    BY <1>1, <1>2, <2>6, <2>7 DEF Pairs, Orphans
  <2>9. ASSUME NEW t \in Sides, NEW x \in Routed(t)', Waits(t, x) PROVE Waits(t, x)'
    <3>1. x \in InUse(t)' /\ x # c
      BY <2>2, <2>3, <2>4, <2>7, LoopGone DEF Routed
    <3>2. ~(pc[Other(t)] = "lost" /\ cur[Other(t)] = x /\ Other(t) = s)
      BY <3>1
    <3>3. Other(t) # s => pc'[Other(t)] = pc[Other(t)] /\ cur'[Other(t)] = cur[Other(t)]
      BY <2>3, PairFacts DEF Goes
    <3> QED BY <1>1, <2>1, <2>9, <3>2, <3>3 DEF Waits
  <2>10. ASSUME NEW t \in Sides, NEW x \in Routed(t)', sock[c] \in Ends,
                sock[c] = Opposite(sock[x])
         PROVE  FALSE
    <3>1. x \in InUse(t)
      BY <2>2, <2>3, <2>4, LoopSockets DEF Routed
    <3>2. x \in Fds /\ sock[x] \in Ends
      BY <3>1, <2>10, OwnSide, Opposites, EndsOfSide
    <3>3. sock[x] = Opposite(sock[c])
      BY <3>2, <2>10, Opposites
    <3> QED BY <3>2, <3>3, <2>8, <2>10 DEF IsOpen
  <2>11. pc["proxy"] = "await" => cur["proxy"] # c
    <3> SUFFICES ASSUME pc["proxy"] = "await", cur["proxy"] = c PROVE FALSE
      OBVIOUS
    <3>1. o = "proxy" /\ IsServer
      BY <1>1, Constants DEF IInv, InHand
    <3> QED BY <3>1, <1>2, <2>6 DEF Pairs, Newcomers, Fresh
  <2>12. ASSUME NEW t \in Sides, AtRead(t)', AtRead(t), cur[t] = c
         PROVE  sock'[partner[t][c]] \notin Ends
    <3>1. t = o
      BY <2>12, <1>1, Constants DEF AtRead
    <3>2. sock[c] \in Ends /\ c \in Routed(o)
      BY <3>1, <2>12, <1>1, <2>6, <2>7, OwnVictim DEF AtRead
    <3>3. sock[partner[o][c]] \notin Ends
      <4>1. Opposite(sock[c]) \in Ends /\ partner[o][c] \in Fds
        BY <3>2, <1>1, Opposites, PairFacts
      <4>2. sock[partner[o][c]] # Opposite(sock[c])
        BY <4>1, <3>2, <2>8 DEF IsOpen
      <4> QED BY <4>2, <3>2, <1>1, <2>6 DEF IInv, Routing
    <3>4. partner[o][c] \in Fds
      BY <1>1, PairFacts
    <3>5. sock'[partner[o][c]] \in {sock[partner[o][c]], Closed}
      BY <3>4, <2>2, <2>3, <2>4, LoopSockets
    <3> QED BY <3>1, <3>3, <3>5, Constants
  <2> QED BY <2>7, <2>9, <2>10, <2>11, <2>12
<1>4. CASE ~MayClose(o, c)
  <2>1. /\ UNCHANGED <<table, sock, seen>>
        /\ removed' = [removed EXCEPT ![o] = @ \cup {c}]
        /\ buffer[o][c].chunks # <<>>
    BY <1>4 DEF LosePartner, MayClose
  <2>2. PICK p \in Places \ {"lost"}, g \in Fds \cup {NoFd} : Goes(s, p, g)
    BY <1>1, <2>1, AfterReadGoesOn, PairFacts DEF LosePartner
  <2>3. LoopStep(s, {}, p, g)
    BY <1>1, <2>1, <2>2, NothingGone DEF LoopStep, LosePartner
  <2>4. removed'[o] = removed[o] \cup {c} /\ \A t \in Sides \ {o} : removed'[t] = removed[t]
    BY <2>1, <1>1, PairFacts
  <2>5. Steps(s, {}, p, g)
    <3>1. \A t \in Sides : removed'[t] \subseteq Doomed(t)
      BY <1>2, <2>4 DEF Doomed
    <3> QED BY <2>1, <2>3, <3>1 DEF Steps
  <2>6. ASSUME NEW t \in Sides, NEW x \in Routed(t)', Waits(t, x) PROVE Waits(t, x)'
    <3>1. CASE x \in removed[t] /\ buffer[t][x].chunks # <<>>
      BY <3>1, <1>1, <2>4 DEF Waits
    <3>2. CASE pc[Other(t)] = "lost" /\ cur[Other(t)] = x /\ Other(t) # s
      <4>1. pc'[Other(t)] = pc[Other(t)] /\ cur'[Other(t)] = cur[Other(t)]
        BY <2>2, <3>2, PairFacts DEF Goes
      <4> QED BY <3>2, <4>1 DEF Waits
    <3>3. CASE cur[Other(t)] = x /\ Other(t) = s
      <4>1. t = o /\ x = c
        BY <3>3, <1>1, PairFacts
      <4> QED BY <4>1, <1>1, <2>1, <2>4 DEF Waits
    <3> QED BY <2>6, <3>1, <3>2, <3>3 DEF Waits
  <2> QED BY <2>2, <2>5, <2>6, LoopPairs
<1> QED BY <1>3, <1>4

\* A new descriptor, when everything is as usual: nobody refers to its number.
LEMMA Unheard ==
  ASSUME IInv, NEW f \in Fds, NEW e \in Ends \cup {Misc}, NEW marks \in SUBSET Marks,
         OpenOn(f, e, marks), Usual(seen')
  PROVE  /\ Usual(seen) /\ "stale" \notin seen
         /\ \A t \in Sides : /\ f \notin Doomed(t) /\ f \notin Reach(t)
                             /\ f \notin InUse(t) /\ f # cur[t]
                             /\ Fresh(t, f)
<1>1. "stale" \notin seen' /\ "late" \notin seen' /\ Usual(seen) /\ "stale" \notin seen
  BY Opening DEF Usual
<1>2. ~RefersTo(f) /\ ~WillClose(f)
  BY <1>1 DEF OpenOn
<1>3. ASSUME NEW t \in Sides PROVE f \notin InUse(t)
  BY Opening, Constants DEF InUse
<1>4. ASSUME NEW t \in Sides PROVE f # cur[t] /\ f \notin removed[t]
  BY <1>2 DEF RefersTo
<1>5. ASSUME NEW t \in Sides PROVE f \notin Doomed(t)
  <2>1. Other(t) \in Sides
    BY PairFacts
  <2> QED BY <2>1, <1>4 DEF Doomed
<1>6. ASSUME NEW t \in Sides PROVE f \notin Reach(t)
  <2> SUFFICES ASSUME NEW g \in Routed(t) \cup {x \in {cur[t]} : AtRead(t)}, partner[t][g] = f
               PROVE  FALSE
    BY DEF Reach
  <2>1. CASE g \in Routed(t)
    BY <2>1, <1>2 DEF RefersTo
  <2>2. CASE g = cur[t] /\ AtRead(t)
    <3>1. sock[g] # Closed
      BY <2>2, <1>2 DEF WillClose, AtRead
    <3>2. g \in Registered(table[t])
      BY <2>2, <3>1, <1>1, PairFacts, Constants DEF IInv, Held, AtRead
    <3>3. g \in Routed(t)
      BY <2>2, <3>2, PairFacts DEF Routed, AtRead
    <3> QED BY <3>3, <1>2 DEF RefersTo
  <2> QED BY <2>1, <2>2
<1>7. ASSUME NEW t \in Sides PROVE Fresh(t, f)
  BY <1>5, <1>6, PairFacts DEF Fresh
<1> QED BY <1>1, <1>3, <1>4, <1>5, <1>6, <1>7

\* A descriptor is opened, and is not coupled yet.
LEMMA OpenPairs ==
  ASSUME IInv, IInv', Pairs, NEW f \in Fds, NEW e \in Ends \cup {Misc},
         NEW marks \in SUBSET Marks, OpenOn(f, e, marks),
         UNCHANGED <<table, removed, buffer, partner, actualfds, listener>>,
         pc'["net"] = pc["net"] /\ cur'["net"] = cur["net"],
         \/ pc'["proxy"] = pc["proxy"] /\ cur'["proxy"] = cur["proxy"]
         \/ pc["proxy"] \in {"dispatch", "scan"} /\ pc'["proxy"] = "scan"
         \/ /\ pc["proxy"] \in {"dispatch", "scan"} /\ pc'["proxy"] = "insert"
            /\ IsServer /\ cur'["proxy"] = f,
         \A i \in DOMAIN tunnels' : tunnels'[i] # NoFd =>
            tunnels'[i] = f \/ \E j \in DOMAIN tunnels : tunnels'[i] = tunnels[j],
         Usual(seen) /\ e \in Ends =>
            \A t \in Sides : \A g \in Doomed(t) \cap InUse(t) : sock[g] # Opposite(e)
  PROVE  Pairs'
<1>1. \A t \in Sides : t = "net" \/ t = "proxy"
  BY Constants
<1>2. \A t \in Sides : /\ (pc'[t] = "lost" <=> pc[t] = "lost")
                       /\ (AtRead(t)' <=> AtRead(t))
                       /\ (pc'[t] \in {"await", "read", "blocked", "lost", "write"} =>
                              pc'[t] = pc[t] /\ cur'[t] = cur[t])
  BY <1>1 DEF AtRead
<1>3. Grip'
  BY <1>2 DEF Pairs, Grip
<1> SUFFICES ASSUME Usual(seen') PROVE Paired' /\ Orphans' /\ Newcomers' /\ Behind'
  BY <1>3 DEF Pairs
<1>4. /\ Usual(seen) /\ "stale" \notin seen /\ Paired /\ Orphans /\ Newcomers /\ Behind
      /\ \A t \in Sides : /\ f \notin Doomed(t) /\ f \notin Reach(t)
                          /\ f \notin InUse(t) /\ f # cur[t]
                          /\ Fresh(t, f)
  BY Unheard DEF Pairs
<1>5. \A t \in Sides : Doomed(t)' = Doomed(t)
  <2> SUFFICES ASSUME NEW t \in Sides PROVE Doomed(t)' = Doomed(t)
    OBVIOUS
  <2>1. Other(t)' = Other(t) /\ Other(t) \in Sides
    BY PairFacts DEF Other
  <2> QED BY <2>1, <1>2 DEF Doomed
<1>6. \A t \in Sides : InUse(t)' = InUse(t) /\ Routed(t)' = Routed(t)
  <2>1. /\ IsServer' <=> IsServer
        /\ pc["proxy"] = "insert" /\ ~IsServer <=> pc'["proxy"] = "insert" /\ ~IsServer
        /\ pc["proxy"] = "await" <=> pc'["proxy"] = "await"
        /\ pc["proxy"] = "insert" /\ ~IsServer => cur'["proxy"] = cur["proxy"]
        /\ pc["proxy"] = "await" => cur'["proxy"] = cur["proxy"]
    BY DEF IsServer
  <2>2. \A t \in Sides : InUse(t)' = InUse(t)
    BY <2>1, <1>1 DEF InUse
  <2> QED BY <2>1, <2>2 DEF Routed
<1>7. \A t \in Sides : Reach(t)' = Reach(t)
  BY <1>2, <1>6 DEF Reach, AtRead
<1>8. \A t \in Sides : \A g : Fresh(t, g) => Fresh(t, g)'
  <2>1. \A t \in Sides : Other(t)' = Other(t) /\ Other(t) \in Sides
    BY PairFacts DEF Other
  <2> QED BY <2>1, <1>5, <1>7 DEF Fresh
<1>9. \A g \in Fds : g # f => sock'[g] = sock[g]
  BY Opening
<1>10. Paired'
  <2> SUFFICES ASSUME NEW t \in Sides, NEW g \in Routed(t)
               PROVE  \/ partner[t][g] = 0
                      \/ sock'[g] \in Ends /\ sock'[partner[t][g]] = Opposite(sock'[g])
                      \/ Waits(t, g)'
    BY <1>6 DEF Paired, Opposite, Other
  <2>1. g \in Fds /\ partner[t][g] \in Fds /\ g # f /\ partner[t][g] # f
    BY <1>4, PairFacts DEF Reach
  <2>2. Waits(t, g) => Waits(t, g)'
    <3>1. Other(t)' = Other(t) /\ Other(t) \in Sides
      BY PairFacts DEF Other
    <3>2. pc[Other(t)] = "lost" => pc'[Other(t)] = "lost" /\ cur'[Other(t)] = cur[Other(t)]
      BY <3>1, <1>2
    <3> QED BY <3>1, <3>2 DEF Waits
  <2> QED BY <2>1, <2>2, <1>4, <1>9 DEF Paired
<1>11. Orphans'
  <2> SUFFICES ASSUME NEW t \in Sides, NEW g \in Doomed(t) \cap InUse(t), sock'[g] \in Ends,
                      NEW h \in Fds, sock'[h] = Opposite(sock'[g])
               PROVE  FALSE
    <3>1. \A t \in Sides : (Doomed(t) \cap InUse(t))' \subseteq Doomed(t) \cap InUse(t)
      BY <1>5, <1>6
    <3> QED BY <3>1 DEF Orphans, IsOpen, Opposite
  <2>1. sock'[g] = sock[g] /\ sock[g] \in Ends
    BY <1>4, <1>9, PairFacts, SMTT(30)
  <2>2. CASE h # f
    BY <2>1, <2>2, <1>4, <1>9 DEF Orphans, IsOpen
  <2>3. CASE h = f
    <3>1. sock'[h] = e
      BY <2>3, Opening
    <3>2. e \in Ends /\ sock[g] = Opposite(e)
      BY <3>1, <2>1, Opposites
    <3> QED BY <3>2, <1>4
  <2> QED BY <2>2, <2>3
<1>12. Newcomers'
  <2>1. \A i \in DOMAIN tunnels' : tunnels'[i] # NoFd => Fresh("net", tunnels[i])'
    <3> SUFFICES ASSUME NEW i \in DOMAIN tunnels', tunnels'[i] # NoFd
                 PROVE  Fresh("net", tunnels[i])'
      OBVIOUS
    <3>1. Fresh("net", tunnels'[i])
      BY <1>4, Constants DEF Newcomers
    <3>2. Other("net")' = Other("net") /\ Other("net") \in Sides /\ "net" \in Sides
      BY Constants DEF Other
    <3> QED BY <3>1, <3>2, <1>5, <1>7 DEF Fresh
  <2>2. IsServer' /\ pc'["proxy"] \in {"insert", "await"} => Fresh("proxy", cur["proxy"])'
    <3> SUFFICES ASSUME IsServer', pc'["proxy"] \in {"insert", "await"}
                 PROVE  Fresh("proxy", cur["proxy"])'
      OBVIOUS
    <3>1. Fresh("proxy", cur'["proxy"])
      BY <1>4, Constants DEF Newcomers, IsServer
    <3>2. Other("proxy")' = Other("proxy") /\ Other("proxy") \in Sides /\ "proxy" \in Sides
      BY Constants DEF Other
    <3> QED BY <3>1, <3>2, <1>5, <1>7 DEF Fresh
  <2>3. pc'["proxy"] = "await" => cur'["proxy"] \in Registered(table'["proxy"])
    BY <1>2, <1>4, Constants DEF Newcomers
  <2> QED BY <2>1, <2>2, <2>3 DEF Newcomers
<1>13. Behind'
  <2> SUFFICES ASSUME NEW t \in Sides, AtRead(t), cur[t] \notin Registered(table[t])
               PROVE  sock'[partner[t][cur[t]]] \notin Ends
    BY <1>2 DEF Behind, AtRead
  <2>1. partner[t][cur[t]] # f /\ partner[t][cur[t]] \in Fds
    BY <1>4, PairFacts DEF Reach, AtRead
  <2> QED BY <2>1, <1>4, <1>9 DEF Behind
<1> QED BY <1>10, <1>11, <1>12, <1>13

\* The client's manager hands a tunnel over.
LEMMA OfferPairs ==
  ASSUME IInv, IInv', Pairs, NEW c \in Conns, Offer(c), UNCHANGED listener
  PROVE  Pairs'
<1> USE DEF loops, maps
<1>1. PICK f \in Fds : OpenOn(f, <<"net", c>>, {}) /\ tunnels' = Append(tunnels, f)
  BY DEF Offer
<1>2. /\ <<"net", c>> \in Ends /\ {} \in SUBSET Marks /\ "net" \in Sides
      /\ Opposite(<<"net", c>>) = <<"proxy", c>>
      /\ UNCHANGED <<table, removed, buffer, partner, actualfds, listener, pc, cur>>
  BY EndOf, Constants DEF Offer, Other
<1>3. \A i \in DOMAIN tunnels' : tunnels'[i] = f \/ \E j \in DOMAIN tunnels : tunnels'[i] = tunnels[j]
  BY <1>1, PairFacts
<1>4. ASSUME NEW t \in Sides, NEW g \in InUse(t) PROVE sock[g] # <<"proxy", c>>
  <2>1. Unused(<<"proxy", c>>)
    BY DEF Offer, IInv, Births, ClientBirths
  <2> QED BY <2>1, PairFacts DEF Unused, IsOpen
<1> HIDE DEF loops, maps
<1> QED BY <1>1, <1>2, <1>3, <1>4, OpenPairs

\* The promise proxyThread waits for is fulfilled.
LEMMA PromisePairs ==
  ASSUME IInv, IInv', Pairs, Promise
  PROVE  Pairs'
<1> USE DEF loops, maps
<1>1. /\ IsServer /\ pc["proxy"] = "await" /\ tunnels = <<>> /\ req \in Conns
      /\ UNCHANGED <<table, removed, buffer, partner, actualfds, listener, pc, cur>>
  BY DEF Promise, IInv, InHand, Types
<1>2. CASE \E f \in Fds : OpenOn(f, <<"net", req>>, {}) /\ tunnels' = <<f>>
  <2>1. PICK f \in Fds : OpenOn(f, <<"net", req>>, {}) /\ tunnels' = <<f>>
    BY <1>2
  <2>2. /\ <<"net", req>> \in Ends /\ {} \in SUBSET Marks /\ "net" \in Sides
        /\ Opposite(<<"net", req>>) = <<"proxy", req>> /\ <<"proxy", req>> \in Ends
    BY <1>1, EndOf, Constants DEF Other
  <2>3. \A i \in DOMAIN tunnels' : tunnels'[i] = f
    BY <2>1
  <2>4. ASSUME Usual(seen), NEW t \in Sides, NEW g \in Doomed(t) \cap InUse(t),
               sock[g] = <<"proxy", req>>
        PROVE  FALSE
    <3>1. g = cur["proxy"]
      BY <2>4, <1>1, PairFacts DEF IInv, Births, ServerBirths, Usual
    <3>2. t = "proxy"
      <4>1. sock[g] \in {t} \X Conns
        BY <2>2, <2>4, OwnSide, Constants
      <4> QED BY <4>1, <2>4
    <3>3. Fresh("proxy", cur["proxy"])
      BY <1>1, <2>4 DEF Pairs, Newcomers
    <3> QED BY <3>1, <3>2, <3>3 DEF Fresh
  <2> HIDE DEF loops, maps
  <2> QED BY <1>1, <2>1, <2>2, <2>3, <2>4, OpenPairs
<1>3. CASE tunnels' = <<NoFd>> /\ seen' = seen \cup {"absent"} /\ sock' = sock
  <2>1. \A t \in Sides : /\ InUse(t)' = InUse(t) /\ Routed(t)' = Routed(t)
                         /\ Doomed(t)' = Doomed(t) /\ Reach(t)' = Reach(t)
    BY <1>1 DEF InUse, Routed, Doomed, Reach, AtRead, Other, IsServer
  <2>2. Usual(seen') => Usual(seen)
    BY <1>3 DEF Usual
  <2>3. Grip'
    BY <1>1 DEF Pairs, Grip
  <2> SUFFICES ASSUME Paired, Orphans, Newcomers, Behind
               PROVE Paired' /\ Orphans' /\ Newcomers' /\ Behind'
    BY <2>2, <2>3 DEF Pairs
  <2>4. Paired'
    BY <1>1, <1>3, <2>1 DEF Paired, Opposite, Other, Waits
  <2>5. Orphans'
    BY <1>3, <2>1 DEF Orphans, IsOpen, Opposite, Other
  <2>6. Newcomers'
    <3>1. \A i \in DOMAIN tunnels' : tunnels'[i] = NoFd
      BY <1>3
    <3>2. Fresh("proxy", cur["proxy"]) => Fresh("proxy", cur["proxy"])'
      <4>1. Other("proxy")' = Other("proxy") /\ Other("proxy") \in Sides /\ "proxy" \in Sides
        BY Constants DEF Other
      <4> QED BY <4>1, <1>1, <2>1 DEF Fresh
    <3> QED BY <1>1, <3>1, <3>2 DEF Newcomers, IsServer
  <2>7. Behind'
    BY <1>1, <1>3 DEF Behind, AtRead
  <2> QED BY <2>4, <2>5, <2>6, <2>7
<1> QED BY <1>2, <1>3 DEF Promise

\* A user is accepted.
LEMMA AcceptPairs ==
  ASSUME IInv, IInv', Pairs, Accept, UNCHANGED listener
  PROVE  Pairs'
<1> USE DEF maps, queues
<1>1. PICK c \in backlog, f \in Fds :
          /\ OpenOn(f, <<"proxy", c>>, {})
          /\ cur' = [cur EXCEPT !["proxy"] = f]
  BY DEF Accept
<1>2. /\ c \in Conns /\ <<"proxy", c>> \in Ends /\ {} \in SUBSET Marks
      /\ Opposite(<<"proxy", c>>) = <<"net", c>>
      /\ UNCHANGED <<table, removed, buffer, partner, actualfds, listener, tunnels>>
  <2>1. c \in Conns
    BY DEF IInv, Types
  <2> QED BY <2>1, EndOf, Constants DEF Accept, Other
<1>3. IsServer
  BY DEF IInv, Births, ClientBirths
<1>4. /\ pc["proxy"] = "scan" /\ pc'["proxy"] = "insert" /\ pc'["net"] = pc["net"]
      /\ cur'["net"] = cur["net"] /\ cur'["proxy"] = f
  BY <1>1, PairFacts, Constants DEF Accept, Goto
<1>5. ASSUME NEW t \in Sides, NEW g \in InUse(t) PROVE sock[g] # <<"net", c>>
  <2>1. Unused(<<"net", c>>)
    BY <1>2, <1>3 DEF IInv, Births, ServerBirths
  <2> QED BY <2>1, PairFacts DEF Unused, IsOpen
<1>6. \A i \in DOMAIN tunnels' : tunnels'[i] # NoFd =>
            tunnels'[i] = f \/ \E j \in DOMAIN tunnels : tunnels'[i] = tunnels[j]
  BY <1>2
<1> HIDE DEF maps, queues
<1> QED BY <1>1, <1>2, <1>3, <1>4, <1>5, <1>6, OpenPairs

\* What is left of a queue without its head was in it.
LEMMA TailOf ==
  ASSUME NEW S, NEW q \in Seq(S), q # <<>>
  PROVE  /\ Tail(q) \in Seq(S) /\ Len(Tail(q)) = Len(q) - 1
         /\ \A i \in DOMAIN Tail(q) : i + 1 \in DOMAIN q /\ Tail(q)[i] = q[i + 1] /\ i + 1 # 1
         /\ Head(q) = q[1] /\ 1 \in DOMAIN q
<1>1. Tail(q) \in Seq(S) /\ Len(Tail(q)) = Len(q) - 1
  OBVIOUS
<1>2. ASSUME NEW i \in DOMAIN Tail(q)
      PROVE  i + 1 \in DOMAIN q /\ Tail(q)[i] = q[i + 1] /\ i + 1 # 1
  <2>1. i \in 1 .. Len(q) - 1
    BY <1>1
  <2> QED BY <2>1
<1>3. Head(q) = q[1] /\ 1 \in DOMAIN q
  OBVIOUS
<1> QED BY <1>1, <1>2, <1>3

\* The service does not answer.
LEMMA ConnectFailsPairs ==
  ASSUME IInv, IInv', Pairs, NEW f \in Fds, OpenOn(f, Misc, {"absent"}), tunnels # <<>>,
         tunnels' = Tail(tunnels), pc["proxy"] = "dispatch", Goto("proxy", "scan"),
         UNCHANGED <<listener, cur, partner, actualfds, table, buffer, removed>>
  PROVE  Pairs'
<1>1. \A i \in DOMAIN tunnels' : \E j \in DOMAIN tunnels : tunnels'[i] = tunnels[j]
  BY PairFacts, TailOf
<1>2. pc'["proxy"] = "scan" /\ pc'["net"] = pc["net"] /\ cur' = cur
  BY PairFacts, Constants DEF Goto
<1>3. {"absent"} \in SUBSET Marks /\ Misc \in Ends \cup {Misc} /\ Misc \notin Ends
  BY Constants DEF Marks
<1> QED BY <1>1, <1>2, <1>3, OpenPairs

\* Two descriptors are coupled: f has just been opened, or is in the table.
Coupled(f, g) ==
    /\ Couple(f, g) /\ UNCHANGED <<table, removed, buffer, listener>>
    /\ pc'["net"] = pc["net"] /\ cur'["net"] = cur["net"]
    /\ pc["proxy"] \in {"dispatch", "await"}
    /\ pc'["proxy"] \in {"insert", "scan"} /\ (pc'["proxy"] = "insert" => ~IsServer)
    /\ seen \subseteq seen'

LEMMA CouplePairs ==
  ASSUME IInv, IInv', Pairs, NEW f \in Fds, NEW g \in Fds, Coupled(f, g),
         Usual(seen') =>
            /\ Routed("proxy")' \subseteq Routed("proxy") \cup {f} /\ f \notin Routed("proxy")
            /\ InUse("proxy")' \subseteq InUse("proxy") \cup {f}
            /\ InUse("net")' \subseteq InUse("net") \cup {g} /\ g \notin InUse("net")
            /\ f \notin Doomed("proxy") /\ g \notin Doomed("net")
            /\ sock'[f] \in Ends /\ sock'[g] = Opposite(sock'[f])
            /\ \A h \in Fds \ {f} : sock'[h] = sock[h]
            /\ \/ sock'[f] = sock[f]
               \/ \A t \in Sides :
                     /\ f \notin Reach(t) /\ f \notin InUse(t)
                     /\ \A h \in InUse(t) : sock[h] # Opposite(sock'[f])
            /\ \A i \in DOMAIN tunnels' :
                  /\ tunnels'[i] # g
                  /\ \E j \in DOMAIN tunnels : tunnels'[i] = tunnels[j]
            /\ AtRead("net") => cur["net"] # g
  PROVE  Pairs'
<1>1. /\ \A t \in Sides : t = "net" \/ t = "proxy"
      /\ Other("proxy") = "net" /\ Other("net") = "proxy"
      /\ "proxy" \in Sides /\ "net" \in Sides
  BY Constants DEF Other
<1>2. \A t \in Sides : /\ (pc'[t] = "lost" <=> pc[t] = "lost")
                       /\ (AtRead(t)' <=> AtRead(t))
                       /\ (pc'[t] \in {"await", "read", "blocked", "lost", "write"} =>
                              pc'[t] = pc[t] /\ cur'[t] = cur[t])
                       /\ (AtRead(t) => t = "net")
  BY <1>1 DEF Coupled, AtRead
<1>3. Grip'
  BY <1>2 DEF Pairs, Grip, Coupled
<1> SUFFICES ASSUME Usual(seen') PROVE Paired' /\ Orphans' /\ Newcomers' /\ Behind'
  BY <1>3 DEF Pairs
<1>4. Usual(seen) /\ Paired /\ Orphans /\ Newcomers /\ Behind
  BY DEF Pairs, Usual, Coupled
<1>5. \A t \in Sides : Doomed(t)' = Doomed(t)
  BY <1>1, <1>2 DEF Doomed, Coupled, Other
<1>6. /\ \A h \in Fds : partner'["proxy"][h] = IF h = f THEN g ELSE partner["proxy"][h]
      /\ \A h \in Fds : partner'["net"][h] = IF h = g THEN f ELSE partner["net"][h]
  BY PairFacts, <1>1 DEF Coupled, Couple
<1>7. Routed("net")' \subseteq Routed("net") \cup {g} /\ g \notin Routed("net")
  BY <1>1 DEF Routed
<1>8. \A t \in Sides : \A h \in Routed(t) : h \in Fds /\ h \in InUse(t)
  BY PairFacts
<1>9. Paired'
  <2> SUFFICES ASSUME NEW t \in Sides, NEW h \in Routed(t)'
               PROVE  \/ partner'[t][h] = 0
                      \/ sock'[h] \in Ends /\ sock'[partner'[t][h]] = Opposite(sock'[h])
                      \/ Waits(t, h)'
    BY DEF Paired, Opposite, Other
  <2>1. CASE t = "proxy" /\ h = f
    BY <2>1, <1>6
  <2>2. CASE t = "net" /\ h = g
    <3>1. sock'[g] \in Ends /\ sock'[f] = Opposite(sock'[g])
      BY Opposites
    <3> QED BY <2>2, <3>1, <1>6
  <2>3. CASE h \in Routed(t) /\ ~(t = "proxy" /\ h = f) /\ ~(t = "net" /\ h = g)
    <3>1. h \in Fds /\ partner'[t][h] = partner[t][h] /\ partner[t][h] \in Fds
      BY <2>3, <1>1, <1>6, <1>8, PairFacts
    <3>2. Waits(t, h) => Waits(t, h)'
      BY <1>1, <1>2 DEF Waits, Coupled, Other
    <3>3. sock'[h] = sock[h] /\ sock'[partner[t][h]] = sock[partner[t][h]]
      <4>1. CASE sock'[f] = sock[f]
        BY <4>1, <3>1
      <4>2. CASE f \notin Reach(t) /\ f \notin InUse(t)
        BY <4>2, <3>1, <2>3, <1>8 DEF Reach
      <4> QED BY <4>1, <4>2
    <3> QED BY <2>3, <3>1, <3>2, <3>3, <1>4 DEF Paired
  <2> QED BY <2>1, <2>2, <2>3, <1>1, <1>7
<1>10. Orphans'
  <2> SUFFICES ASSUME NEW t \in Sides, NEW h \in Doomed(t), h \in InUse(t)', sock'[h] \in Ends,
                      NEW x \in Fds, sock'[x] = Opposite(sock'[h])
               PROVE  FALSE
    BY <1>5 DEF Orphans, IsOpen, Opposite, Other
  <2>1. h \in InUse(t) /\ h \in Fds
    <3>1. CASE t = "proxy"
      BY <3>1, PairFacts
    <3>2. CASE t = "net"
      BY <3>2, PairFacts
    <3> QED BY <3>1, <3>2, <1>1
  <2>2. CASE sock'[f] = sock[f]
    <3>1. sock'[h] = sock[h] /\ sock'[x] = sock[x]
      BY <2>1, <2>2
    <3> QED BY <3>1, <2>1, <1>4 DEF Orphans, IsOpen
  <2>3. CASE f \notin InUse(t) /\ \A y \in InUse(t) : sock[y] # Opposite(sock'[f])
    <3>1. sock'[h] = sock[h]
      BY <2>1, <2>3
    <3>2. CASE x = f
      <4>1. sock[h] = Opposite(sock'[f])
        BY <3>1, <3>2, Opposites
      <4> QED BY <4>1, <2>1, <2>3
    <3>3. CASE x # f
      <4>1. sock'[x] = sock[x]
        BY <3>3
      <4> QED BY <4>1, <3>1, <2>1, <1>4, ZenonT(40) DEF Orphans, IsOpen
    <3> QED BY <3>2, <3>3
  <2> QED BY <2>2, <2>3
<1>11. Newcomers'
  <2>1. Reach("proxy")' \subseteq Reach("proxy") \cup {g}
    <3> SUFFICES ASSUME NEW h \in Routed("proxy")'
                 PROVE  partner'["proxy"][h] \in Reach("proxy") \cup {g}
      BY <1>1, <1>2 DEF Reach
    <3>1. CASE h = f
      BY <3>1, <1>6
    <3>2. CASE h \in Routed("proxy") /\ h # f
      BY <3>2, <1>1, <1>6, <1>8 DEF Reach
    <3> QED BY <3>1, <3>2
  <2>2. ASSUME NEW i \in DOMAIN tunnels', tunnels'[i] # NoFd
        PROVE  Fresh("net", tunnels[i])'
    <3>1. Fresh("net", tunnels'[i])
      BY <2>2, <1>4 DEF Newcomers
    <3>2. tunnels'[i] \notin Doomed("net")' \cup Reach("proxy")'
      BY <3>1, <2>1, <1>1, <1>5 DEF Fresh
    <3>3. Other("net")' = "proxy"
      BY <1>1 DEF Other
    <3> QED BY <3>2, <3>3 DEF Fresh
  <2>3. ~(IsServer' /\ pc'["proxy"] \in {"insert", "await"}) /\ pc'["proxy"] # "await"
    BY DEF Coupled, IsServer
  <2> QED BY <2>2, <2>3 DEF Newcomers
<1>12. Behind'
  <2> SUFFICES ASSUME AtRead("net"), cur["net"] \notin Registered(table["net"])
               PROVE  sock'[partner'["net"][cur["net"]]] \notin Ends
    BY <1>2 DEF Behind, Coupled, AtRead
  <2>1. cur["net"] \in Fds
    BY <1>1, PairFacts DEF AtRead
  <2>2. /\ partner'["net"][cur["net"]] = partner["net"][cur["net"]]
        /\ partner["net"][cur["net"]] \in Fds
    BY <2>1, <1>1, <1>6, PairFacts
  <2>3. sock[partner["net"][cur["net"]]] \notin Ends
    BY <1>1, <1>4 DEF Behind
  <2>4. sock'[partner["net"][cur["net"]]] = sock[partner["net"][cur["net"]]]
    <3>1. CASE sock'[f] = sock[f]
      BY <3>1, <2>2
    <3>2. CASE f \notin Reach("net")
      BY <3>2, <2>2 DEF Reach
    <3> QED BY <3>1, <3>2, <1>1
  <2> QED BY <2>2, <2>3, <2>4
<1> QED BY <1>9, <1>10, <1>11, <1>12

\* What is in a queue that something was put into.
LEMMA AppendParts ==
  ASSUME NEW S, NEW q \in Seq(S), NEW x
  PROVE  \A i \in DOMAIN Append(q, x) :
            Append(q, x)[i] = x \/ \E j \in DOMAIN q : Append(q, x)[i] = q[j]
<1> SUFFICES ASSUME NEW i \in DOMAIN Append(q, x), Append(q, x)[i] # x
             PROVE  \E j \in DOMAIN q : Append(q, x)[i] = q[j]
  OBVIOUS
<1>1. DOMAIN Append(q, x) = 1 .. Len(q) + 1 /\ Append(q, x)[Len(q) + 1] = x
  OBVIOUS
<1>2. i \in 1 .. Len(q) /\ i \in DOMAIN q
  BY <1>1
<1>3. Append(q, x)[i] = q[i]
  BY <1>2
<1> QED BY <1>2, <1>3

\* The client connects to its service for a tunnel.
LEMMA ConnectServicePairs ==
  ASSUME IInv, IInv', Pairs, ~IsServer, pc["proxy"] = "dispatch", tunnels # <<>>,
         tunnels' = Tail(tunnels), NEW f \in Fds, NEW c, c = sock[Head(tunnels)][2],
         OpenOn(f, <<"proxy", c>>, {}), Couple(f, Head(tunnels)),
         cur' = [cur EXCEPT !["proxy"] = f], Goto("proxy", "insert"),
         UNCHANGED <<listener, table, buffer, removed>>
  PROVE  Pairs'
<1>1. PICK g : g = Head(tunnels)
  OBVIOUS
<1>2. /\ g = tunnels[1] /\ 1 \in DOMAIN tunnels
      /\ \A i \in DOMAIN tunnels' : i + 1 \in DOMAIN tunnels /\ i + 1 # 1 /\ tunnels'[i] = tunnels[i + 1]
  BY <1>1, PairFacts, TailOf
<1>3. g # NoFd /\ g \in Fds /\ sock[g] \in {"net"} \X Conns
  BY <1>2, PairFacts DEF IInv, Births, ClientBirths, Pending0
<1>4. /\ c \in Conns /\ sock[g] = <<"net", c>> /\ <<"net", c>> \in Ends
      /\ <<"proxy", c>> \in Ends /\ Opposite(<<"proxy", c>>) = <<"net", c>>
      /\ <<"proxy", c>> \in Ends \cup {Misc} /\ {} \in SUBSET Marks
      /\ \A h \in Fds : sock[h] = <<"net", c>> => h = g
  <2>1. c \in Conns /\ sock[g] = <<"net", c>>
    BY <1>1, <1>3
  <2>2. /\ <<"proxy", c>> \in Ends /\ <<"net", c>> \in Ends
        /\ Opposite(<<"proxy", c>>) = <<"net", c>>
    BY <2>1, EndOf, Constants DEF Other
  <2> QED BY <2>1, <2>2, <1>3, OneSocket
<1>5. /\ pc'["proxy"] = "insert" /\ cur'["proxy"] = f
      /\ pc'["net"] = pc["net"] /\ cur'["net"] = cur["net"]
  BY PairFacts, Constants DEF Goto
<1>6. Coupled(f, g) /\ actualfds' = Append(actualfds, g)
  BY <1>1, <1>4, <1>5, Opening DEF Coupled, Couple
<1>7. \A i \in DOMAIN actualfds' :
         actualfds'[i] = g \/ \E j \in DOMAIN actualfds : actualfds'[i] = actualfds[j]
  BY <1>6, AppendParts, PairFacts
<1> SUFFICES ASSUME Usual(seen')
             PROVE
            /\ Routed("proxy")' \subseteq Routed("proxy") \cup {f} /\ f \notin Routed("proxy")
            /\ InUse("proxy")' \subseteq InUse("proxy") \cup {f}
            /\ InUse("net")' \subseteq InUse("net") \cup {g} /\ g \notin InUse("net")
            /\ f \notin Doomed("proxy") /\ g \notin Doomed("net")
            /\ sock'[f] \in Ends /\ sock'[g] = Opposite(sock'[f])
            /\ \A h \in Fds \ {f} : sock'[h] = sock[h]
            /\ \A t \in Sides :
                     /\ f \notin Reach(t) /\ f \notin InUse(t)
                     /\ \A h \in InUse(t) : sock[h] # Opposite(sock'[f])
            /\ \A i \in DOMAIN tunnels' :
                  /\ tunnels'[i] # g
                  /\ \E j \in DOMAIN tunnels : tunnels'[i] = tunnels[j]
            /\ AtRead("net") => cur["net"] # g
  BY <1>3, <1>6, CouplePairs
<1>8. /\ Usual(seen) /\ "stale" \notin seen
      /\ \A t \in Sides : f \notin Doomed(t) /\ f \notin Reach(t) /\ f \notin InUse(t)
  BY <1>4, Unheard
<1>9. "proxy" \in Sides /\ "net" \in Sides
  BY Constants
<1>10. sock'[f] = <<"proxy", c>> /\ \A h \in Fds \ {f} : sock'[h] = sock[h]
  BY <1>4, Opening
<1>11. f # g /\ sock'[g] = <<"net", c>>
  <2>1. sock[f] = Closed
    BY <1>4, Opening
  <2> QED BY <2>1, <1>3, <1>4, <1>10, Constants
<1>12. /\ InUse("proxy")' \subseteq InUse("proxy") \cup {f}
       /\ InUse("net")' \subseteq InUse("net") \cup {g}
  BY <1>5, <1>7 DEF InUse
<1>13. Routed("proxy")' \subseteq Routed("proxy") \cup {f} /\ f \notin Routed("proxy")
  BY <1>5, <1>8, <1>9, <1>12 DEF Routed
<1>14. g \notin InUse("net")
  BY <1>2, <1>3 DEF IInv, Pending0, InUse
<1>15. \A t \in Sides : g \notin InUse(t)
  BY <1>3, <1>4, <1>9, <1>14, OwnSide, EndsOfSide, Constants
<1>16. g \notin Doomed("net")
  BY <1>2, <1>3, <1>8 DEF Pairs, Newcomers, Fresh
<1>17. \A i \in DOMAIN tunnels' : tunnels'[i] # g
  BY <1>2, <1>3 DEF IInv, Pending0
<1>18. AtRead("net") => cur["net"] # g
  <2> SUFFICES ASSUME AtRead("net"), cur["net"] = g PROVE FALSE
    OBVIOUS
  <2>1. g \in Registered(table["net"])
    BY <1>3, <1>4, <1>8, <1>9, OwnSocket DEF AtRead
  <2> QED BY <2>1, <1>9, <1>14, PairFacts
<1>19. ASSUME NEW t \in Sides, NEW h \in InUse(t) PROVE sock[h] # Opposite(sock'[f])
  <2>1. h \in Fds /\ h # g
    BY <1>15, PairFacts
  <2> QED BY <2>1, <1>4, <1>10
<1>20. sock'[f] \in Ends /\ sock'[g] = Opposite(sock'[f])
  BY <1>4, <1>10, <1>11
<1>21. f \notin Doomed("proxy") /\ \A t \in Sides : f \notin Reach(t) /\ f \notin InUse(t)
  BY <1>8, <1>9
<1>22. \A i \in DOMAIN tunnels' : \E j \in DOMAIN tunnels : tunnels'[i] = tunnels[j]
  BY <1>2
<1> QED BY <1>10, <1>12, <1>13, <1>14, <1>16, <1>17, <1>18, <1>19, <1>20, <1>21, <1>22

\* A descriptor is registered.
LEMMA InsertPairs ==
  ASSUME IInv, IInv', Pairs, NEW s \in Sides, NEW f \in Fds \ Registered(table[s]),
         InsertInto(s, f), UNCHANGED <<listener, partner, buffer, removed, tunnels>>,
         \A t \in Sides \ {s} : pc'[t] = pc[t] /\ cur'[t] = cur[t],
         pc[s] \in {"insert", "dispatch"}, pc'[s] \in {"await", "scan"},
         UNCHANGED sock /\ Usual(seen) =>
            /\ \A t \in Sides : Routed(t)' \subseteq Routed(t)
            /\ \A t \in Sides : InUse(t)' \subseteq InUse(t) \cup {x \in {f} : t = s}
            /\ f \in InUse(s) \/ f \notin Doomed(s)
            /\ IsServer /\ pc'["proxy"] \in {"insert", "await"} => Fresh("proxy", cur'["proxy"])
            /\ pc'["proxy"] = "await" => cur'["proxy"] \in Registered(table'["proxy"])
  PROVE  Pairs'
<1>1. \A t \in Sides : /\ (pc'[t] = "lost" <=> pc[t] = "lost")
                       /\ (AtRead(t)' <=> AtRead(t)) /\ (AtRead(t) => t # s)
                       /\ (pc'[t] \in {"read", "blocked", "lost", "write"} =>
                              t # s /\ pc'[t] = pc[t] /\ cur'[t] = cur[t])
                       /\ (t # s => table'[t] = table[t])
  <2>1. ASSUME NEW t \in Sides, t # s PROVE table'[t] = table[t]
    BY <2>1, PairFacts DEF InsertInto
  <2> QED BY <2>1 DEF AtRead
<1>2. Grip'
  BY <1>1 DEF Pairs, Grip
<1> SUFFICES ASSUME Usual(seen') PROVE Paired' /\ Orphans' /\ Newcomers' /\ Behind'
  BY <1>2 DEF Pairs
<1>3. UNCHANGED <<sock, seen>>
  <2>1. FullMark(s) \notin seen'
    BY DEF Usual, FullMark
  <2> QED BY <2>1 DEF InsertInto
<1>4. /\ Usual(seen) /\ Paired /\ Orphans /\ Newcomers /\ Behind
      /\ \A t \in Sides : Routed(t)' \subseteq Routed(t)
      /\ \A t \in Sides : InUse(t)' \subseteq InUse(t) \cup {x \in {f} : t = s}
      /\ f \in InUse(s) \/ f \notin Doomed(s)
      /\ IsServer /\ pc'["proxy"] \in {"insert", "await"} => Fresh("proxy", cur'["proxy"])
      /\ pc'["proxy"] = "await" => cur'["proxy"] \in Registered(table'["proxy"])
  BY <1>3 DEF Pairs
<1>5. /\ \A t \in Sides : Other(t)' = Other(t) /\ Other(t) \in Sides
      /\ "net" \in Sides /\ "proxy" \in Sides
  BY PairFacts, Constants DEF Other
<1>6. \A t \in Sides : Doomed(t)' = Doomed(t) /\ Reach(t)' \subseteq Reach(t)
  <2>1. \A t \in Sides : Doomed(t)' = Doomed(t)
    BY <1>1, <1>5 DEF Doomed
  <2>2. \A t \in Sides : Reach(t)' \subseteq Reach(t)
    BY <1>1, <1>4 DEF Reach, AtRead
  <2> QED BY <2>1, <2>2
<1>7. Paired'
  <2> SUFFICES ASSUME NEW t \in Sides, NEW h \in Routed(t)
               PROVE  \/ partner[t][h] = 0
                      \/ sock[h] \in Ends /\ sock[partner[t][h]] = Opposite(sock[h])
                      \/ Waits(t, h)'
    BY <1>3, <1>4 DEF Paired, Opposite, Other
  <2>1. Waits(t, h) => Waits(t, h)'
    BY <1>1, <1>5 DEF Waits
  <2> QED BY <2>1, <1>4 DEF Paired
<1>8. Orphans'
  <2> SUFFICES ASSUME NEW t \in Sides, NEW h \in Doomed(t), h \in InUse(t)', sock[h] \in Ends
               PROVE  ~IsOpen(Opposite(sock[h]))
    BY <1>3, <1>6 DEF Orphans, IsOpen, Opposite, Other
  <2>1. h \in InUse(t)
    BY <1>4
  <2> QED BY <2>1, <1>4 DEF Orphans
<1>9. Newcomers'
  <2>1. ASSUME NEW t \in Sides, NEW g, Fresh(t, g) PROVE g \notin Doomed(t)' \cup Reach(Other(t))'
    BY <2>1, <1>5, <1>6 DEF Fresh
  <2>2. ASSUME NEW i \in DOMAIN tunnels', tunnels'[i] # NoFd PROVE Fresh("net", tunnels[i])'
    <3>1. Fresh("net", tunnels'[i])
      BY <2>2, <1>4 DEF Newcomers
    <3> QED BY <3>1, <2>1, <1>5 DEF Fresh
  <2>3. ASSUME IsServer', pc'["proxy"] \in {"insert", "await"} PROVE Fresh("proxy", cur["proxy"])'
    <3>1. Fresh("proxy", cur'["proxy"])
      BY <2>3, <1>4 DEF IsServer
    <3> QED BY <3>1, <2>1, <1>5 DEF Fresh
  <2> QED BY <2>2, <2>3, <1>4 DEF Newcomers
<1>10. Behind'
  BY <1>1, <1>3, <1>4 DEF Behind, AtRead
<1> QED BY <1>7, <1>8, <1>9, <1>10

\* proxyThread registers the descriptor it has opened.
LEMMA InsertProxyPairs ==
  ASSUME IInv, IInv', Pairs, InsertProxy, UNCHANGED listener
  PROVE  Pairs'
<1> USE DEF maps, queues
<1> PICK f : f = cur["proxy"]
  OBVIOUS
<1>1. /\ pc["proxy"] = "insert" /\ InsertInto("proxy", f) /\ "proxy" \in Sides /\ "net" \in Sides
      /\ pc' = [pc EXCEPT !["proxy"] = IF IsServer THEN "await" ELSE "scan"]
      /\ cur' = IF IsServer THEN cur ELSE [cur EXCEPT !["proxy"] = NoFd]
      /\ UNCHANGED <<listener, partner, buffer, removed, tunnels, actualfds>>
  BY Constants DEF InsertProxy, Goto
<1>2. f \in Fds \ Registered(table["proxy"]) /\ sock[f] = <<"proxy", req>> /\ req \in Conns
  BY <1>1, PairFacts DEF IInv, Pending0, InHand, Types
<1>3. /\ pc'["proxy"] = (IF IsServer THEN "await" ELSE "scan")
      /\ \A t \in Sides \ {"proxy"} : pc'[t] = pc[t] /\ cur'[t] = cur[t]
      /\ IsServer => cur'["proxy"] = f
  BY <1>1, PairFacts
<1>4. /\ sock[f] \in {"proxy"} \X Conns
      /\ Registered(table["net"])' = Registered(table["net"])
      /\ Registered(table["proxy"])' \subseteq Registered(table["proxy"]) \cup {f}
  <2>1. sock[f] \in {"proxy"} \X Conns
    BY <1>2
  <2> QED BY <2>1, <1>1, <1>2, Inserting, Constants
<1>5. UNCHANGED <<sock, seen>> \/ FullMark("proxy") \in seen'
  BY <1>1 DEF InsertInto
<1>6. UNCHANGED sock => f \in Registered(table'["proxy"])
  <2> SUFFICES ASSUME UNCHANGED sock PROVE f \in Registered(table'["proxy"])
    OBVIOUS
  <2>1. ~CloseAll({f})
    <3>1. sock[f] # Closed
      BY <1>2, EndOf, Constants
    <3>2. CloseAll({f}) => sock'[f] = Closed
      BY <1>2 DEF CloseAll
    <3> QED BY <3>1, <3>2
  <2>2. PICK i \in Slots : /\ IsFirstFree(table["proxy"], i)
                           /\ table' = [table EXCEPT !["proxy"] = InsertAt(@, i, f)]
    BY <2>1, <1>1 DEF InsertInto, Placed
  <2>3. table'["proxy"] = InsertAt(table["proxy"], i, f) /\ table["proxy"] \in Tables
    BY <2>2, <1>1, PairFacts
  <2>4. table'["proxy"].fd[i] = f /\ f # NoFd
    BY <2>3, <1>2, Constants DEF InsertAt, Tables
  <2> QED BY <2>4 DEF Registered
<1>7. ASSUME UNCHANGED sock, Usual(seen)
      PROVE  /\ \A t \in Sides : Routed(t)' \subseteq Routed(t)
             /\ \A t \in Sides : InUse(t)' \subseteq InUse(t) \cup {x \in {f} : t = "proxy"}
             /\ f \in InUse("proxy") \/ f \notin Doomed("proxy")
             /\ IsServer /\ pc'["proxy"] \in {"insert", "await"} => Fresh("proxy", cur'["proxy"])
             /\ pc'["proxy"] = "await" => cur'["proxy"] \in Registered(table'["proxy"])
  <2>1. IsServer => Fresh("proxy", f)
    BY <1>1, <1>7 DEF Pairs, Newcomers
  <2>2. ~IsServer => f \in InUse("proxy")
    BY <1>1 DEF InUse
  <2>3. f \in InUse("proxy") \/ f \notin Doomed("proxy")
    BY <2>1, <2>2 DEF Fresh
  <2>4. /\ InUse("net")' \subseteq InUse("net")
        /\ InUse("proxy")' \subseteq InUse("proxy") \cup {f}
    BY <1>1, <1>3, <1>4 DEF InUse
  <2>5. Routed("net")' \subseteq Routed("net")
    BY <2>4 DEF Routed
  <2>6. Routed("proxy")' \subseteq Routed("proxy")
    <3>1. Routed("proxy") = InUse("proxy")
      BY <1>1 DEF Routed
    <3>2. CASE IsServer
      <4>1. Routed("proxy")' = InUse("proxy")' \ {f}
        BY <3>2, <1>3 DEF Routed
      <4> QED BY <3>1, <4>1, <2>4
    <3>3. CASE ~IsServer
      <4>1. Routed("proxy")' = InUse("proxy")'
        BY <3>3, <1>3 DEF Routed
      <4> QED BY <3>1, <3>3, <4>1, <2>2, <2>4
    <3> QED BY <3>2, <3>3
  <2>7. \A t \in Sides : t = "net" \/ t = "proxy"
    BY Constants
  <2>8. /\ IsServer /\ pc'["proxy"] \in {"insert", "await"} => Fresh("proxy", cur'["proxy"])
        /\ pc'["proxy"] = "await" => cur'["proxy"] \in Registered(table'["proxy"])
    BY <2>1, <1>3, <1>6, <1>7
  <2> QED BY <2>3, <2>4, <2>5, <2>6, <2>7, <2>8
<1> QED BY <1>1, <1>2, <1>3, <1>7, InsertPairs, Zenon

\* A thread has nothing to take from its queue.
LEMMA NothingNewPairs ==
  ASSUME IInv, IInv', Pairs, NEW s \in Sides, pc[s] = "dispatch", Goto(s, "scan"),
         UNCHANGED <<listener, sock, table, cur, slot, backlog, req, queues, partner, inserted,
                     seen, removed, buffer>>
  PROVE  Pairs'
<1>1. cur = [cur EXCEPT ![s] = cur[s]] /\ cur[s] \in Fds \cup {NoFd} /\ "scan" \in Places \ {"lost"}
  BY PairFacts DEF Places
<1>2. LoopStep(s, {}, "scan", cur[s])
  BY <1>1, NothingGone DEF LoopStep, Goes, Goto
<1> QED BY <1>1, <1>2, QuietPairs

\* netThread registers the next tunnel.
LEMMA TakeTunnelPairs ==
  ASSUME IInv, IInv', Pairs, TakeTunnel, UNCHANGED listener
  PROVE  Pairs'
<1> USE DEF maps
<1>1. /\ pc["net"] = "dispatch" /\ Goto("net", "scan") /\ "net" \in Sides /\ "proxy" \in Sides
      /\ UNCHANGED <<listener, cur, slot, backlog, req, partner, buffer, removed, tunnels>>
  BY Constants DEF TakeTunnel
<1>2. CASE actualfds = <<>>
  <2>1. UNCHANGED <<sock, table, actualfds, inserted, seen>>
    BY <1>2 DEF TakeTunnel
  <2> QED BY <1>1, <2>1, NothingNewPairs DEF queues
<1>3. CASE actualfds # <<>>
  <2> PICK f : f = Head(actualfds)
    OBVIOUS
  <2>1. actualfds' = Tail(actualfds) /\ InsertInto("net", f)
    BY <1>3 DEF TakeTunnel
  <2>2. /\ f = actualfds[1] /\ 1 \in DOMAIN actualfds
        /\ \A i \in DOMAIN actualfds' : \E j \in DOMAIN actualfds : actualfds'[i] = actualfds[j]
    BY <1>3, <2>1, PairFacts, TailOf
  <2>3. /\ f \in Fds \ Registered(table["net"]) /\ sock[f] \in {"net"} \X Conns
        /\ f \in InUse("net")
    BY <2>2, <1>1, PairFacts DEF IInv, Pending0, InUse
  <2>4. /\ pc'["net"] = "scan" /\ \A t \in Sides \ {"net"} : pc'[t] = pc[t] /\ cur'[t] = cur[t]
    BY <1>1, PairFacts DEF Goto
  <2>5. /\ Registered(table["proxy"])' = Registered(table["proxy"])
        /\ Registered(table["net"])' \subseteq Registered(table["net"]) \cup {f}
    BY <1>1, <2>1, <2>3, Inserting, Constants
  <2>6. ASSUME Usual(seen)
        PROVE  /\ \A t \in Sides : Routed(t)' \subseteq Routed(t)
               /\ \A t \in Sides : InUse(t)' \subseteq InUse(t)
               /\ IsServer /\ pc'["proxy"] \in {"insert", "await"} => Fresh("proxy", cur'["proxy"])
               /\ pc'["proxy"] = "await" => cur'["proxy"] \in Registered(table'["proxy"])
    <3>1. InUse("net")' \subseteq InUse("net")
      BY <1>1, <2>2, <2>3, <2>5 DEF InUse
    <3>2. InUse("proxy")' \subseteq InUse("proxy")
      BY <1>1, <2>4, <2>5, Constants DEF InUse, IsServer
    <3>3. \A t \in Sides : t = "net" \/ t = "proxy"
      BY Constants
    <3>4. \A t \in Sides : Routed(t)' \subseteq Routed(t)
      BY <1>1, <2>4, <3>1, <3>2, <3>3, Constants DEF Routed
    <3> QED BY <1>1, <2>4, <2>5, <2>6, <3>1, <3>2, <3>3, <3>4, Constants DEF Pairs, Newcomers
  <2> QED BY <1>1, <2>1, <2>3, <2>4, <2>6, InsertPairs
<1> QED BY <1>2, <1>3

\* The client connects to its service, if there is a tunnel.
LEMMA ConnectPairs ==
  ASSUME IInv, IInv', Pairs, Connect, UNCHANGED listener
  PROVE  Pairs'
<1>1. /\ pc["proxy"] = "dispatch" /\ ~IsServer /\ "proxy" \in Sides
      /\ UNCHANGED <<sent, taken, got, backlog, table, rev, slot, buffer, removed,
                     inserted>>
  BY Constants DEF Connect
<1>2. CASE /\ tunnels = <<>> /\ Goto("proxy", "scan")
           /\ UNCHANGED <<sock, peer, cur, req, partner, queues, seen>>
  BY <1>1, <1>2, NothingNewPairs
<1>3. CASE tunnels # <<>> /\ tunnels' = Tail(tunnels) /\
           \E f \in Fds : LET c == sock[Head(tunnels)][2] IN
                /\ OpenOn(f, <<"proxy", c>>, {})
                /\ peer' = [peer EXCEPT ![<<"proxy", c>>] = "open"]
                /\ Couple(f, Head(tunnels))
                /\ cur' = [cur EXCEPT !["proxy"] = f]
                /\ req' = c
                /\ Goto("proxy", "insert")
  BY <1>1, <1>3, ConnectServicePairs
<1>4. CASE tunnels # <<>> /\ tunnels' = Tail(tunnels) /\
           \E f \in Fds :
                /\ OpenOn(f, Misc, {"absent"})
                /\ Goto("proxy", "scan")
                /\ UNCHANGED <<peer, cur, req, partner, actualfds>>
  BY <1>1, <1>4, ConnectFailsPairs
<1> QED BY <1>2, <1>3, <1>4 DEF Connect

\* The tunnel is there: it is coupled with the user's descriptor.
LEMMA TunnelPairs ==
  ASSUME IInv, IInv', Pairs, TakePromise, UNCHANGED listener, Head(tunnels) # NoFd,
         Couple(cur["proxy"], Head(tunnels)), UNCHANGED <<peer, seen>>
  PROVE  Pairs'
<1> PICK f, g : f = cur["proxy"] /\ g = Head(tunnels)
  OBVIOUS
<1>1. /\ IsServer /\ pc["proxy"] = "await" /\ tunnels # <<>> /\ tunnels' = Tail(tunnels)
      /\ pc' = [pc EXCEPT !["proxy"] = "scan"]
      /\ cur' = [cur EXCEPT !["proxy"] = NoFd]
      /\ UNCHANGED <<listener, sock, table, buffer, removed>>
      /\ actualfds' = Append(actualfds, g)
  BY DEF TakePromise, Goto, Couple
<1>2. /\ g = tunnels[1] /\ 1 \in DOMAIN tunnels
      /\ \A i \in DOMAIN tunnels' : i + 1 \in DOMAIN tunnels /\ i + 1 # 1 /\ tunnels'[i] = tunnels[i + 1]
  BY <1>1, PairFacts, TailOf
<1>3. /\ g \in Fds /\ f \in Fds /\ req \in Conns /\ sock[g] = <<"net", req>>
      /\ g # NoFd /\ "proxy" \in Sides /\ "net" \in Sides
  <2>1. g \in Fds /\ g # NoFd /\ f \in Fds
    BY <1>1, <1>2, PairFacts, Constants
  <2>2. req \in Conns
    BY <1>1 DEF IInv, InHand, Types
  <2>3. sock[g] = <<"net", req>>
    BY <1>1, <1>2, <2>1 DEF IInv, Births, ServerBirths
  <2> QED BY <2>1, <2>2, <2>3, Constants
<1>4. /\ <<"proxy", req>> \in Ends /\ <<"net", req>> \in Ends
      /\ Opposite(<<"proxy", req>>) = <<"net", req>>
      /\ <<"net", req>> \in {"net"} \X Conns
  BY <1>3, EndOf, Constants DEF Other
<1>5. /\ pc'["proxy"] = "scan" /\ pc'["net"] = pc["net"] /\ cur'["net"] = cur["net"]
  BY <1>1, PairFacts, Constants
<1>6. Coupled(f, g)
  BY <1>1, <1>5 DEF Coupled
<1>7. \A i \in DOMAIN actualfds' :
         actualfds'[i] = g \/ \E j \in DOMAIN actualfds : actualfds'[i] = actualfds[j]
  BY <1>1, AppendParts, PairFacts
<1> SUFFICES ASSUME Usual(seen)
             PROVE
            /\ Routed("proxy")' \subseteq Routed("proxy") \cup {f} /\ f \notin Routed("proxy")
            /\ InUse("proxy")' \subseteq InUse("proxy") \cup {f}
            /\ InUse("net")' \subseteq InUse("net") \cup {g} /\ g \notin InUse("net")
            /\ f \notin Doomed("proxy") /\ g \notin Doomed("net")
            /\ sock[f] \in Ends /\ sock[g] = Opposite(sock[f])
            /\ \A i \in DOMAIN tunnels' :
                  /\ tunnels'[i] # g
                  /\ \E j \in DOMAIN tunnels : tunnels'[i] = tunnels[j]
            /\ AtRead("net") => cur["net"] # g
  BY <1>1, <1>3, <1>6, CouplePairs
<1>8. "stale" \notin seen
  BY DEF Usual
<1>9. f \in Registered(table["proxy"]) /\ f \notin Doomed("proxy") /\ g \notin Doomed("net")
  BY <1>1, <1>2, <1>3 DEF Pairs, Newcomers, Fresh
<1>10. sock[f] = <<"proxy", req>>
  <2>1. sock[f] # Closed
    BY <1>3, <1>9, Facts, EndsOfSide, Constants
  <2> QED BY <2>1, <1>1, <1>8 DEF IInv, Births, ServerBirths
<1>11. /\ InUse("proxy")' \subseteq InUse("proxy")
       /\ InUse("net")' \subseteq InUse("net") \cup {g}
  BY <1>1, <1>5, <1>7 DEF InUse
<1>12. Routed("proxy")' \subseteq Routed("proxy") \cup {f} /\ f \notin Routed("proxy")
  BY <1>1, <1>5, <1>11 DEF Routed
<1>13. g \notin InUse("net")
  BY <1>2, <1>3 DEF IInv, Pending0, InUse
<1>14. \A i \in DOMAIN tunnels' : tunnels'[i] # g /\ \E j \in DOMAIN tunnels : tunnels'[i] = tunnels[j]
  BY <1>2, <1>3 DEF IInv, Pending0
<1>15. AtRead("net") => cur["net"] # g
  <2> SUFFICES ASSUME AtRead("net"), cur["net"] = g PROVE FALSE
    OBVIOUS
  <2>1. g \in Registered(table["net"])
    BY <1>3, <1>4, <1>8, OwnSocket DEF AtRead
  <2> QED BY <2>1, <1>3, <1>13, PairFacts
<1> QED BY <1>3, <1>4, <1>9, <1>10, <1>11, <1>12, <1>13, <1>14, <1>15

\* There is no tunnel: the user stays, with nobody to close.
LEMMA NoTunnelPairs ==
  ASSUME IInv, IInv', Pairs, TakePromise, UNCHANGED <<listener, partner, actualfds>>,
         Usual(seen') => partner["proxy"][cur["proxy"]] = 0, seen \subseteq seen'
  PROVE  Pairs'
<1> PICK f : f = cur["proxy"]
  OBVIOUS
<1>1. /\ IsServer /\ pc["proxy"] = "await" /\ tunnels # <<>> /\ tunnels' = Tail(tunnels)
      /\ pc' = [pc EXCEPT !["proxy"] = "scan"]
      /\ cur' = [cur EXCEPT !["proxy"] = NoFd]
      /\ UNCHANGED <<listener, sock, table, buffer, removed>>
  BY DEF TakePromise, Goto
<1>2. /\ pc'["proxy"] = "scan" /\ pc'["net"] = pc["net"] /\ cur'["net"] = cur["net"]
  BY <1>1, PairFacts, Constants
<1>3. \A t \in Sides : /\ (pc'[t] = "lost" <=> pc[t] = "lost")
                       /\ (AtRead(t)' <=> AtRead(t))
                       /\ (pc'[t] \in {"read", "blocked", "lost", "write"} =>
                              pc'[t] = pc[t] /\ cur'[t] = cur[t])
  BY <1>1, <1>2, Constants DEF AtRead
<1>4. Grip'
  BY <1>1, <1>3 DEF Pairs, Grip
<1> SUFFICES ASSUME Usual(seen') PROVE Paired' /\ Orphans' /\ Newcomers' /\ Behind'
  BY <1>4 DEF Pairs
<1>5. /\ Usual(seen) /\ Paired /\ Orphans /\ Newcomers /\ Behind
      /\ partner["proxy"][f] = 0
  BY DEF Pairs, Usual
<1>6. tunnels' = <<>>
  <2>1. tunnels \in Seq(Fds \cup {NoFd}) /\ Len(tunnels) <= 1
    BY <1>1, PairFacts DEF IInv, Births, ServerBirths
  <2>2. tunnels' \in Seq(Fds \cup {NoFd}) /\ Len(tunnels') = Len(tunnels) - 1 /\ Len(tunnels') \in Nat
    BY <2>1, <1>1
  <2>3. Len(tunnels') = 0
    BY <2>1, <2>2
  <2> QED BY <2>2, <2>3, EmptySeq
<1>7. /\ \A t \in Sides : Other(t)' = Other(t) /\ Other(t) \in Sides
      /\ "net" \in Sides /\ "proxy" \in Sides
  BY PairFacts, Constants DEF Other
<1>8. /\ \A t \in Sides : Doomed(t)' = Doomed(t) /\ InUse(t)' = InUse(t)
      /\ Routed("net")' = Routed("net") /\ Routed("proxy")' \subseteq Routed("proxy") \cup {f}
  <2>1. \A t \in Sides : Doomed(t)' = Doomed(t)
    BY <1>1, <1>3, <1>7 DEF Doomed
  <2>2. \A t \in Sides : InUse(t)' = InUse(t)
    BY <1>1, <1>2, Constants DEF InUse
  <2> QED BY <2>1, <2>2, <1>1, <1>2, <1>7 DEF Routed
<1>9. Paired'
  <2> SUFFICES ASSUME NEW t \in Sides, NEW h \in Routed(t)'
               PROVE  \/ partner[t][h] = 0
                      \/ sock[h] \in Ends /\ sock[partner[t][h]] = Opposite(sock[h])
                      \/ Waits(t, h)'
    BY <1>1 DEF Paired, Opposite, Other
  <2>1. Waits(t, h) => Waits(t, h)'
    BY <1>1, <1>3, <1>7 DEF Waits
  <2>2. CASE h \in Routed(t)
    BY <2>1, <2>2, <1>5 DEF Paired
  <2>3. CASE t = "proxy" /\ h = f
    BY <2>3, <1>5
  <2> QED BY <2>2, <2>3, <1>8, Constants
<1>10. Orphans'
  BY <1>1, <1>5, <1>8 DEF Orphans, IsOpen, Opposite, Other
<1>11. Newcomers'
  BY <1>2, <1>6 DEF Newcomers
<1>12. Behind'
  BY <1>1, <1>3, <1>5 DEF Behind, AtRead
<1> QED BY <1>9, <1>10, <1>11, <1>12

\* onConnect after its promise.
LEMMA TakePromisePairs ==
  ASSUME IInv, IInv', Pairs, TakePromise, UNCHANGED listener
  PROVE  Pairs'
<1>1. \/ /\ Head(tunnels) # NoFd /\ Couple(cur["proxy"], Head(tunnels))
         /\ UNCHANGED <<peer, seen>>
      \/ /\ UNCHANGED <<partner, actualfds>> /\ Head(tunnels) = NoFd
         /\ seen' = IF cur["proxy"] \in {f \in Fds : partner["proxy"][f] # 0}
                    THEN seen \cup {"stale"} ELSE seen
  BY DEF TakePromise
<1>2. CASE Head(tunnels) # NoFd /\ Couple(cur["proxy"], Head(tunnels)) /\ UNCHANGED <<peer, seen>>
  BY <1>2, TunnelPairs
<1>3. CASE /\ UNCHANGED <<partner, actualfds>>
           /\ seen' = IF cur["proxy"] \in {f \in Fds : partner["proxy"][f] # 0}
                      THEN seen \cup {"stale"} ELSE seen
  <2>1. cur["proxy"] \in Fds
    BY PairFacts, Constants DEF TakePromise
  <2>2. seen \subseteq seen' /\ (Usual(seen') => partner["proxy"][cur["proxy"]] = 0)
    BY <1>3, <2>1 DEF Usual
  <2> QED BY <1>3, <2>2, NoTunnelPairs
<1> QED BY <1>1, <1>2, <1>3

\* Nothing that the pairs are about is changed.
LEMMA SamePairs ==
  ASSUME Pairs, UNCHANGED <<listener, sock, table, pc, cur, tunnels, actualfds, partner,
                            buffer, removed, seen>>
  PROVE  Pairs'
<1>1. \A s : InUse(s)' = InUse(s)
  BY DEF InUse, IsServer
<1>2. \A s : Routed(s)' = Routed(s)
  BY <1>1 DEF Routed
<1>3. \A s : /\ Doomed(s)' = Doomed(s) /\ Reach(s)' = Reach(s) /\ Other(s)' = Other(s)
             /\ (AtRead(s)' <=> AtRead(s))
  BY <1>2 DEF Doomed, Reach, AtRead, Other
<1>4. Grip'
  BY DEF Pairs, Grip
<1> SUFFICES ASSUME Paired, Orphans, Newcomers, Behind
             PROVE  Paired' /\ Orphans' /\ Newcomers' /\ Behind'
  BY <1>4 DEF Pairs
<1>5. Paired'
  BY <1>2 DEF Paired, Waits, Opposite, Other
<1>6. Orphans'
  BY <1>1, <1>3 DEF Orphans, IsOpen, Opposite, Other
<1>7. Newcomers'
  <2>1. \A s, f : Fresh(s, f) => f \notin Doomed(s)' \cup Reach(Other(s))'
    BY <1>3 DEF Fresh
  <2> QED BY <2>1, <1>3 DEF Newcomers, Fresh, IsServer
<1>8. Behind'
  BY <1>3 DEF Behind
<1> QED BY <1>5, <1>6, <1>7, <1>8

\* The steps of the threads.
LEMMA ThreadPairs ==
  ASSUME IInv, IInv', Pairs, NEW s \in Sides, Thread(s)
  PROVE  Pairs'
<1>0. UNCHANGED listener
  BY DEF Thread
<1>1. CASE Poll(s) \/ Scan(s) \/ ReadBlocks(s) \/ NothingToWrite(s) \/ (s = "net" /\ IgnoreEof)
  BY <1>0, <1>1, IdlePairs
<1>2. CASE TakeTunnel
  BY <1>0, <1>2, TakeTunnelPairs
<1>3. CASE Accept
  BY <1>0, <1>3, AcceptPairs
<1>4. CASE InsertProxy
  BY <1>0, <1>4, InsertProxyPairs
<1>5. CASE TakePromise
  BY <1>0, <1>5, TakePromisePairs
<1>6. CASE Connect
  BY <1>0, <1>6, ConnectPairs
<1>7. CASE ReadData(s)
  BY <1>0, <1>7, ReadDataPairs
<1>8. CASE Lose(s)
  BY <1>0, <1>8, LosePairs
<1>9. CASE LosePartner(s)
  BY <1>0, <1>9, LosePartnerPairs
<1>10. CASE WriteFails(s)
  BY <1>0, <1>10, WriteFailsPairs
<1>11. ASSUME NEW n \in 1 .. MaxWrite, Write(s, n)
       PROVE  Pairs'
  BY <1>0, <1>11, WritePairs
<1> QED
  BY <1>1, <1>2, <1>3, <1>4, <1>5, <1>6, <1>7, <1>8, <1>9, <1>10, <1>11 DEF Thread

\* Every step keeps the pairs.
LEMMA NextPairs == IInv /\ IInv' /\ Pairs /\ [Next]_vars => Pairs'
<1> SUFFICES ASSUME IInv, IInv', Pairs, [Next]_vars
             PROVE  Pairs'
  OBVIOUS
<1>1. CASE Environment
  <2>1. CASE Promise
    BY <2>1, PromisePairs
  <2>2. ASSUME NEW c \in Conns, Offer(c), UNCHANGED listener
        PROVE  Pairs'
    BY <2>2, OfferPairs
  <2>3. ASSUME NEW c \in Conns, Arrive(c), UNCHANGED listener
        PROVE  Pairs'
    BY <2>3, SamePairs DEF Arrive, loops, maps, queues
  <2>4. ASSUME NEW e \in Ends, PeerSend(e) \/ PeerEnd(e), UNCHANGED listener
        PROVE  Pairs'
    BY <2>4, SamePairs DEF PeerSend, PeerEnd, loops, maps, queues
  <2> QED BY <1>1, <2>1, <2>2, <2>3, <2>4 DEF Environment
<1>2. ASSUME NEW s \in Sides, Thread(s)
      PROVE  Pairs'
  BY <1>2, ThreadPairs
<1>3. CASE UNCHANGED vars
  BY <1>3, SamePairs DEF vars, kernel, loops, maps, queues
<1> QED BY <1>1, <1>2, <1>3 DEF Next

\* A descriptor in a table whose other half was closed is to be closed when its
\* buffer is drained, and has something in it (whether it ever drains is up to
\* its peer): removing a descriptor on one side after a failed read
\* removes its partner on the other, now or when the last chunk is written -
\* as long as everything is as usual, see PairsCloseTogether.
THEOREM BothHalvesClose == Spec => []PairsCloseTogether
<1>1. Init => Pairs
  BY InitPairs
<1>2. IInv /\ Pairs => PairsCloseTogether
  BY PairsMeans
<1> QED BY Invariance, <1>1, <1>2, NextPairs, PTL DEF Spec
-----------------------------------------------------------------------------
(* Each connection is a pipe: every step is one of DuplexPipe.             *)

\* End e was read to its end, and its peer sends nothing more.
Ended(e) == Pending(e) = 0 /\ peer[e] \in {"fin", "rst", "dead"}

\* What is closed next, or when its buffer is written, has everything that the
\* other half ever sent, or has it in its buffer.
Dry == \A s \in Sides : \A f \in Doomed(s) :
          sock[f] \in {s} \X Conns => Ended(Opposite(sock[f]))

\* The two mapped variables that are not variables here.
OpenEnds == {e \in Ends : IsOpen(e)}
Present == {e \in Ends : peer[e] = "open"}

\* What each step has to show.
Pumps == Pipe!Next /\ (Usual(seen') => Dry')

\* The properties' side conditions only grow.
LEMMA UsualGrows ==
  ASSUME seen \subseteq seen'
  PROVE  /\ Usual(seen') => Usual(seen) /\ "stale" \notin seen'
         /\ "stale" \in seen => "stale" \in seen'
  BY DEF Usual

\* A step of the pipe, in terms of the relay.
LEMMA PipeNext ==
  ASSUME seen \subseteq seen',
         Usual(seen') => \A e \in OpenEnds \ OpenEnds' :
                            e \in Present => Len(got'[e]) = sent[Opposite(e)],
         "stale" \notin seen' =>
            \/ \E e \in Ends : \/ Pipe!Arrive(e) \/ Pipe!Open(e) \/ Pipe!Send(e)
                               \/ Pipe!Deliver(e) \/ Pipe!Close(e)
            \/ \E E \in SUBSET Ends : Pipe!Leave(E)
  PROVE  Pipe!Next
<1>1. Pipe!Ends = Ends /\ \A e : Pipe!Opposite(e) = Opposite(e)
  BY DEF Pipe!Ends, Ends, Pipe!Opposite, Opposite
<1>2. Usual(seen') => Pipe!ClosesLast
  BY <1>1 DEF Pipe!ClosesLast, OpenEnds, Present
<1> QED BY <1>1, <1>2, UsualGrows DEF Pipe!Next

\* Nothing that the two peers see is changed.
LEMMA PipeRests ==
  ASSUME UNCHANGED <<sock, peer, sent, got>>, seen \subseteq seen'
  PROVE  Pipe!Next
<1>1. OpenEnds' = OpenEnds /\ Present' = Present
  BY DEF OpenEnds, Present, IsOpen
<1>2. Pipe!Leave({})
  BY <1>1 DEF Pipe!Leave, OpenEnds, Present
<1> QED BY <1>1, <1>2, PipeNext

\* A descriptor of the other end of e's connection is to be closed.
Heeded(e) == \E t \in Sides : \E f \in Doomed(t) :
                sock[f] \in {t} \X Conns /\ Opposite(sock[f]) = e

\* Peers that have ended stay ended, where it matters.
EndsStay == Usual(seen') =>
               \A e \in Ends : Ended(e) /\ Heeded(e) => Ended(e)'

LEMMA EndedStays ==
  ASSUME UNCHANGED <<peer, sent, taken>>
  PROVE  EndsStay
  BY DEF EndsStay, Ended, Pending

\* Nothing is newly doomed, and what is doomed keeps its socket or is closed.
LEMMA DryStays ==
  ASSUME IInv, Usual(seen) => Dry, seen \subseteq seen',
         Usual(seen') => \A t \in Sides : \A f \in Doomed(t)' :
                            f \in Doomed(t) /\ sock'[f] \in {sock[f], Closed},
         EndsStay
  PROVE  Usual(seen') => Dry'
<1> SUFFICES ASSUME Usual(seen'), NEW t \in Sides, NEW f \in Doomed(t)',
                    sock'[f] \in {t} \X Conns
             PROVE  Ended(Opposite(sock[f]))'
  BY DEF Dry
<1>1. f \in Doomed(t) /\ sock'[f] = sock[f] /\ sock[f] \in {t} \X Conns
  BY EndsOfSide
<1>2. Ended(Opposite(sock[f]))
  BY <1>1, UsualGrows DEF Dry
<1>3. Opposite(sock[f]) \in Ends /\ Opposite(sock'[f]) = Opposite(sock[f])
  BY <1>1, EndsOfSide, Opposites
<1>4. Opposite(sock[f])' = Opposite(sock[f])
  BY <1>1 DEF Opposite, Other
<1>5. Heeded(Opposite(sock[f]))
  BY <1>1 DEF Heeded
<1>6. ASSUME NEW e \in Ends, Ended(e), Heeded(e) PROVE Ended(e)'
  BY <1>6 DEF EndsStay
<1>7. \A e \in Ends : e = Opposite(sock[f]) => (Ended(e)' => Ended(Opposite(sock[f]))')
  BY <1>4 DEF Ended, Pending
<1> QED BY <1>2, <1>3, <1>5, <1>6, <1>7

\* No read fails in this step.
Calmly == \A t \in Sides : pc'[t] = "lost" => pc[t] = "lost" /\ cur'[t] = cur[t]

LEMMA DoomedStays ==
  ASSUME IInv, UNCHANGED removed, Calmly
  PROVE  \A t \in Sides : Doomed(t)' \subseteq Doomed(t)
<1> SUFFICES ASSUME NEW t \in Sides PROVE Doomed(t)' \subseteq Doomed(t)
  OBVIOUS
<1>1. Other(t) \in Sides /\ Other(t)' = Other(t)
  BY Constants DEF Other
<1> QED BY <1>1 DEF Doomed, Calmly

\* A step that the peers do not see, and in which no read fails.
LEMMA QuietPipe ==
  ASSUME IInv, Usual(seen) => Dry, UNCHANGED <<sock, peer, sent, got, seen, removed>>,
         Calmly, EndsStay
  PROVE  Pumps
<1>1. Pipe!Next
  BY PipeRests
<1>2. Usual(seen') => Dry'
  BY DoomedStays, DryStays
<1> QED BY <1>1, <1>2 DEF Pumps

\* A number is given out.
LEMMA OpenPipe ==
  ASSUME IInv, Usual(seen) => Dry, NEW f \in Fds, NEW e \in Ends \cup {Misc},
         NEW marks \in SUBSET Marks, OpenOn(f, e, marks),
         UNCHANGED removed, Calmly, EndsStay
  PROVE  /\ seen \subseteq seen' /\ (Usual(seen') => Dry')
         /\ OpenEnds' = OpenEnds \cup ({e} \cap Ends)
<1>1. /\ sock[f] = Closed /\ sock'[f] = e
      /\ \A g \in Fds : g # f => sock'[g] = sock[g]
      /\ seen \subseteq seen' /\ ("stale" \notin seen' => ~RefersTo(f))
  BY Opening
<1>2. \A t \in Sides : Doomed(t)' \subseteq Doomed(t) /\ Other(t) \in Sides
  BY DoomedStays, Constants
<1>3. ASSUME Usual(seen'), NEW t \in Sides, NEW g \in Doomed(t)'
      PROVE  g \in Doomed(t) /\ sock'[g] \in {sock[g], Closed}
  <2>1. g \in Doomed(t)
    BY <1>2
  <2>2. "stale" \notin seen'
    BY <1>3 DEF Usual
  <2>3. g # f
    BY <1>1, <1>2, <2>1, <2>2 DEF Doomed, RefersTo
  <2>4. g \in Fds
    BY <2>1, <1>2, PairFacts DEF Doomed
  <2> QED BY <1>1, <2>1, <2>3, <2>4
<1>4. Usual(seen') => Dry'
  BY <1>1, <1>3, DryStays
<1>5. ASSUME NEW x \in Ends PROVE IsOpen(x)' <=> IsOpen(x) \/ x = e
  <2>1. x # Closed
    BY Constants
  <2> QED BY <1>1, <2>1 DEF IsOpen
<1> QED BY <1>1, <1>4, <1>5 DEF OpenEnds

\* One descriptor, at most, is closed.
LEMMA ClosingOne ==
  ASSUME IInv, NEW v, CloseAll({v})
  PROVE  /\ \A x \in Fds : sock'[x] \in {sock[x], Closed}
         /\ \/ OpenEnds' = OpenEnds
            \/ /\ v \in Fds /\ sock[v] \in Ends
               /\ OpenEnds' = OpenEnds \ {sock[v]}
<1>0. sock \in [Fds -> Ends \cup {Closed, Misc}]
  BY DEF IInv, Types
<1>1. /\ sock' \in [Fds -> Ends \cup {Closed, Misc}]
      /\ \A x \in Fds : sock'[x] = IF x = v THEN Closed ELSE sock[x]
  BY <1>0 DEF CloseAll
<1>2. CASE v \in Fds /\ sock[v] \in Ends
  <2>1. ASSUME NEW e \in Ends PROVE IsOpen(e)' <=> IsOpen(e) /\ e # sock[v]
    <3>1. e # Closed
      BY Constants
    <3> QED BY <1>1, <1>2, <3>1, OneSocket DEF IsOpen
  <2> QED BY <1>1, <1>2, <2>1 DEF OpenEnds
<1>3. CASE ~(v \in Fds /\ sock[v] \in Ends)
  <2>1. ASSUME NEW e \in Ends PROVE IsOpen(e)' <=> IsOpen(e)
    <3>1. e # Closed
      BY Constants
    <3> QED BY <1>1, <1>3, <3>1 DEF IsOpen
  <2> QED BY <1>1, <2>1 DEF OpenEnds
<1> QED BY <1>1, <1>2, <1>3

\* A step that closes one descriptor, whose peer is gone or has everything.
LEMMA ClosePipe ==
  ASSUME IInv, NEW v, CloseAll({v}), UNCHANGED <<sent, got>>, Present' = Present,
         seen \subseteq seen',
         Usual(seen') /\ v \in Fds /\ sock[v] \in Ends /\ peer[sock[v]] = "open"
            => Len(got[sock[v]]) = sent[Opposite(sock[v])]
  PROVE  Pipe!Next
<1>1. CASE OpenEnds' = OpenEnds
  <2>1. Pipe!Leave({})
    BY <1>1 DEF Pipe!Leave, OpenEnds, Present
  <2> QED BY <1>1, <2>1, PipeNext
<1>2. CASE v \in Fds /\ sock[v] \in Ends /\ OpenEnds' = OpenEnds \ {sock[v]}
  <2>1. Pipe!Close(sock[v])
    BY <1>2 DEF Pipe!Close, OpenEnds, Present
  <2>2. Usual(seen') => \A e \in OpenEnds \ OpenEnds' :
                            e \in Present => Len(got'[e]) = sent[Opposite(e)]
    BY <1>2 DEF Present
  <2> QED BY <1>2, <2>1, <2>2, PipeNext
<1> QED BY <1>1, <1>2, ClosingOne

\* A thread goes on without a failed read.
LEMMA CalmStep ==
  ASSUME IInv, NEW s \in Sides, NEW p, p # "lost", Goto(s, p),
         NEW g, cur' = [cur EXCEPT ![s] = g]
  PROVE  Calmly
<1>1. pc' = [pc EXCEPT ![s] = p]
  BY DEF Goto
<1>2. \A t \in Sides : t # s => pc'[t] = pc[t] /\ cur'[t] = cur[t]
  BY <1>1, PairFacts
<1>3. pc'[s] = p
  BY <1>1, PairFacts
<1> QED BY <1>2, <1>3 DEF Calmly

LEMMA CalmLoop ==
  ASSUME IInv, NEW s \in Sides,
         Poll(s) \/ Scan(s) \/ ReadBlocks(s) \/ AfterRead(s) \/ AfterWrite(s)
  PROVE  Calmly
<1>0. \A t \in Sides : cur = [cur EXCEPT ![t] = cur[t]]
  BY PairFacts
<1>1. CASE Poll(s)
  <2>1. PICK p \in {"scan", "dispatch"} : Goto(s, p) /\ UNCHANGED cur
    BY <1>1 DEF Poll
  <2> QED BY <2>1, <1>0, CalmStep
<1>2. CASE Scan(s)
  <2>1. CASE \E i \in Slots \ {0} :
                /\ NextWanted(s, i)
                /\ slot' = [slot EXCEPT ![s] = i + 1]
                /\ cur' = [cur EXCEPT ![s] = table[s].fd[i]]
                /\ Goto(s, IF "in" \in rev[s][i] THEN "read" ELSE "write")
    <3>1. PICK p, g : p # "lost" /\ Goto(s, p) /\ cur' = [cur EXCEPT ![s] = g]
      BY <2>1
    <3> QED BY <3>1, CalmStep
  <2>2. CASE Goto(s, "poll") /\ UNCHANGED cur
    BY <2>2, <1>0, CalmStep
  <2> QED BY <1>2, <2>1, <2>2 DEF Scan
<1>3. CASE ReadBlocks(s)
  <2>1. Goto(s, "blocked") /\ UNCHANGED cur
    BY <1>3 DEF ReadBlocks
  <2> QED BY <2>1, <1>0, CalmStep
<1>4. CASE AfterRead(s)
  <2>1. PICK p, g : p # "lost" /\ Goto(s, p) /\ cur' = [cur EXCEPT ![s] = g]
    BY <1>4 DEF AfterRead
  <2> QED BY <2>1, CalmStep
<1>5. CASE AfterWrite(s)
  <2>1. Goto(s, "scan") /\ cur' = [cur EXCEPT ![s] = NoFd]
    BY <1>5 DEF AfterWrite
  <2> QED BY <2>1, CalmStep
<1> QED BY <1>1, <1>2, <1>3, <1>4, <1>5

\* poll, the scan, and reads and writes that reach no peer.
LEMMA IdlePipe ==
  ASSUME IInv, Usual(seen) => Dry, NEW s \in Sides,
         \/ Poll(s) \/ Scan(s) \/ ReadBlocks(s) \/ NothingToWrite(s)
         \/ s = "net" /\ IgnoreEof
  PROVE  Pumps
<1> USE DEF kernel, maps, queues
<1>1. UNCHANGED <<sock, peer, sent, taken, got, seen, removed>>
  BY DEF Poll, Scan, ReadBlocks, NothingToWrite, IgnoreEof
<1>2. Calmly
  <2>1. \/ Poll(s) \/ Scan(s) \/ ReadBlocks(s) \/ AfterRead(s) \/ AfterWrite(s)
    BY DEF NothingToWrite, IgnoreEof
  <2> QED BY <2>1, CalmLoop
<1> QED BY <1>1, <1>2, EndedStays, QuietPipe

\* A read of data is of an end with data.
LEMMA ReadDataPipe ==
  ASSUME IInv, Usual(seen) => Dry, NEW s \in Sides, ReadData(s)
  PROVE  Pumps
<1> PICK e, n : /\ e = sock[cur[s]]
                /\ n = IF Pending(e) < MaxLine THEN Pending(e) ELSE MaxLine
  OBVIOUS
<1>1. /\ UNCHANGED <<sock, peer, sent, got, seen, removed>> /\ AfterRead(s)
      /\ Pending(e) > 0 /\ taken' = [taken EXCEPT ![e] = @ + n]
  BY DEF ReadData
<1>2. taken \in [Ends -> Nat] /\ sent \in [Ends -> Nat]
  BY DEF IInv, Types
<1>3. ASSUME NEW x \in Ends, Ended(x) PROVE Ended(x)'
  <2>1. x # e
    BY <1>1, <1>3 DEF Ended
  <2> QED BY <2>1, <1>1, <1>2, <1>3 DEF Ended, Pending
<1> QED BY <1>1, <1>3, CalmLoop, QuietPipe DEF EndsStay

-----------------------------------------------------------------------------
(* The environment. *)

\* No step of the environment moves a thread.
LEMMA CalmOutside ==
  ASSUME UNCHANGED <<pc, cur>>
  PROVE  Calmly
  BY DEF Calmly

\* A user connects: its end is there, but not open yet.
LEMMA ArrivePipe ==
  ASSUME IInv, Usual(seen) => Dry, NEW c \in Conns, Arrive(c)
  PROVE  Pumps
<1> USE DEF loops, maps, queues
<1>1. /\ peer' = [peer EXCEPT ![<<"proxy", c>>] = "open"]
      /\ peer[<<"proxy", c>>] = "none"
      /\ UNCHANGED <<sock, sent, taken, got, seen, removed, pc, cur>>
  BY DEF Arrive
<1>2. <<"proxy", c>> \in Ends /\ peer \in [Ends -> {"none", "open", "fin", "rst", "dead"}]
  BY EndOf, Constants DEF IInv, Types
<1>3. OpenEnds' = OpenEnds /\ Present' = Present \cup {<<"proxy", c>>}
  BY <1>1, <1>2 DEF OpenEnds, Present, IsOpen
<1>4. Pipe!Arrive(<<"proxy", c>>)
  BY <1>1, <1>3 DEF Pipe!Arrive, OpenEnds, Present
<1>5. \A x \in Ends : Ended(x) => Ended(x)'
  BY <1>1, <1>2 DEF Ended, Pending
<1>6. Pipe!Next
  BY <1>1, <1>2, <1>3, <1>4, PipeNext
<1>7. \A t \in Sides : Doomed(t)' \subseteq Doomed(t)
  BY <1>1, CalmOutside, DoomedStays
<1>8. Usual(seen') => Dry'
  BY <1>1, <1>5, <1>7, DryStays DEF EndsStay
<1> QED BY <1>6, <1>8 DEF Pumps

\* A tunnel or a service: the end is there, and open.
LEMMA BirthPipe ==
  ASSUME IInv, Usual(seen) => Dry, NEW f \in Fds, NEW e \in Ends,
         OpenOn(f, e, {}), peer[e] = "none" \/ (Usual(seen') => ~Heeded(e)),
         peer' = [peer EXCEPT ![e] = "open"],
         UNCHANGED <<sent, taken, got, removed>>, Calmly
  PROVE  Pumps
<1>1. peer \in [Ends -> {"none", "open", "fin", "rst", "dead"}]
  BY DEF IInv, Types
<1>2. EndsStay
  BY <1>1 DEF EndsStay, Ended, Pending
<1>3. /\ seen \subseteq seen' /\ (Usual(seen') => Dry')
      /\ OpenEnds' = OpenEnds \cup {e}
  <2>1. {} \in SUBSET Marks /\ {e} \cap Ends = {e}
    OBVIOUS
  <2> QED BY <1>2, <2>1, OpenPipe
<1>4. Present' = Present \cup {e}
  BY <1>1 DEF Present
<1>5. Pipe!Arrive(e)
  BY <1>3, <1>4 DEF Pipe!Arrive, OpenEnds, Present
<1>6. Pipe!Next
  BY <1>3, <1>5, PipeNext
<1> QED BY <1>3, <1>6 DEF Pumps

LEMMA OfferPipe ==
  ASSUME IInv, Usual(seen) => Dry, NEW c \in Conns, Offer(c)
  PROVE  Pumps
<1> USE DEF loops, maps
<1>1. PICK f \in Fds : OpenOn(f, <<"net", c>>, {})
  BY DEF Offer
<1>2. <<"net", c>> \in Ends
  BY EndOf, Constants
<1>3. Calmly
  BY CalmOutside DEF Offer
<1> QED BY <1>1, <1>2, <1>3, BirthPipe DEF Offer

LEMMA PromisePipe ==
  ASSUME IInv, Pairs, Usual(seen) => Dry, Promise
  PROVE  Pumps
<1> USE DEF loops, maps
<1>1. Calmly /\ UNCHANGED <<sent, taken, got, removed>>
  BY CalmOutside DEF Promise
<1>2. req \in Conns /\ <<"net", req>> \in Ends
  <2>1. req \in Conns
    BY DEF Promise, IInv, InHand, Types
  <2> QED BY <2>1, EndOf, Constants
<1>3. CASE /\ \E f \in Fds : /\ OpenOn(f, <<"net", req>>, {})
                             /\ tunnels' = <<f>>
           /\ peer' = [peer EXCEPT ![<<"net", req>>] = "open"]
  <2>1. PICK f \in Fds : OpenOn(f, <<"net", req>>, {})
    BY <1>3
  <2>2. ASSUME Usual(seen'), Heeded(<<"net", req>>) PROVE FALSE
    <3>1. PICK t \in Sides : \E x \in Doomed(t) :
             sock[x] \in {t} \X Conns /\ Opposite(sock[x]) = <<"net", req>>
      BY <2>2 DEF Heeded
    <3>2. PICK g \in Doomed(t) :
             sock[g] \in {t} \X Conns /\ Opposite(sock[g]) = <<"net", req>>
      BY <3>1
    <3>3. sock[g] = <<"proxy", req>> /\ t = "proxy" /\ g \in Fds
      <4>1. sock[g] = Opposite(<<"net", req>>)
        BY <3>2, EndsOfSide, Opposites
      <4>2. Opposite(<<"net", req>>) = <<"proxy", req>>
        BY DEF Opposite, Other
      <4> QED BY <4>1, <4>2, <3>2, PairFacts DEF Doomed
    <3>4. Usual(seen) /\ "stale" \notin seen
      BY <2>1, <2>2 DEF OpenOn, Usual
    <3>5. g = cur["proxy"]
      BY <3>3, <3>4 DEF Promise, IInv, Births, ServerBirths
    <3> QED BY <3>2, <3>3, <3>4, <3>5 DEF Promise, Pairs, Newcomers, Fresh
  <2> QED BY <1>1, <1>2, <1>3, <2>1, <2>2, BirthPipe
<1>4. CASE seen' = seen \cup {"absent"} /\ UNCHANGED <<sock, peer>>
  <2>1. Pipe!Next
    BY <1>1, <1>4, PipeRests
  <2>2. Usual(seen') => Dry'
    BY <1>1, <1>4, EndedStays, DoomedStays, DryStays
  <2> QED BY <2>1, <2>2 DEF Pumps
<1> QED BY <1>3, <1>4 DEF Promise

LEMMA PeerSendPipe ==
  ASSUME IInv, Usual(seen) => Dry, NEW e \in Ends, PeerSend(e)
  PROVE  Pumps
<1> USE DEF loops, maps, queues
<1>1. /\ peer[e] = "open" /\ sent' = [sent EXCEPT ![e] = @ + 1]
      /\ UNCHANGED <<sock, peer, taken, got, seen, removed, pc, cur>>
  BY DEF PeerSend
<1>2. sent \in [Ends -> Nat]
  BY DEF IInv, Types
<1>3. OpenEnds' = OpenEnds /\ Present' = Present /\ e \in Present
  BY <1>1 DEF OpenEnds, Present, IsOpen
<1>4. Pipe!Send(e)
  BY <1>1, <1>3 DEF Pipe!Send, OpenEnds, Present
<1>5. Pipe!Next
  BY <1>1, <1>3, <1>4, PipeNext
<1>6. \A x \in Ends : Ended(x) => Ended(x)'
  BY <1>1, <1>2 DEF Ended, Pending
<1>7. Usual(seen') => Dry'
  BY <1>1, <1>6, CalmOutside, DoomedStays, DryStays DEF EndsStay
<1> QED BY <1>5, <1>7 DEF Pumps

\* Some peers leave, and nothing else happens that peers see.
LEMMA LeavePipe ==
  ASSUME UNCHANGED <<sock, sent, got>>, seen \subseteq seen', NEW E \in SUBSET Ends,
         Present' = Present \ E
  PROVE  Pipe!Next
<1>1. OpenEnds' = OpenEnds
  BY DEF OpenEnds, IsOpen
<1>2. Pipe!Leave(E)
  BY <1>1 DEF Pipe!Leave, OpenEnds, Present
<1> QED BY <1>1, <1>2, PipeNext

\* A write that fails: its peer was not there.
LEMMA WriteFailsPipe ==
  ASSUME IInv, Usual(seen) => Dry, NEW s \in Sides, WriteFails(s)
  PROVE  Pumps
<1> USE DEF kernel, maps, queues
<1>1. UNCHANGED <<sock, sent, taken, got, seen, removed>> /\ AfterWrite(s)
  BY DEF WriteFails
<1>2. \A e \in Ends : /\ peer'[e] = "open" <=> peer[e] = "open"
                      /\ peer[e] \in {"fin", "rst", "dead"}
                            => peer'[e] \in {"fin", "rst", "dead"}
  BY ReportedOnly DEF WriteFails
<1>3. Present' = Present \ {} /\ {} \in SUBSET Ends
  BY <1>2 DEF Present
<1>4. Pipe!Next
  BY <1>1, <1>3, LeavePipe
<1>5. EndsStay
  BY <1>1, <1>2 DEF EndsStay, Ended, Pending
<1>6. Usual(seen') => Dry'
  <2>1. Calmly
    BY <1>1, CalmLoop
  <2> QED BY <2>1, <1>1, <1>5, DoomedStays, DryStays
<1> QED BY <1>4, <1>6 DEF Pumps

LEMMA PeerEndPipe ==
  ASSUME IInv, Usual(seen) => Dry, NEW e \in Ends, PeerEnd(e)
  PROVE  Pumps
<1> USE DEF loops, maps, queues
<1>1. PICK how \in {"fin", "rst", "dead"} : peer' = [peer EXCEPT ![e] = how]
  BY DEF PeerEnd
<1>2. UNCHANGED <<sock, sent, taken, got, seen, removed, pc, cur>>
  BY DEF PeerEnd
<1>3. peer \in [Ends -> {"none", "open", "fin", "rst", "dead"}]
  BY DEF IInv, Types
<1>4. Present' = Present \ {e}
  BY <1>1, <1>3 DEF Present
<1>5. Pipe!Next
  BY <1>2, <1>4, LeavePipe
<1>6. \A x \in Ends : Ended(x) => Ended(x)'
  BY <1>1, <1>2, <1>3 DEF Ended, Pending
<1>7. Usual(seen') => Dry'
  BY <1>2, <1>6, CalmOutside, DoomedStays, DryStays DEF EndsStay
<1> QED BY <1>5, <1>7 DEF Pumps

-----------------------------------------------------------------------------
(* The threads. *)

\* The ends open and the peers present are the same, although numbers are given
\* out to something else.
LEMMA PipeSame ==
  ASSUME OpenEnds' = OpenEnds, Present' = Present, UNCHANGED <<sent, got>>,
         seen \subseteq seen'
  PROVE  Pipe!Next
<1>1. Pipe!Leave({})
  BY DEF Pipe!Leave, OpenEnds, Present
<1> QED BY <1>1, PipeNext

\* insert: with the table full the descriptor is closed, hastily.
LEMMA InsertPipe ==
  ASSUME IInv, Usual(seen) => Dry, NEW s \in Sides, NEW f \in Fds, InsertInto(s, f),
         UNCHANGED <<peer, sent, taken, got, removed>>, Calmly
  PROVE  Pumps
<1>1. CASE UNCHANGED <<sock, seen>>
  BY <1>1, EndedStays, QuietPipe
<1>2. CASE CloseAll({f}) /\ seen' = seen \cup {FullMark(s)}
  <2>1. ~Usual(seen')
    BY <1>2 DEF Usual, FullMark
  <2>2. Present' = Present
    BY DEF Present
  <2> QED BY <1>2, <2>1, <2>2, ClosePipe DEF Pumps
<1> QED BY <1>1, <1>2 DEF InsertInto

LEMMA TakeTunnelPipe ==
  ASSUME IInv, Usual(seen) => Dry, TakeTunnel
  PROVE  Pumps
<1> USE DEF maps
<1>1. /\ UNCHANGED <<peer, sent, taken, got, removed>> /\ Goto("net", "scan")
      /\ "net" \in Sides /\ cur' = [cur EXCEPT !["net"] = cur["net"]]
  BY PairFacts, Constants DEF TakeTunnel
<1>2. Calmly
  BY <1>1, CalmStep
<1>3. CASE actualfds = <<>>
  <2>1. UNCHANGED <<sock, seen>>
    BY <1>3 DEF TakeTunnel
  <2> QED BY <1>1, <1>2, <2>1, EndedStays, QuietPipe
<1>4. CASE actualfds # <<>>
  <2>1. Head(actualfds) \in Fds /\ InsertInto("net", Head(actualfds))
    BY <1>4, PairFacts DEF TakeTunnel
  <2> QED BY <1>1, <1>2, <2>1, InsertPipe
<1> QED BY <1>3, <1>4

LEMMA InsertProxyPipe ==
  ASSUME IInv, Usual(seen) => Dry, InsertProxy
  PROVE  Pumps
<1> USE DEF maps, queues
<1>1. /\ UNCHANGED <<peer, sent, taken, got, removed>> /\ "proxy" \in Sides
      /\ InsertInto("proxy", cur["proxy"]) /\ cur["proxy"] \in Fds
  BY PairFacts, Constants DEF InsertProxy
<1>2. Goto("proxy", IF IsServer THEN "await" ELSE "scan")
  BY DEF InsertProxy
<1>3. \E g : cur' = [cur EXCEPT !["proxy"] = g]
  <2>1. cur = [cur EXCEPT !["proxy"] = cur["proxy"]]
    BY PairFacts
  <2> QED BY <2>1 DEF InsertProxy
<1>4. Calmly
  <2>1. (IF IsServer THEN "await" ELSE "scan") # "lost"
    OBVIOUS
  <2> QED BY <1>1, <1>2, <1>3, <2>1, CalmStep
<1> QED BY <1>1, <1>4, InsertPipe

\* accept: the end is open.
LEMMA AcceptPipe ==
  ASSUME IInv, Usual(seen) => Dry, Accept
  PROVE  Pumps
<1> USE DEF maps, queues
<1>1. PICK c \in backlog, f \in Fds :
         OpenOn(f, <<"proxy", c>>, {}) /\ cur' = [cur EXCEPT !["proxy"] = f]
  BY DEF Accept
<1>2. <<"proxy", c>> \in Ends /\ "proxy" \in Sides
  BY EndOf, Constants DEF IInv, Types
<1>3. UNCHANGED <<peer, sent, taken, got, removed>> /\ Goto("proxy", "insert")
  BY DEF Accept
<1>4. Calmly
  BY <1>1, <1>2, <1>3, CalmStep
<1>5. /\ seen \subseteq seen' /\ (Usual(seen') => Dry')
      /\ OpenEnds' = OpenEnds \cup {<<"proxy", c>>}
  <2>1. {} \in SUBSET Marks /\ {<<"proxy", c>>} \cap Ends = {<<"proxy", c>>}
    BY <1>2
  <2> QED BY <1>1, <1>2, <1>3, <1>4, <2>1, EndedStays, OpenPipe
<1>6. Pipe!Open(<<"proxy", c>>)
  BY <1>3, <1>5 DEF Pipe!Open, OpenEnds
<1>7. Pipe!Next
  BY <1>2, <1>5, <1>6, PipeNext
<1> QED BY <1>5, <1>7 DEF Pumps

\* The promise: two descriptors are coupled, or what the maps have is shut down.
LEMMA TakePromisePipe ==
  ASSUME IInv, Usual(seen) => Dry, TakePromise
  PROVE  Pumps
<1>1. /\ UNCHANGED <<sock, sent, taken, got, removed>> /\ Goto("proxy", "scan")
      /\ cur' = [cur EXCEPT !["proxy"] = NoFd] /\ "proxy" \in Sides
  BY Constants DEF TakePromise
<1>2. Calmly
  BY <1>1, CalmStep
<1>3. CASE UNCHANGED <<peer, seen>>
  BY <1>1, <1>2, <1>3, EndedStays, QuietPipe
<1>4. ASSUME NEW shut,
             peer' = [e \in Ends |-> IF peer[e] # "rst" /\ \E f \in shut : sock[f] = e
                                     THEN "dead" ELSE peer[e]],
             seen' \in {seen, seen \cup {"stale"}}
      PROVE  Pumps
  <2> DEFINE E == {e \in Ends : \E f \in shut : sock[f] = e}
  <2>1. Present' = Present \ E /\ E \in SUBSET Ends
    BY <1>4 DEF Present
  <2>2. seen \subseteq seen'
    BY <1>4
  <2>3. Pipe!Next
    <3> HIDE DEF E
    <3> QED BY <1>1, <2>1, <2>2, LeavePipe
  <2>4. EndsStay
    BY <1>1, <1>4 DEF EndsStay, Ended, Pending
  <2>5. Usual(seen') => Dry'
    BY <1>1, <1>2, <2>2, <2>4, DoomedStays, DryStays
  <2> QED BY <2>3, <2>5 DEF Pumps
<1>5. CASE Head(tunnels) = NoFd /\ ~(UNCHANGED <<peer, seen>>)
  <2>1. \E shut : /\ peer' = [e \in Ends |->
                              IF peer[e] # "rst" /\ \E f \in shut : sock[f] = e
                              THEN "dead" ELSE peer[e]]
                  /\ seen' \in {seen, seen \cup {"stale"}}
    BY <1>5 DEF TakePromise
  <2> QED BY <1>4, <2>1
<1> QED BY <1>3, <1>5 DEF TakePromise

\* The client connects to its service, for a tunnel whose own end is new.
LEMMA ConnectPipe ==
  ASSUME IInv, Usual(seen) => Dry, Connect
  PROVE  Pumps
<1>1. /\ UNCHANGED <<sent, taken, got, removed>> /\ "proxy" \in Sides
      /\ \A t \in Sides : cur = [cur EXCEPT ![t] = cur[t]]
  BY PairFacts, Constants DEF Connect
<1>2. CASE tunnels = <<>> /\ Goto("proxy", "scan") /\ UNCHANGED <<sock, peer, cur, seen>>
  <2>1. Calmly
    BY <1>1, <1>2, CalmStep
  <2> QED BY <1>1, <1>2, <2>1, EndedStays, QuietPipe
<1>3. ASSUME tunnels # <<>>, NEW f \in Fds, NEW c, c = sock[Head(tunnels)][2],
             OpenOn(f, <<"proxy", c>>, {}),
             peer' = [peer EXCEPT ![<<"proxy", c>>] = "open"],
             cur' = [cur EXCEPT !["proxy"] = f], Goto("proxy", "insert")
      PROVE  Pumps
  <2>1. 1 \in DOMAIN tunnels /\ Head(tunnels) = tunnels[1]
    BY <1>3, PairFacts
  <2>2. ~IsServer
    BY DEF Connect
  <2>3. sock[tunnels[1]] \in {"net"} \X Conns
    BY <2>1, <2>2 DEF IInv, Births, ClientBirths, Pending0
  <2>4. c \in Conns /\ sock[tunnels[1]] = <<"net", c>>
    BY <1>3, <2>1, <2>3
  <2>5. peer[<<"proxy", c>>] = "none"
    BY <2>1, <2>2, <2>4 DEF IInv, Births, ClientBirths
  <2>6. <<"proxy", c>> \in Ends
    BY <2>4, EndOf, Constants
  <2>7. Calmly
    BY <1>1, <1>3, CalmStep
  <2> QED BY <1>1, <1>3, <2>5, <2>6, <2>7, BirthPipe
<1>4. ASSUME NEW f \in Fds, OpenOn(f, Misc, {"absent"}), Goto("proxy", "scan"),
             UNCHANGED <<peer, cur>>
      PROVE  Pumps
  <2>1. Calmly
    BY <1>1, <1>4, CalmStep
  <2>2. {"absent"} \in SUBSET Marks /\ {Misc} \cap Ends = {}
    BY Constants DEF Marks
  <2>3. /\ seen \subseteq seen' /\ (Usual(seen') => Dry')
        /\ OpenEnds' = OpenEnds
    BY <1>1, <1>4, <2>1, <2>2, EndedStays, OpenPipe
  <2>4. Present' = Present
    BY <1>4 DEF Present
  <2>5. Pipe!Next
    BY <1>1, <2>3, <2>4, PipeSame
  <2> QED BY <2>3, <2>5 DEF Pumps
<1> QED BY <1>2, <1>3, <1>4 DEF Connect

\* A failed read: its peer has left, so that closing the descriptor is right; and
\* the other half, which is doomed now, has no more to come.
LEMMA LosePipe ==
  ASSUME IInv, Pairs, Usual(seen) => Dry, NEW s \in Sides, Lose(s)
  PROVE  Pumps
<1> USE DEF maps
<1> PICK c, h, o : c = cur[s] /\ h = partner[s][c] /\ o = Other(s)
  OBVIOUS
<1>1. /\ pc[s] \in {"read", "blocked"} /\ AtRead(s) /\ c \in Fds /\ c # NoFd
      /\ ReadsError(s) \/ ReadsEof(s)
      /\ CloseAll({Victim(table[s], c)})
      /\ peer' = Reported(sock[c])
      /\ cur' = [cur EXCEPT ![s] = h] /\ pc' = [pc EXCEPT ![s] = "lost"]
      /\ UNCHANGED <<sent, taken, got, seen, removed>>
  <2>1. pc[s] \in {"read", "blocked"} /\ c \in Fds
    BY PairFacts DEF Lose, Reading
  <2> QED BY <2>1, Constants DEF Lose, Goto, AtRead
<1>2. h \in Fds /\ o \in Sides /\ o # s
  BY <1>1, PairFacts
<1>3. Present' = Present
  BY <1>1, ReportedOnly DEF Present
<1>4. sock[c] \in Ends => Ended(sock[c])
  BY <1>1 DEF ReadsError, ReadsEof, Drained, Ended
<1>5. ASSUME Usual(seen), NEW v \in Fds, v = Victim(table[s], c), sock[v] \in Ends,
             peer[sock[v]] = "open"
      PROVE  FALSE
  <2>1. v = c
    BY <1>1, <1>5, OwnVictim
  <2> QED BY <2>1, <1>4, <1>5 DEF Ended
<1>6. Pipe!Next
  <2> PICK v : v = Victim(table[s], c)
    OBVIOUS
  <2>1. Usual(seen') => ~(v \in Fds /\ sock[v] \in Ends /\ peer[sock[v]] = "open")
    BY <1>1, <1>5
  <2>2. CloseAll({v})
    BY <1>1
  <2> QED BY <1>1, <1>3, <2>1, <2>2, ClosePipe
<1>7. ASSUME NEW e \in Ends, Ended(e) PROVE Ended(e)'
  BY <1>1, <1>7, ReportedOnly DEF Ended, Pending
<1>8. \A x \in Fds : sock'[x] \in {sock[x], Closed}
  BY <1>1, ClosingOne
<1>9. ASSUME NEW t \in Sides, NEW f \in Doomed(t)'
      PROVE  f \in Doomed(t) \/ (t = o /\ f = h)
  <2>1. Other(t) \in Sides /\ Other(t)' = Other(t) /\ Other(s) = o /\ Other(o) = s
    BY <1>2, PairFacts DEF Other
  <2>2. t # o => Other(t) # s
    BY <2>1, PairFacts
  <2>3. /\ Other(t) # s => pc'[Other(t)] = pc[Other(t)] /\ cur'[Other(t)] = cur[Other(t)]
        /\ cur'[s] = h
    BY <1>1, <2>1, PairFacts
  <2> QED BY <1>1, <1>9, <2>1, <2>2, <2>3 DEF Doomed
<1>10. ASSUME Usual(seen), sock[h] \in {o} \X Conns
       PROVE  Ended(Opposite(sock[h]))
  <2>1. sock[h] \in Ends /\ "stale" \notin seen
    BY <1>2, <1>10, EndsOfSide DEF Usual
  <2>2. CASE c \in Registered(table[s])
    <3>1. c \in Routed(s) /\ sock[c] \in Ends
      BY <1>1, <1>10, <2>2, OwnVictim
    <3>2. sock[h] = Opposite(sock[c])
      BY <2>1, <3>1 DEF IInv, Routing
    <3> QED BY <3>1, <3>2, <1>4, Opposites
  <2>3. CASE c \notin Registered(table[s])
    BY <2>3, <1>1, <1>10, <2>1 DEF Pairs, Behind
  <2> QED BY <2>2, <2>3
<1>11. ASSUME Usual(seen), NEW t \in Sides, NEW f \in Doomed(t)', sock'[f] \in {t} \X Conns
       PROVE  Ended(Opposite(sock[f]))'
  <2>1. f \in Fds
    BY <1>2, <1>9, <1>11, PairFacts DEF Doomed
  <2>2. sock'[f] = sock[f] /\ sock[f] \in {t} \X Conns /\ Opposite(sock[f]) \in Ends
    BY <2>1, <1>8, <1>11, EndsOfSide, Opposites
  <2>3. Ended(Opposite(sock[f]))
    BY <1>9, <1>10, <1>11, <2>2 DEF Dry
  <2>4. Opposite(sock[f])' = Opposite(sock[f])
    BY <2>2 DEF Opposite, Other
  <2>5. PICK e \in Ends : e = Opposite(sock[f])
    BY <2>2
  <2>6. Ended(e)'
    BY <2>3, <2>5, <1>7
  <2> QED BY <2>4, <2>5, <2>6 DEF Ended, Pending
<1>12. Usual(seen') => Dry'
  BY <1>1, <1>11 DEF Dry
<1> QED BY <1>6, <1>12 DEF Pumps

\* The other half is closed when its buffer is empty: its peer has everything.
LEMMA LosePartnerPipe ==
  ASSUME IInv, Pairs, Usual(seen) => Dry, NEW s \in Sides, LosePartner(s)
  PROVE  Pumps
<1> USE DEF queues
<1> PICK c, o : c = cur[s] /\ o = Other(s)
  OBVIOUS
<1>1. /\ pc[s] = "lost" /\ c \in Fds /\ o \in Sides /\ o # s /\ Other(o) = s
      /\ UNCHANGED <<peer, sent, taken, got>> /\ seen \subseteq seen' /\ AfterRead(s)
  <2>1. seen \subseteq seen'
    BY DEF LosePartner
  <2> QED BY <2>1, PairFacts DEF LosePartner
<1>2. c \in Doomed(o) /\ Calmly
  BY <1>1, CalmLoop DEF Doomed
<1>3. Present' = Present
  BY <1>1 DEF Present
<1>4. CASE MayClose(o, c)
  <2>1. /\ CloseAll({Victim(table[o], c)}) /\ UNCHANGED removed
        /\ seen' = seen \cup {m \in {"early"} : c \notin Registered(table[o])}
        /\ buffer[o][c].chunks = <<>>
    BY <1>4 DEF LosePartner, MayClose
  <2>2. \A x \in Fds : sock'[x] \in {sock[x], Closed}
    BY <2>1, ClosingOne
  <2>3. ASSUME Usual(seen'), NEW v \in Fds, v = Victim(table[o], c), sock[v] \in Ends
        PROVE  Len(got[sock[v]]) = sent[Opposite(sock[v])]
    <3>1. Usual(seen) /\ "stale" \notin seen /\ c \in Registered(table[o])
      BY <1>1, <2>1, <2>3 DEF Usual
    <3>2. v = c
      BY <3>1, <2>3, <1>1, PairFacts, VacateOK
    <3>3. sock[c] \in {o} \X Conns
      BY <3>1, <3>2, <2>3, <1>1, Facts, Constants
    <3>4. Ended(Opposite(sock[c]))
      BY <3>1, <3>3, <1>1, <1>2 DEF Dry
    <3>5. sock[c][1] = o
      BY <3>3, <1>1, EndsOfSide
    <3>6. Len(got[sock[c]]) = taken[Opposite(sock[c])]
      BY <3>1, <3>2, <3>5, <2>1, <2>3, <1>1 DEF IInv, Streams, Continues
    <3>7. Opposite(sock[c]) \in Ends /\ taken \in [Ends -> Nat] /\ sent \in [Ends -> Nat]
      BY <3>2, <2>3, Opposites DEF IInv, Types
    <3> QED BY <3>2, <3>4, <3>6, <3>7 DEF Ended, Pending
  <2>4. Pipe!Next
    <3> PICK v : v = Victim(table[o], c)
      OBVIOUS
    <3>1. Usual(seen') /\ v \in Fds /\ sock[v] \in Ends /\ peer[sock[v]] = "open"
            => Len(got[sock[v]]) = sent[Opposite(sock[v])]
      BY <2>3
    <3>2. CloseAll({v})
      BY <2>1
    <3> QED BY <1>1, <1>3, <3>1, <3>2, ClosePipe
  <2>5. \A t \in Sides : Doomed(t)' \subseteq Doomed(t) /\ Doomed(t) \subseteq Fds
    BY <1>2, <2>1, DoomedStays, PairFacts DEF Doomed
  <2>6. Usual(seen') => Dry'
    BY <1>1, <2>2, <2>5, EndedStays, DryStays
  <2> QED BY <2>4, <2>6 DEF Pumps
<1>5. CASE ~MayClose(o, c)
  <2>1. UNCHANGED <<sock, seen>> /\ removed' = [removed EXCEPT ![o] = @ \cup {c}]
    BY <1>5 DEF LosePartner
  <2>2. Pipe!Next
    BY <1>1, <2>1, PipeRests
  <2>3. ASSUME NEW t \in Sides PROVE Doomed(t)' \subseteq Doomed(t)
    <3>1. removed'[t] \subseteq Doomed(t)
      BY <1>2, <2>1, PairFacts DEF Doomed
    <3>2. Other(t) \in Sides /\ Other(t)' = Other(t)
      BY Constants DEF Other
    <3> QED BY <3>1, <3>2, <1>2 DEF Doomed, Calmly
  <2>4. Usual(seen') => Dry'
    BY <1>1, <2>1, <2>3, EndedStays, DryStays
  <2> QED BY <2>2, <2>4 DEF Pumps
<1> QED BY <1>4, <1>5

\* A write delivers n bytes that are due to e, and if it ends the last chunk
\* that was all there is.
Sends(e, b, n) ==
    /\ e \in Ends
    /\ got' = [got EXCEPT ![e] = @ \o Row(Opposite(e), Len(got[e]), n)]
    /\ Len(got[e]) \in Nat /\ Len(got'[e]) = Len(got[e]) + n
    /\ Len(got[e]) + n <= taken[Opposite(e)]
    /\ Len(b.chunks) = 1 /\ b.offset + n = Len(Head(b.chunks))
          => Len(got[e]) + n = taken[Opposite(e)]

\* What a write sends is what the peer is to receive next.
LEMMA WriteSends ==
  ASSUME IInv, NEW s \in Sides, NEW n \in 1 .. MaxWrite, Write(s, n), "stale" \notin seen
  PROVE  /\ Sends(sock[cur[s]], buffer[s][cur[s]], n)
         /\ cur[s] \in Registered(table[s]) /\ sock[cur[s]] \in {s} \X Conns
<1> PICK e, b : e = sock[cur[s]] /\ b = buffer[s][cur[s]]
  OBVIOUS
<1>n. n \in Nat \ {0}
  OBVIOUS
<1>f. PICK f, chunk, d : f = cur[s] /\ chunk = Head(b.chunks) /\ d = Opposite(e)
  OBVIOUS
<1>d. PICK data : data = Part(chunk, b.offset, n)
  BY Zenon
<1>1. /\ pc[s] = "write" /\ f # NoFd /\ b.chunks # <<>>
      /\ e \in Ends /\ peer[e] \in {"open", "fin"}
      /\ b.offset + n <= Len(chunk)
      /\ got' = [got EXCEPT ![e] = @ \o data]
      /\ UNCHANGED <<peer, sent, taken>>
  BY <1>f, <1>d DEF Write, Writing, HasData, CanWrite, Part
<1>2. /\ f \in Fds /\ b \in Buffers /\ got \in [Ends -> Seq(Units)]
      /\ b.offset \in Int /\ b.chunks \in Seq(Chunk) /\ chunk \in Chunk
      /\ taken \in [Ends -> Nat] /\ d \in Ends
  <2>1. /\ f \in Fds /\ buffer \in [Sides -> [Fds -> Buffers]]
        /\ got \in [Ends -> Seq(Units)] /\ taken \in [Ends -> Nat]
    BY <1>1, <1>f DEF IInv, Types
  <2>2. b \in Buffers /\ d \in Ends
    BY <1>f, <1>1, <2>1, Opposites
  <2>3. b.offset \in Int /\ b.chunks \in Seq(Chunk)
    BY <2>2 DEF Buffers
  <2>4. chunk \in Chunk
    BY <1>1, <1>f, <2>3
  <2> QED BY <2>1, <2>2, <2>3, <2>4
<1>3. f \in Registered(table[s]) /\ e \in {s} \X Conns /\ e[1] = s
  BY <1>f, <1>1, <1>2, OwnSocket, EndsOfSide
<1>4. Continues(b, e)
  BY <1>3, <1>f, <1>1, <1>2 DEF IInv, Streams
<1>5. PICK g : g = Len(got[e])
  OBVIOUS
<1>6. /\ chunk = b.chunks[1] /\ 1 \in DOMAIN b.chunks /\ Len(b.chunks) \in Nat \ {0}
      /\ Run(chunk, d) /\ b.offset >= 0 /\ Start(chunk) + b.offset = g + 1
      /\ Stop(chunk) <= taken[d] /\ Stop(b.chunks[Len(b.chunks)]) = taken[d]
  <2>1. chunk = b.chunks[1] /\ 1 \in DOMAIN b.chunks /\ Len(b.chunks) \in Nat \ {0}
    BY <1>f, <1>1, <1>2
  <2> QED BY <2>1, <1>1, <1>4, <1>5, <1>f DEF Continues
<1>7. Stop(chunk) = Start(chunk) + Len(chunk) - 1 /\ Start(chunk) \in Nat /\ Len(chunk) \in Nat
  BY <1>2, <1>6, ChunkStop, ChunkInts
<1>8. data \in Seq(Units) /\ Len(data) = n
  BY <1>n, <1>1, <1>2, <1>d, ChunkData
<1>9. g \in Nat /\ Len(got'[e]) = g + n
  <2>1. PICK u \in Seq(Units) : u = got[e]
    BY <1>1, <1>2
  <2>2. Len(u) \in Nat /\ Len(u \o data) = Len(u) + Len(data)
    BY <1>8, ConcatLen
  <2> QED BY <2>1, <2>2, <1>1, <1>2, <1>5, <1>8
<1>a. PICK k, m, l, t : k = b.offset /\ m = Start(chunk) /\ l = Len(chunk) /\ t = taken[d]
  OBVIOUS
<1>b. /\ k \in Nat /\ m \in Nat /\ l \in Nat /\ t \in Nat
      /\ k + n <= l /\ m + k = g + 1 /\ m + l - 1 <= t
  <2>1. k \in Nat /\ m \in Nat /\ l \in Nat /\ t \in Nat
    BY <1>a, <1>2, <1>6, <1>7, SMTT(30)
  <2> QED BY <2>1, <1>a, <1>1, <1>6, <1>7
<1>10. data = Row(d, g, n)
  <2>1. data = Part(chunk, k, n) /\ chunk \in Chunk /\ Run(chunk, d)
    BY <1>a, <1>d, <1>2, <1>6
  <2>2. k + n <= Len(chunk) /\ Start(chunk) + k = g + 1 /\ k \in Nat
    BY <1>a, <1>b
  <2>3. Part(chunk, k, n) = Row(d, g, n)
    BY <2>1, <2>2, <1>n, <1>9, ChunkPart
  <2> QED BY <2>1, <2>3
<1>11. g + n <= t
  BY <1>n, <1>9, <1>b
<1>12. ASSUME Len(b.chunks) = 1, b.offset + n = Len(chunk)
       PROVE  g + n = t
  <2>1. Stop(chunk) = t
    BY <1>6, <1>12, <1>a
  <2>2. m + l - 1 = t /\ k + n = l
    BY <2>1, <1>7, <1>12, <1>a
  <2> QED BY <2>2, <1>n, <1>9, <1>b
<1> QED BY <1>f, <1>a, <1>1, <1>3, <1>5, <1>9, <1>10, <1>11, <1>12 DEF Sends

\* A write delivers, and closes a descriptor only when that was the last.
LEMMA WritePipe ==
  ASSUME IInv, Pairs, Usual(seen) => Dry, NEW s \in Sides, NEW n \in 1 .. MaxWrite,
         Write(s, n)
  PROVE  Pumps
<1> USE DEF queues
<1> PICK f, e, d, b : /\ f = cur[s] /\ e = sock[f] /\ d = Opposite(e) /\ b = buffer[s][f]
  OBVIOUS
<1> PICK last \in BOOLEAN : last = (b.offset + n = Len(Head(b.chunks)) /\ Awaited(s, f))
  OBVIOUS
<1>1. /\ UNCHANGED <<peer, sent, taken, seen>> /\ AfterWrite(s) /\ f \in Fds
      /\ removed' = [removed EXCEPT ![s] = IF last THEN @ \ {f} ELSE @]
      /\ CloseAll(IF last THEN {Victim(table[s], f)} ELSE {})
      /\ last => f \in removed[s] /\ Len(b.chunks) = 1
                 /\ b.offset + n = Len(Head(b.chunks))
  <2>0. Writing(s)
    BY DEF Write
  <2>1. f \in Fds
    BY <2>0, PairFacts DEF Writing, HasData
  <2>2. last => Awaited(s, f) /\ b.offset + n = Len(Head(b.chunks))
    OBVIOUS
  <2>3. /\ removed' = [removed EXCEPT ![s] = IF last THEN @ \ {f} ELSE @]
        /\ CloseAll(IF last THEN {Victim(table[s], f)} ELSE {})
    BY DEF Write
  <2> QED BY <2>1, <2>2, <2>3 DEF Write, Awaited
<1>2. Present' = Present /\ Calmly
  BY <1>1, CalmLoop DEF Present
<1>3. /\ \A x \in Fds : sock'[x] \in {sock[x], Closed}
      /\ OpenEnds' = OpenEnds \/ (last /\ \E v \in Fds : /\ v = Victim(table[s], f)
                                      /\ sock[v] \in Ends /\ OpenEnds' = OpenEnds \ {sock[v]})
  <2>1. CASE last
    <3> PICK v : v = Victim(table[s], f)
      OBVIOUS
    <3>1. CloseAll({v})
      BY <1>1, <2>1
    <3> QED BY <2>1, <3>1, ClosingOne
  <2>2. CASE ~last
    <3>1. sock' = sock
      BY <1>1, <2>2 DEF CloseAll, IInv, Types
    <3> QED BY <3>1 DEF OpenEnds, IsOpen
  <2> QED BY <2>1, <2>2
<1>4. \A t \in Sides : Doomed(t)' \subseteq Doomed(t) /\ Doomed(t) \subseteq Fds
  <2>1. \A t \in Sides : /\ removed'[t] \subseteq removed[t] /\ removed[t] \subseteq Fds
                         /\ Other(t) \in Sides /\ Other(t)' = Other(t)
    BY <1>1, PairFacts DEF Other
  <2>2. \A t \in Sides : Doomed(t)' \subseteq Doomed(t)
    BY <1>2, <2>1 DEF Doomed, Calmly
  <2> QED BY <2>1, <2>2, PairFacts DEF Doomed
<1>5. Usual(seen') => Dry'
  BY <1>1, <1>3, <1>4, EndedStays, DryStays
<1>6. CASE "stale" \in seen
  <2>1. "stale" \in seen' /\ ~Usual(seen')
    BY <1>1, <1>6 DEF Usual
  <2>2. Pipe!Next
    BY <1>1, <2>1, PipeNext
  <2> QED BY <1>5, <2>2 DEF Pumps
<1>7. CASE "stale" \notin seen
  <2>1. /\ e \in Ends /\ e \in {s} \X Conns /\ f \in Registered(table[s])
        /\ got' = [got EXCEPT ![e] = @ \o Row(d, Len(got[e]), n)]
        /\ Len(got[e]) \in Nat /\ Len(got'[e]) = Len(got[e]) + n
        /\ Len(got[e]) + n <= taken[d] /\ (last => Len(got[e]) + n = taken[d])
    <3>1. Sends(e, b, n) /\ f \in Registered(table[s]) /\ e \in {s} \X Conns
      BY <1>7, WriteSends
    <3> QED BY <3>1, <1>1 DEF Sends
  <2>2. /\ d \in Ends /\ taken \in [Ends -> Nat] /\ sent \in [Ends -> Nat] /\ taken[d] <= sent[d]
    BY <2>1, Opposites DEF IInv, Types
  <2>3. \A v \in Fds : v = Victim(table[s], f) => v = f
    BY <2>1, <1>1, PairFacts, VacateOK
  <2>4. OpenEnds' \in {OpenEnds, OpenEnds \ {e}}
    BY <1>3, <2>3
  <2>5. Pipe!Following(e, n) = Row(d, Len(got[e]), n)
    <3>1. Pipe!Opposite(e) = d
      BY DEF Pipe!Opposite, Opposite
    <3>2. PICK q \in Sides, c \in Conns : d = <<q, c>>
      BY <2>2 DEF Ends
    <3>3. \A k \in 1 .. n : d \o <<Len(got[e]) + k>> = <<d[1], d[2], Len(got[e]) + k>>
      BY <3>2, ConcatUnit
    <3> QED BY <3>1, <3>3, Zenon DEF Pipe!Following, Row
  <2>6. n \in 1 .. sent[d] - Len(got[e])
    BY <2>1, <2>2, SMTT(30)
  <2>7. Pipe!Deliver(e)
    <3>1. Pipe!Opposite(e) = d
      BY DEF Pipe!Opposite, Opposite
    <3> QED BY <1>1, <1>2, <2>1, <2>4, <2>5, <2>6, <3>1 DEF Pipe!Deliver, OpenEnds, Present
  <2>8. ASSUME Usual(seen'), NEW x \in OpenEnds \ OpenEnds'
        PROVE  Len(got'[x]) = sent[Opposite(x)]
    <3>1. x = e /\ last
      BY <1>3, <2>4, <2>8
    <3>2. f \in Doomed(s) /\ Usual(seen)
      BY <1>1, <2>8, <3>1 DEF Doomed
    <3>3. Ended(d)
      BY <2>1, <3>2, <1>1 DEF Dry
    <3>4. sent[d] = taken[d]
      BY <2>2, <3>3 DEF Ended, Pending
    <3> QED BY <2>1, <3>1, <3>4
  <2>9. Pipe!Next
    BY <1>1, <2>1, <2>7, <2>8, PipeNext
  <2> QED BY <1>5, <2>9 DEF Pumps
<1> QED BY <1>6, <1>7

-----------------------------------------------------------------------------
\* Every step of the relay is a step of the pipe.
LEMMA NextPipe ==
  ASSUME IInv, Pairs, Usual(seen) => Dry, [Next]_vars
  PROVE  Pipe!Next /\ (Usual(seen') => Dry')
<1> SUFFICES Pumps
  BY DEF Pumps
<1>1. ASSUME NEW s \in Sides, Thread(s) PROVE Pumps
  <2>1. CASE \/ Poll(s) \/ Scan(s) \/ ReadBlocks(s) \/ NothingToWrite(s)
             \/ s = "net" /\ IgnoreEof
    BY <2>1, IdlePipe
  <2>0. CASE WriteFails(s)
    BY <2>0, WriteFailsPipe
  <2>2. CASE TakeTunnel
    BY <2>2, TakeTunnelPipe
  <2>3. CASE Accept
    BY <2>3, AcceptPipe
  <2>4. CASE InsertProxy
    BY <2>4, InsertProxyPipe
  <2>5. CASE TakePromise
    BY <2>5, TakePromisePipe
  <2>6. CASE Connect
    BY <2>6, ConnectPipe
  <2>7. CASE ReadData(s)
    BY <2>7, ReadDataPipe
  <2>8. CASE Lose(s)
    BY <2>8, LosePipe
  <2>9. CASE LosePartner(s)
    BY <2>9, LosePartnerPipe
  <2>10. ASSUME NEW n \in 1 .. MaxWrite, Write(s, n) PROVE Pumps
    BY <2>10, WritePipe
  <2> QED BY <1>1, <2>0, <2>1, <2>2, <2>3, <2>4, <2>5, <2>6, <2>7, <2>8, <2>9, <2>10
          DEF Thread
<1>2. CASE Environment
  <2>1. CASE Promise
    BY <2>1, PromisePipe
  <2>2. ASSUME NEW c \in Conns, Arrive(c) \/ Offer(c) PROVE Pumps
    BY <2>2, ArrivePipe, OfferPipe
  <2>3. ASSUME NEW e \in Ends, PeerSend(e) \/ PeerEnd(e) PROVE Pumps
    BY <2>3, PeerSendPipe, PeerEndPipe
  <2> QED BY <1>2, <2>1, <2>2, <2>3 DEF Environment
<1>3. CASE UNCHANGED vars
  <2>1. /\ UNCHANGED <<sock, peer, sent, taken, got, seen, removed>>
        /\ UNCHANGED <<pc, cur>>
    BY <1>3 DEF vars, kernel, loops, maps
  <2>2. Calmly /\ EndsStay
    BY <2>1, CalmOutside, EndedStays
  <2> QED BY <2>1, <2>2, QuietPipe
<1> QED BY <1>1, <1>2, <1>3 DEF Next

\* Nothing is doomed at first, and the pipe is empty.
LEMMA InitPipe == Init => Pipe!Init /\ (Usual(seen) => Dry)
<1> SUFFICES ASSUME Init PROVE Pipe!Init /\ Dry
  OBVIOUS
<1>1. /\ peer = [e \in Ends |-> "none"] /\ sent = [e \in Ends |-> 0]
      /\ got = [e \in Ends |-> <<>>] /\ seen = {}
      /\ sock = [f \in Fds |-> IF f \in {0, listener} THEN Misc ELSE Closed]
      /\ \A s \in Sides : pc[s] = "poll" /\ removed[s] = {} /\ Other(s) \in Sides
  BY Constants DEF Init
<1>2. Present = {} /\ OpenEnds = {} /\ Usual(seen) /\ "stale" \notin seen
  BY <1>1, Constants DEF Present, OpenEnds, IsOpen, Usual
<1>3. Pipe!Ends = Ends
  BY DEF Pipe!Ends, Ends
<1>4. Pipe!Init
  BY <1>1, <1>2, <1>3 DEF Pipe!Init, Present, OpenEnds
<1>5. Dry
  BY <1>1 DEF Dry, Doomed
<1> QED BY <1>4, <1>5

\* Each connection is a pipe in both directions, as DuplexPipe says: a peer
\* receives what the other one sent, in order and nothing else, for as long as
\* no number was given out too early; and the relay leaves a peer who is still
\* there only when that one has all the other ever sent, as long as everything
\* is as usual.
THEOREM PipeRefinement == Spec => ImplementsPipe
<1>1. Init => Pairs
  BY InitPairs
<1>2. IInv /\ Pairs /\ (Usual(seen) => Dry) /\ [Next]_vars
         => Pipe!Next /\ (Usual(seen) => Dry)'
  BY NextPipe
<1> QED BY Invariance, <1>1, <1>2, NextPairs, InitPipe, PTL
        DEF Spec, ImplementsPipe, Pipe!Spec
=============================================================================
