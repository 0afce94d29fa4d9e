------------------------------ MODULE TcpServer ------------------------------
(***************************************************************************)
(* The relay of tcpServer::doProxy: proxyThread and netThread, each with a *)
(* pollDispatcher loop over its own table, sharing rwLock, the two maps    *)
(* between descriptors, the write buffers and the sets of descriptors to   *)
(* close once their buffer is empty.  "proxy" is the side of the users (in *)
(* the server process) or of the local service (in the client process),    *)
(* "net" the side of the tunnels between the two processes.                *)
(*                                                                         *)
(* Both onRead and onWrite run under rwLock, one step each, except that a  *)
(* read of a silent socket keeps the lock while it blocks, and that the    *)
(* two closes after a failed read are two steps: insert takes no lock.     *)
(***************************************************************************)
EXTENDS PollTable, Sequences, FiniteSets

CONSTANTS Conns,      \* proxied connections
          NoConn,
          Listeners,  \* the server's listener; NoFd makes this the client
          Bytes,      \* bound: bytes each peer sends, by side
          MaxLine,    \* bound for MAXLINE
          Faults,     \* what peers and network do besides: <<side, how>>
          FreshBits,  \* what revents holds in a slot that was never polled
          MinOffset   \* bound: how far below zero a write offset is followed

Sides == {"proxy", "net"}
Ends == Sides \X Conns
Closed == <<"closed", NoConn>>
Misc == <<"misc", NoConn>>    \* standard input, the listener
Junk == <<"junk", NoConn, 0>> \* memory in front of a buffer
Other(s) == IF s = "proxy" THEN "net" ELSE "proxy"

ASSUME TcpServerAssumption ==
    /\ 0 \in Fds /\ Listeners \subseteq (Fds \ {0}) \cup {NoFd}
    /\ Bytes \in [Sides -> Nat] /\ MaxLine \in Nat \ {0}
    /\ MinOffset \in Int /\ MinOffset < 0
    /\ FreshBits \subseteq SUBSET {"in", "out"}
    /\ NoConn \notin Conns

VARIABLES
    listener,   \* the server's listener, or NoFd: rigid
    sock,       \* kernel: what each descriptor is open on
    peer,       \* kernel: the far end of each connection
    sent, taken,\* bytes the peer sent, and the relay read
    got,        \* the bytes the relay wrote, as the peer received them
    backlog,    \* connections the listener has not accepted
    table,      \* clientfd, sockMap and totfd of the two dispatchers
    rev,        \* revents of their slots
    pc,         \* where each thread is
    slot,       \* next slot of its scan
    cur,        \* the descriptor it took from the table, or is setting up
    req,        \* the connection proxyThread is setting up
    tunnels,    \* connections: tunnels handed over by the connection manager
    actualfds,  \* tunnels on their way to netThread
    partner,    \* proxy2actualMap and actual2proxyMap, by side of the key
    buffer,     \* proxyWriteBuffer and netWriteBuffer: chunks and offset
    removed,    \* proxyRemovedFd and netRemovedFd
    inserted,   \* history: descriptors each table was given
    seen        \* history: what went wrong so far

kernel == <<sock, peer, sent, taken, got, backlog>>
loops == <<table, rev, pc, slot, cur, req>>
maps == <<partner, buffer, removed>>
queues == <<tunnels, actualfds>>
vars == <<listener, kernel, loops, maps, queues, inserted, seen>>

IsServer == listener # NoFd

Init ==
    /\ listener \in Listeners
    /\ sock = [f \in Fds |-> IF f \in {0, listener} THEN Misc ELSE Closed]
    /\ peer = [e \in Ends |-> "none"]
    /\ sent = [e \in Ends |-> 0] /\ taken = sent
    /\ got = [e \in Ends |-> <<>>]
    /\ backlog = {}
    /\ table = [s \in Sides |->
                  NewTable(IF s = "proxy" THEN listener ELSE NoFd)]
    /\ \E bits \in [Sides -> [Slots \ {0} -> FreshBits]] :
          rev = [s \in Sides |->
                   [i \in Slots |-> IF i = 0 THEN {} ELSE bits[s][i]]]
    /\ pc = [s \in Sides |-> "poll"]
    /\ slot = [s \in Sides |-> 0]
    /\ cur = [s \in Sides |-> NoFd]
    /\ req = NoConn
    /\ tunnels = <<>> /\ actualfds = <<>>
    /\ partner = [s \in Sides |-> [f \in Fds |-> 0]]
    /\ buffer = [s \in Sides |->
                   [f \in Fds |-> [chunks |-> <<>>, offset |-> 0]]]
    /\ removed = [s \in Sides |-> {}]
    /\ inserted = [s \in Sides |-> {}]
    /\ seen = {}

-----------------------------------------------------------------------------
(* The kernel and the peers. *)

IsOpen(e) == \E f \in Fds : sock[f] = e

Pending(e) == sent[e] - taken[e]

\* The descriptors of a side that the relay looks up partners of: those in the
\* table, and those that are coupled and on their way into it.
InUse(s) ==
    Registered(table[s])
       \cup IF s = "net" THEN {actualfds[i] : i \in DOMAIN actualfds}
            ELSE {f \in {cur[s]} : pc[s] = "insert" /\ ~IsServer}

\* The descriptors whose partner is settled: onConnect is about to set that of
\* the user who waits for a tunnel.
Routed(s) == IF s = "proxy" /\ pc["proxy"] = "await"
             THEN InUse(s) \ {cur[s]} ELSE InUse(s)

\* The relay still refers to a descriptor number that was closed.
RefersTo(f) ==
    \E s \in Sides : \/ buffer[s][f].chunks # <<>>
                    \/ f \in removed[s]
                    \/ cur[s] = f
                    \/ \E g \in Routed(s) : partner[s][g] = f

\* A thread is about to read a descriptor that the other one closed after it
\* was taken from the table; it will then close the partner, number f.
WillClose(f) == \E s \in Sides : /\ pc[s] \in {"read", "blocked"}
                                /\ sock[cur[s]] = Closed
                                /\ partner[s][cur[s]] = f

\* A new descriptor is the lowest number that is free.
OpenOn(f, e, marks) ==
    /\ sock[f] = Closed /\ \A g \in Fds : sock[g] = Closed => f <= g
    /\ sock' = [sock EXCEPT ![f] = e]
    /\ seen' = seen \cup marks \cup {m \in {"stale"} : RefersTo(f)}
                  \cup {m \in {"late"} : WillClose(f)}

\* The first read or write that fails on e takes the pending error of a reset:
\* from then on reads return 0, and writes still fail.
Reported(e) == [d \in Ends |-> IF d = e /\ peer[d] = "rst" THEN "dead"
                                                         ELSE peer[d]]

CloseAll(fs) == sock' = [f \in Fds |-> IF f \in fs THEN Closed ELSE sock[f]]

\* A user connects to the server's port.
Arrive(c) ==
    /\ peer[<<"proxy", c>>] = "none" /\ table["proxy"].fd[0] # NoFd
    /\ peer' = [peer EXCEPT ![<<"proxy", c>>] = "open"]
    /\ backlog' = backlog \cup {c}
    /\ UNCHANGED <<sock, sent, taken, got, loops, maps, queues, inserted, seen>>

\* The connection manager of the client process dials a tunnel.
Offer(c) ==
    /\ ~IsServer /\ peer[<<"net", c>>] = "none"
    /\ \E f \in Fds : /\ OpenOn(f, <<"net", c>>, {})
                      /\ tunnels' = Append(tunnels, f)
    /\ peer' = [peer EXCEPT ![<<"net", c>>] = "open"]
    /\ UNCHANGED <<sent, taken, got, backlog, loops, maps, actualfds, inserted>>

\* The server's connection manager fulfils the promise proxyThread waits for,
\* with a tunnel, or with -1 when the client is not there.
Promise ==
    /\ IsServer /\ pc["proxy"] = "await" /\ tunnels = <<>>
    /\ \/ /\ \E f \in Fds : /\ OpenOn(f, <<"net", req>>, {})
                            /\ tunnels' = <<f>>
          /\ peer' = [peer EXCEPT ![<<"net", req>>] = "open"]
       \/ /\ <<"net", "absent">> \in Faults
          /\ tunnels' = <<NoFd>>
          /\ seen' = seen \cup {"absent"}
          /\ UNCHANGED <<sock, peer>>
    /\ UNCHANGED <<listener, sent, taken, got, backlog, loops, maps, actualfds,
                   inserted>>

PeerSend(e) ==
    /\ peer[e] = "open"
    /\ IsOpen(e) \/ e \in {"proxy"} \X backlog
    /\ sent[e] < Bytes[e[1]]
    /\ sent' = [sent EXCEPT ![e] = @ + 1]
    /\ UNCHANGED <<sock, peer, taken, got, backlog, loops, maps, queues,
                   inserted, seen>>

\* A peer ends its stream, or resets the connection.  After the end of the
\* stream a read keeps returning 0, also of a connection that was reset.
PeerEnd(e) ==
    /\ IsOpen(e)
    /\ \E how \in {"fin", "rst"} :
          /\ <<e[1], how>> \in Faults
          /\ \/ peer[e] = "open" /\ peer' = [peer EXCEPT ![e] = how]
             \/ /\ peer[e] = "fin" /\ how = "rst"
                /\ peer' = [peer EXCEPT ![e] = "dead"]
    /\ UNCHANGED <<sock, sent, taken, got, backlog, loops, maps, queues,
                   inserted, seen>>

-----------------------------------------------------------------------------
(* The loop of pollDispatcher::doDispatch.  Sockets are always writable:   *)
(* the peers read what they are sent.                                      *)

Readiness(s, i) ==
    LET f == table[s].fd[i] IN
    IF f = NoFd THEN {}
    ELSE IF s = "proxy" /\ i = 0
    THEN {b \in {"in"} : backlog # {}}
    ELSE {"out"} \cup {b \in {"in"} : Pending(sock[f]) > 0
                                      \/ peer[sock[f]] # "open"}

Goto(s, where) == pc' = [pc EXCEPT ![s] = where]

Poll(s) ==
    /\ pc[s] = "poll"
    /\ rev' = [rev EXCEPT ![s] =
                 [i \in Slots |-> IF i <= table[s].top THEN Readiness(s, i)
                                                       ELSE rev[s][i]]]
    /\ Goto(s, IF s = "proxy" /\ IsServer THEN "scan" ELSE "dispatch")
    /\ UNCHANGED <<kernel, table, slot, cur, req, maps, queues, inserted, seen>>

Wanted(s, i) == table[s].fd[i] # NoFd /\ rev[s][i] # {}

NextWanted(s, i) == /\ i \in slot[s] .. MaxClient - 1 /\ Wanted(s, i)
                    /\ \A j \in slot[s] .. i - 1 : ~Wanted(s, j)

Scan(s) ==
    /\ pc[s] = "scan"
    /\ \/ \E i \in Slots \ {0} :
             /\ NextWanted(s, i)
             /\ slot' = [slot EXCEPT ![s] = i + 1]
             /\ cur' = [cur EXCEPT ![s] = table[s].fd[i]]
             /\ Goto(s, IF "in" \in rev[s][i] THEN "read" ELSE "write")
       \/ /\ \A i \in Slots : ~NextWanted(s, i)
          /\ slot' = [slot EXCEPT ![s] = 0]
          /\ Goto(s, "poll")
          /\ UNCHANGED cur
    /\ UNCHANGED <<kernel, table, rev, req, maps, queues, inserted, seen>>

FullMark(s) == IF s = "proxy" THEN "proxyFull" ELSE "netFull"

\* Mutant of Placed: in slot totfd.
PlacedAtTop(s, i) == i = table[s].top

Placed(s, i) == IsFirstFree(table[s], i)

\* insert(f): into the first free slot, or, "server busy", f is closed.
InsertInto(s, f) ==
    /\ inserted' = [inserted EXCEPT ![s] = @ \cup {f}]
    /\ \/ /\ \E i \in Slots :
                /\ Placed(s, i)
                /\ table' = [table EXCEPT ![s] = InsertAt(@, i, f)]
          /\ UNCHANGED <<sock, seen>>
       \/ /\ IsFull(table[s])
          /\ CloseAll({f})
          /\ seen' = seen \cup {FullMark(s)}
          /\ UNCHANGED table

\* netThread's onDispatch.
TakeTunnel ==
    /\ pc["net"] = "dispatch"
    /\ IF actualfds = <<>>
       THEN UNCHANGED <<sock, table, actualfds, inserted, seen>>
       ELSE /\ actualfds' = Tail(actualfds)
            /\ InsertInto("net", Head(actualfds))
    /\ Goto("net", "scan")
    /\ UNCHANGED <<peer, sent, taken, got, backlog, rev, slot, cur, req, maps,
                   tunnels>>

\* accept, in slot 0 of the server's proxyThread.
Accept ==
    /\ pc["proxy"] = "scan" /\ NextWanted("proxy", 0)
    /\ \E c \in backlog, f \in Fds :
          /\ OpenOn(f, <<"proxy", c>>, {})
          /\ backlog' = backlog \ {c}
          /\ cur' = [cur EXCEPT !["proxy"] = f]
          /\ req' = c
    /\ slot' = [slot EXCEPT !["proxy"] = 1]
    /\ Goto("proxy", "insert")
    /\ UNCHANGED <<peer, sent, taken, got, table, rev, maps, queues, inserted>>

\* What is next is onConnect's promise, or the scan after onDispatch.
InsertProxy ==
    /\ pc["proxy"] = "insert"
    /\ InsertInto("proxy", cur["proxy"])
    /\ Goto("proxy", IF IsServer THEN "await" ELSE "scan")
    /\ cur' = IF IsServer THEN cur ELSE [cur EXCEPT !["proxy"] = NoFd]
    /\ req' = IF IsServer THEN req ELSE NoConn
    /\ UNCHANGED <<peer, sent, taken, got, backlog, rev, slot, maps, queues>>

Couple(f, g) ==
    /\ partner' = [partner EXCEPT !["proxy"][f] = g, !["net"][g] = f]
    /\ actualfds' = Append(actualfds, g)

\* Users without a tunnel; onRead makes an entry, 0, for one that it looks up.
Uncoupled == {f \in Registered(table["proxy"]) : partner["proxy"][f] = 0}

\* onConnect after the promise: couple the two descriptors, or shut down
\* everything the map still mentions.
TakePromise ==
    /\ IsServer /\ pc["proxy"] = "await" /\ tunnels # <<>>
    /\ tunnels' = Tail(tunnels)
    /\ \/ /\ Head(tunnels) # NoFd
          /\ Couple(cur["proxy"], Head(tunnels))
          /\ UNCHANGED <<peer, seen>>
       \/ /\ Head(tunnels) = NoFd
          /\ \E idle \in SUBSET Uncoupled :
                LET keys == {f \in Fds : partner["proxy"][f] # 0}
                    shut == idle \cup keys \cup {partner["proxy"][f] : f \in keys}
                IN  /\ peer' = [e \in Ends |->
                           IF peer[e] # "rst" /\ \E f \in shut : sock[f] = e
                           THEN "dead" ELSE peer[e]]
                    /\ seen' = IF cur["proxy"] \in keys
                               THEN seen \cup {"stale"} ELSE seen
          /\ UNCHANGED <<partner, actualfds>>
    /\ Goto("proxy", "scan")
    /\ cur' = [cur EXCEPT !["proxy"] = NoFd]
    /\ req' = NoConn
    /\ UNCHANGED <<sock, sent, taken, got, backlog, table, rev, slot, buffer,
                   removed, inserted>>

\* The client's onDispatch: connect to the local service for a new tunnel;
\* when that fails both descriptors stay open for ever.
Connect ==
    /\ pc["proxy"] = "dispatch" /\ ~IsServer
    /\ \/ /\ tunnels = <<>>
          /\ Goto("proxy", "scan")
          /\ UNCHANGED <<sock, peer, cur, req, partner, queues, seen>>
       \/ /\ tunnels # <<>>
          /\ tunnels' = Tail(tunnels)
          /\ \E f \in Fds : LET c == sock[Head(tunnels)][2] IN
                \/ /\ OpenOn(f, <<"proxy", c>>, {})
                   /\ peer' = [peer EXCEPT ![<<"proxy", c>>] = "open"]
                   /\ Couple(f, Head(tunnels))
                   /\ cur' = [cur EXCEPT !["proxy"] = f]
                   /\ req' = c
                   /\ Goto("proxy", "insert")
                \/ /\ <<"proxy", "absent">> \in Faults
                   /\ OpenOn(f, Misc, {"absent"})
                   /\ Goto("proxy", "scan")
                   /\ UNCHANGED <<peer, cur, req, partner, actualfds>>
    /\ UNCHANGED <<sent, taken, got, backlog, table, rev, slot, buffer, removed,
                   inserted>>

-----------------------------------------------------------------------------
(* onRead and onWrite. *)

HasLock(s) == pc[Other(s)] \notin {"blocked", "lost"}

\* After onRead the slot's POLLOUT is looked at, with what the slot holds now.
AfterRead(s) ==
    LET i == slot[s] - 1 IN
    IF "out" \in rev[s][i]
    THEN Goto(s, "write") /\ cur' = [cur EXCEPT ![s] = table'[s].fd[i]]
    ELSE Goto(s, "scan") /\ cur' = [cur EXCEPT ![s] = NoFd]

\* Nothing to read on e, and its peer is in one of these states.
Drained(e, states) == e \in Ends /\ Pending(e) = 0 /\ peer[e] \in states

Reading(s) == pc[s] \in {"read", "blocked"} /\ HasLock(s)

\* The socket is open and silent: ::read blocks, and rwLock is held.
ReadBlocks(s) ==
    /\ pc[s] = "read" /\ HasLock(s)
    /\ Drained(sock[cur[s]], {"open"})
    /\ Goto(s, "blocked")
    /\ UNCHANGED <<kernel, table, rev, slot, cur, req, maps, queues, inserted,
                   seen>>

\* Mutant of Destination: the last tunnel made, not this connection's.
DestinationNewest(s) == CHOOSE g \in Fds : /\ \E f \in Fds : partner[s][f] = g
                                          /\ \A f \in Fds : partner[s][f] <= g

\* The write buffer on the other side that gets what is read.
Destination(s) == partner[s][cur[s]]

ReadData(s) ==
    /\ Reading(s)
    /\ LET e == sock[cur[s]]
           n == IF Pending(e) < MaxLine THEN Pending(e) ELSE MaxLine
           data == [k \in 1 .. n |-> <<s, e[2], taken[e] + k>>]
       IN  /\ e \in Ends /\ Pending(e) > 0
           /\ taken' = [taken EXCEPT ![e] = @ + n]
           /\ buffer' = [buffer EXCEPT
                 ![Other(s)][Destination(s)].chunks = Append(@, data)]
    /\ UNCHANGED table
    /\ AfterRead(s)
    /\ UNCHANGED <<sock, peer, sent, got, backlog, rev, slot, req, partner,
                   removed, queues, inserted, seen>>

\* read returns 0 at the end of the stream, -1 once for a reset and always
\* for a descriptor that is not a connection.
ReadsEof(s) == Drained(sock[cur[s]], {"fin", "dead"})
ReadsError(s) == sock[cur[s]] \notin Ends \/ Drained(sock[cur[s]], {"rst"})

\* netThread takes the end of a stream for nothing to do.
IgnoreEof ==
    /\ Reading("net") /\ ReadsEof("net")
    /\ UNCHANGED table
    /\ AfterRead("net")
    /\ UNCHANGED <<kernel, rev, slot, req, maps, queues, inserted, seen>>

\* The descriptor is removed on this side, and its partner, looked up before ...
Lose(s) ==
    /\ Reading(s)
    /\ ReadsError(s) \/ (s = "proxy" /\ ReadsEof(s))
    /\ table' = [table EXCEPT ![s] = Vacate(@, cur[s])]
    /\ CloseAll({Victim(table[s], cur[s])})
    /\ peer' = Reported(sock[cur[s]])
    /\ cur' = [cur EXCEPT ![s] = partner[s][@]]
    /\ Goto(s, "lost")
    /\ UNCHANGED <<sent, taken, got, backlog, rev, slot, req, maps, queues,
                   inserted, seen>>

\* Mutant of MayClose: the partner is closed at once.
MayCloseAnyway(o, p) == TRUE

MayClose(o, p) == buffer[o][p].chunks = <<>>

\* ... on the other: now, or when its buffer has been written.
LosePartner(s) ==
    /\ pc[s] = "lost"
    /\ LET o == Other(s)
           p == cur[s]
       IN  IF MayClose(o, p)
           THEN /\ table' = [table EXCEPT ![o] = Vacate(@, p)]
                /\ CloseAll({Victim(table[o], p)})
                /\ seen' = seen \cup {m \in {"early"} :
                                      p \notin Registered(table[o])}
                /\ UNCHANGED removed
           ELSE /\ removed' = [removed EXCEPT ![o] = @ \cup {p}]
                /\ UNCHANGED <<table, sock, seen>>
    /\ AfterRead(s)
    /\ UNCHANGED <<peer, sent, taken, got, backlog, rev, slot, req, partner,
                   buffer, queues, inserted>>

AfterWrite(s) == Goto(s, "scan") /\ cur' = [cur EXCEPT ![s] = NoFd]

HasData(s) == cur[s] # NoFd /\ buffer[s][cur[s]].chunks # <<>>

NothingToWrite(s) ==
    /\ pc[s] = "write" /\ HasLock(s) /\ ~HasData(s)
    /\ AfterWrite(s)
    /\ UNCHANGED <<kernel, table, rev, slot, req, maps, queues, inserted, seen>>

Writing(s) == pc[s] = "write" /\ HasLock(s) /\ HasData(s)

CanWrite(f) == sock[f] \in Ends /\ peer[sock[f]] \in {"open", "fin"}

\* ::write returns -1, which goes into the offset like a length.
WriteFails(s) ==
    /\ Writing(s) /\ ~CanWrite(cur[s])
    /\ buffer' = [buffer EXCEPT ![s][cur[s]].offset =
                     IF @ > MinOffset THEN @ - 1 ELSE @]
    /\ peer' = Reported(sock[cur[s]])
    /\ AfterWrite(s)
    /\ UNCHANGED <<sock, sent, taken, got, backlog, table, rev, slot, req,
                   partner, removed, queues, inserted, seen>>

\* Mutant of Advanced: a chunk is done with its first write.
AdvancedWhole(b, n) == [chunks |-> Tail(b.chunks), offset |-> 0]

\* Mutant of Advanced: the offset is not kept after a partial write.
AdvancedAgain(b, n) == IF n = Len(Head(b.chunks))
                       THEN [chunks |-> Tail(b.chunks), offset |-> 0]
                       ELSE b

\* A buffer after n more bytes of it were written.
Advanced(b, n) == IF b.offset + n = Len(Head(b.chunks))
                  THEN [chunks |-> Tail(b.chunks), offset |-> 0]
                  ELSE [b EXCEPT !.offset = @ + n]

\* Mutant of Awaited: nobody looks at the removed set.
AwaitedNever(s, f) == FALSE

\* The descriptor waits for the chunk at hand to be written to be closed.
Awaited(s, f) == f \in removed[s] /\ Len(buffer[s][f].chunks) = 1

\* n bytes from the offset on; at the end of the last chunk a descriptor that
\* waits in the removed set is closed.
Write(s, n) ==
    /\ Writing(s) /\ CanWrite(cur[s])
    /\ LET f == cur[s]
           b == buffer[s][f]
           chunk == Head(b.chunks)
           data == [k \in 1 .. n |-> IF b.offset + k > 0
                                     THEN chunk[b.offset + k] ELSE Junk]
           last == b.offset + n = Len(chunk) /\ Awaited(s, f)
       IN  /\ b.offset + n <= Len(chunk)
           /\ got' = [got EXCEPT ![sock[f]] = @ \o data]
           /\ buffer' = [buffer EXCEPT ![s][f] = Advanced(@, n)]
           /\ removed' = [removed EXCEPT ![s] = IF last THEN @ \ {f} ELSE @]
           /\ table' = [table EXCEPT ![s] = IF last THEN Vacate(@, f) ELSE @]
           /\ CloseAll(IF last THEN {Victim(table[s], f)} ELSE {})
    /\ AfterWrite(s)
    /\ UNCHANGED <<peer, sent, taken, backlog, rev, slot, req, partner, queues,
                   inserted, seen>>

-----------------------------------------------------------------------------
MaxWrite == Bytes["proxy"] + Bytes["net"] - MinOffset

Thread(s) ==
    /\ UNCHANGED listener
    /\ \/ Poll(s) \/ Scan(s)
       \/ s = "net" /\ (TakeTunnel \/ IgnoreEof)
       \/ s = "proxy" /\ (Accept \/ InsertProxy \/ TakePromise \/ Connect)
       \/ ReadBlocks(s) \/ ReadData(s) \/ Lose(s) \/ LosePartner(s)
       \/ NothingToWrite(s) \/ WriteFails(s)
       \/ \E n \in 1 .. MaxWrite : Write(s, n)

Environment ==
    \/ Promise
    \/ /\ UNCHANGED listener
       /\ \/ \E c \in Conns : Arrive(c) \/ Offer(c)
          \/ \E e \in Ends : PeerSend(e) \/ PeerEnd(e)

Next == Environment \/ \E s \in Sides : Thread(s)

Spec == Init /\ [][Next]_vars

\* Both threads are scheduled, and an awaited promise is fulfilled.
FairSpec == Spec /\ WF_vars(Promise) /\ \A s \in Sides : WF_vars(Thread(s))
-----------------------------------------------------------------------------
(* Properties. *)

Opposite(e) == <<Other(e[1]), e[2]>>

TypeOK ==
    /\ sock \in [Fds -> Ends \cup {Closed, Misc}]
    /\ peer \in [Ends -> {"none", "open", "fin", "rst", "dead"}]
    /\ \A e \in Ends : taken[e] <= sent[e] /\ sent[e] <= Bytes[e[1]]
    /\ backlog \subseteq Conns
    /\ table \in [Sides -> Tables]
    /\ rev \in [Sides -> [Slots -> SUBSET {"in", "out"}]]
    /\ pc \in [Sides -> {"poll", "dispatch", "scan", "insert", "await",
                         "read", "blocked", "lost", "write"}]
    /\ slot \in [Sides -> 0 .. MaxClient]
    /\ cur \in [Sides -> Fds \cup {NoFd}]
    /\ partner \in [Sides -> [Fds -> Fds]]
    /\ \A s \in Sides, f \in Fds : buffer[s][f].offset >= MinOffset
    /\ removed \in [Sides -> SUBSET Fds]

\* Nothing but an absent client or service went wrong so far.
Usual(marks) == marks \subseteq {"absent"}

\* What a peer received is the beginning of what the other peer of the same
\* connection sent, in order, without a gap, a repetition or a byte of
\* another connection - as long as no descriptor number was given out again
\* while a map, a buffer or a removed set of the relay still mentioned it.
NoMixing ==
    "stale" \notin seen =>
        \A e \in Ends :
           \E k \in 0 .. taken[Opposite(e)] :
              got[e] = [j \in 1 .. k |-> Opposite(e) \o <<j>>]

\* A descriptor in a table whose other half was closed is to be closed when its
\* buffer is drained, and has something in it: none is just left behind.  Whether
\* the buffer ever drains is another question, see Leaked.  onRead missing a
\* tunnel that netThread has not inserted yet ("early"), a full table and a
\* number that is reused while the relay still refers to it, or is about to
\* close it ("late"), are the exceptions.
PairsCloseTogether ==
    Usual(seen) =>
        \A s \in Sides : \A f \in Registered(table[s]) :
           \/ partner[s][f] = 0 \/ sock[f] = <<"proxy", req>>
           \/ sock[partner[s][f]] = Opposite(sock[f])
           \/ f \in removed[s] /\ buffer[s][f].chunks # <<>>
           \/ pc[Other(s)] = "lost" /\ cur[Other(s)] = f

\* A thread reads a silent socket, with rwLock, because of readiness bits that
\* are left over in the socket's slot.
Stuck == \E s \in Sides : pc[s] = "blocked"

\* A user was turned away, or a number reused too early.
Spoiled == seen \cap {"stale", "late", "proxyFull", "netFull"} # {}

\* All that a peer sent, even if it then ended its stream or reset the
\* connection, reaches the other peer if that one stays, and the client or its
\* service is there.
Delivery ==
    \A e \in Ends :
        sent[e] > 0 ~> \/ sent[e] = Len(got[Opposite(e)])
                      \/ peer[Opposite(e)] \in {"fin", "rst", "dead"}
                      \/ "absent" \in seen
                      \/ Stuck \/ Spoiled

\* A tunnel that takes no more bytes, its error gone with a failed write or its
\* stream shut down, while there are bytes for it: nothing closes it.
Leaked(c) ==
    \E f \in Fds : /\ sock[f] = <<"net", c>> /\ peer[<<"net", c>>] = "dead"
                   /\ buffer["net"][f].chunks # <<>>

\* When a user or local service leaves, both descriptors are closed, unless
\* the tunnel was not in the table yet, or was lost before the user's bytes
\* were written to it: by a reset that a write reported, or by the shutdown of
\* all pairs that another user's missing tunnel causes.
Teardown ==
    \A c \in Conns :
        peer[<<"proxy", c>>] \in {"fin", "rst"}
           ~> \/ ~IsOpen(<<"proxy", c>>) /\ ~IsOpen(<<"net", c>>)
              \/ "early" \in seen \/ Stuck \/ Spoiled \/ Leaked(c)

\* "server busy" turns one user away; the server goes on serving the others.
ListenerSurvives == table["proxy"].fd[0] = listener

\* Each table behaves as PollDispatcher says, whatever the two threads do.
Opened == {f \in Fds : sock[f] # Closed}
ProxyTable == INSTANCE PollDispatcher
    WITH table <- table["proxy"], open <- Opened, known <- inserted["proxy"],
         refused <- FullMark("proxy") \in seen
NetTable == INSTANCE PollDispatcher
    WITH table <- table["net"], open <- Opened, known <- inserted["net"],
         refused <- FullMark("net") \in seen, listener <- NoFd,
         Listeners <- {NoFd}
ImplementsTables == ProxyTable!Spec /\ NetTable!Spec

\* Each connection is a pipe in both directions: nothing is lost, repeated,
\* reordered or mixed up between connections, and a peer that is still there
\* is left only when it has all that the other one sent - as long as no
\* descriptor number was given out again while the relay still mentioned it,
\* the table was not full, and no tunnel was closed "early".
Pipe == INSTANCE DuplexPipe
    WITH here <- {e \in Ends : peer[e] = "open"},
         open <- {e \in Ends : IsOpen(e)},
         mixed <- "stale" \in seen, hasty <- ~Usual(seen)
ImplementsPipe == Pipe!Spec
==============================================================================
