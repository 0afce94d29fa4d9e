----------------------- MODULE ConnectionManagerProofs -----------------------
(***************************************************************************)
(* Proofs about ConnectionManager, for every number of users, connections, *)
(* crashes and breaks.                                                     *)
(***************************************************************************)
EXTENDS ConnectionManager, SequenceTheorems, TLAPS

ToServer(kind) == (IF kind = "control" THEN {"answer", "ready", "token", "logout"}
                                       ELSE {"token", "payload"}) \X Nat
ToClient == {"challenge", "success", "CONNECT"} \X Nat
Messages == {"answer", "ready", "token", "logout", "payload",
             "challenge", "success", "CONNECT"} \X Nat
EndStates == {"open", "fin", "gone", "broken"}
Connections == {x \in [kind : {"control", "data"}, req : Nat, toS : Seq(Messages),
                       toC : Seq(ToClient), s : EndStates, c : EndStates] :
                  x.toS \in Seq(ToServer(x.kind))}

Talks == {"ready", "pop", "send", "reply", "data", "token"}
Served == {"read", "check", "dial", "token", "leave"}

Servers == [pc : Talks \cup {"accept", "answer", "dead"}, conn : Nat, req : Nat,
            res : Seq(Messages), fd : Nat]
Clients == [pc : Served \cup {"connect", "challenge", "result", "down", "exited"},
            conn : Nat, fd : Nat, req : Nat, rand : Nat, pushed : SUBSET Nat]

Counts == [crash : Nat, restart : Nat, break : Nat, handshake : Nat, dial : Nat,
           reset : Nat, wake : Nat, spoke : BOOLEAN]

Types ==
    /\ conn \in Seq(Connections) /\ Len(conn) <= MaxConns
    /\ backlog \in Seq(Nat) /\ sockfds \in Seq(Nat) /\ answer \in Seq(Int)
    /\ server \in Servers /\ client \in Clients
    /\ quit \in BOOLEAN /\ wake \in BOOLEAN
    /\ faults \in Counts

\* Numbers of connections are those of connections.
Numbers ==
    /\ \A i \in DOMAIN backlog : backlog[i] \in DOMAIN conn
    /\ {server.conn, server.fd, client.conn, client.fd} \subseteq {0} \cup DOMAIN conn
    /\ client.pushed \subseteq DOMAIN conn
    /\ \A r \in DOMAIN answer : answer[r] \in {-1, Gone, 0} \cup DOMAIN conn

\* What each manager has in its hand, by where it is.
Hands ==
    /\ server.pc # "dead" =>
          /\ server.req # 0 <=> server.pc \in {"send", "reply", "data", "token"}
          /\ server.fd # 0 <=> server.pc = "token"
    /\ server.pc \in Talks \cup {"answer"} => server.conn # 0
    /\ client.conn # 0 <=> client.pc \notin {"connect", "down", "exited"}
    /\ client.fd # 0 <=> client.pc = "token"
    /\ client.conn # 0 => /\ conn[client.conn].kind = "control"
                          /\ \A i \in DOMAIN conn :
                                conn[i].kind = "control" => i <= client.conn
    /\ client.pc \in {"challenge", "result"} => client.conn = Len(conn)
    /\ client.pc = "token" => /\ conn[client.fd].kind = "data"
                              /\ conn[client.fd].toS = <<>>
                              /\ conn[client.fd].s \in {"open", "broken"}
    /\ \A i \in client.pushed : conn[i].kind = "data" /\ i # client.fd
    /\ client.pc = "leave" => quit

\* A promise is in the queue or in the manager's hand.
Kept ==
    server.pc # "dead" =>
       IF IsAsking
       THEN \/ sockfds = <<Len(answer)>> /\ server.req = 0
            \/ sockfds = <<>> /\ server.req = Len(answer)
       ELSE sockfds = <<>> /\ server.req = 0

\* Connections are accepted in the order they were dialled.
Order ==
    /\ \A i, j \in DOMAIN backlog : i < j => backlog[i] < backlog[j]
    /\ backlog # <<>> => backlog[Len(backlog)] = Len(conn)
    /\ \A i \in DOMAIN backlog :
          /\ server.conn < backlog[i] /\ server.fd < backlog[i]
          /\ \A r \in DOMAIN answer : answer[r] < backlog[i]
    /\ server.fd # 0 => \A r \in DOMAIN answer : answer[r] < server.fd
    /\ \A r, q \in DOMAIN answer : answer[r] = answer[q] /\ answer[r] > 0 => r = q

-----------------------------------------------------------------------------
(* What the model's operators on connections do. *)

\* What read returns, and what it leaves.
LEMMA ReadResult ==
  ASSUME NEW S \in SUBSET Messages, NEW q \in Seq(S), NEW end \in EndStates,
         NEW m \in Results(q, end)
  PROVE  /\ Rest(q, m) \in Seq(S)
         /\ m = Error <=> q = <<>> /\ end = "broken"
         /\ m # Error => m \in Seq(S)
         /\ q = <<>> => /\ Rest(q, m) = <<>> /\ end # "open"
                        /\ end # "broken" => m = <<>>
         /\ q # <<>> => m # <<>> /\ m[1] = q[1]
         /\ Len(q) = 1 => m = q /\ Rest(q, m) = <<>>
<1>1. CASE q = <<>>
  <2>1. Len(q) = 0
    BY <1>1
  <2>2. m = IF end = "broken" THEN Error ELSE <<>>
    BY <1>1 DEF Results, EndStates
  <2>3. end # "open"
    BY <1>1 DEF Results, EndStates
  <2>4. Error # <<>> /\ Len(Error) = 1
    BY DEF Error
  <2>5. Rest(q, m) = <<>>
    BY <1>1, <2>2, <2>4 DEF Rest
  <2>6. m = Error <=> end = "broken"
    BY <2>2, <2>4
  <2>7. <<>> \in Seq(S) /\ (m # Error => m = <<>>)
    BY <2>2
  <2>8. Len(q) # 1
    BY <2>1
  <2> QED BY <1>1, <2>3, <2>5, <2>6, <2>7, <2>8, Zenon
<1>2. CASE q # <<>>
  <2>1. PICK n \in 1 .. Len(q) : m = SubSeq(q, 1, n)
    BY <1>2 DEF Results, Prefixes
  <2>2. PICK l \in Nat : l = Len(q)
    OBVIOUS
  <2>3. m \in Seq(S) /\ Len(m) = n /\ m # <<>>
    BY <2>1, <2>2
  <2>4. m[1] = q[1] /\ q[1] \in S
    BY <2>1, <2>2
  <2>5. m # Error
    <3>1. Error[1] = <<"error", 0>>
      BY DEF Error
    <3>2. <<"error", 0>> \notin Messages
      BY DEF Messages
    <3> QED BY <2>4, <3>1, <3>2
  <2>6. Rest(q, m) \in Seq(S)
    BY <2>1, <2>2, <2>3 DEF Rest
  <2>7. Len(q) = 1 => m = q /\ Rest(q, m) = <<>>
    BY <2>1, <2>2, <2>3 DEF Rest
  <2> QED BY <1>2, <2>3, <2>4, <2>5, <2>6, <2>7
<1> QED BY <1>1, <1>2

\* The rest of a queue.
LEMMA Tails ==
  ASSUME NEW S, NEW q \in Seq(S), q # <<>>
  PROVE  /\ Tail(q) \in Seq(S) /\ Head(q) = q[1] /\ 1 \in DOMAIN q /\ q[1] \in S
         /\ Len(q) \in Nat /\ Len(Tail(q)) = Len(q) - 1
         /\ \A j \in DOMAIN Tail(q) : j + 1 \in DOMAIN q /\ Tail(q)[j] = q[j + 1]
<1>1. PICK n \in Nat : n = Len(q) /\ n # 0 /\ DOMAIN q = 1 .. n
  OBVIOUS
<1>2. Tail(q) \in Seq(S) /\ Len(Tail(q)) = n - 1 /\ DOMAIN Tail(q) = 1 .. n - 1
  BY <1>1
<1> QED BY <1>1, <1>2

\* A queue with one more.
LEMMA Appended ==
  ASSUME NEW S, NEW q \in Seq(S), NEW a \in S
  PROVE  /\ Append(q, a) \in Seq(S) /\ Len(q) \in Nat
         /\ Len(Append(q, a)) = Len(q) + 1 /\ Append(q, a) # <<>>
         /\ DOMAIN Append(q, a) = DOMAIN q \cup {Len(q) + 1}
         /\ Append(q, a)[Len(q) + 1] = a
         /\ \A j \in DOMAIN q : Append(q, a)[j] = q[j] /\ j <= Len(q) /\ j # Len(q) + 1
<1>1. PICK n \in Nat : n = Len(q) /\ DOMAIN q = 1 .. n
  OBVIOUS
<1>2. /\ Append(q, a) \in Seq(S) /\ Len(Append(q, a)) = n + 1
      /\ Append(q, a)[n + 1] = a /\ \A j \in 1 .. n : Append(q, a)[j] = q[j]
  BY <1>1
<1>3. DOMAIN Append(q, a) = 1 .. n + 1 /\ Append(q, a) # <<>>
  BY <1>1, <1>2
<1> QED BY <1>1, <1>2, <1>3

\* A connection of which something was read.
LEMMA HasFields ==
  ASSUME NEW x \in Connections
  PROVE  /\ \A q \in Seq(ToServer(x.kind)) : LET y == [x EXCEPT !.toS = q] IN
               /\ y \in Connections /\ y.kind = x.kind /\ y.req = x.req
               /\ y.toS = q /\ y.toC = x.toC /\ y.s = x.s /\ y.c = x.c
         /\ \A q \in Seq(ToClient) : LET y == [x EXCEPT !.toC = q] IN
               /\ y \in Connections /\ y.kind = x.kind /\ y.req = x.req
               /\ y.toC = q /\ y.toS = x.toS /\ y.s = x.s /\ y.c = x.c
<1>1. ToServer(x.kind) \subseteq Messages
  BY DEF ToServer, Messages
<1>2. Seq(ToServer(x.kind)) \subseteq Seq(Messages)
  BY <1>1
<1> QED BY <1>2 DEF Connections

\* The server wrote: the message is on its way, or lost, and a second write to an
\* end that is gone fails.
LEMMA ServerWroteFields ==
  ASSUME NEW x \in Connections, NEW m \in ToClient
  PROVE  LET y == ServerWrote(x, m) IN
         /\ y \in Connections /\ y.kind = x.kind /\ y.req = x.req
         /\ y.toS = x.toS /\ y.c = x.c /\ y.s = AfterWrite(x.s)
         /\ y.toC = IF x.s = "open" /\ x.c # "broken" THEN Append(x.toC, m) ELSE x.toC
<1>1. x.toC \in Seq(ToClient) /\ Append(x.toC, m) \in Seq(ToClient)
  BY DEF Connections
<1>2. AfterWrite(x.s) \in EndStates
  BY DEF AfterWrite, EndStates, Connections
<1> QED BY <1>1, <1>2 DEF Connections, ServerWrote

\* The client wrote.
LEMMA ClientWroteFields ==
  ASSUME NEW x \in Connections, NEW m \in ToServer(x.kind)
  PROVE  LET y == ClientWrote(x, m) IN
         /\ y \in Connections /\ y.kind = x.kind /\ y.req = x.req
         /\ y.toC = x.toC /\ y.s = x.s /\ y.c = AfterWrite(x.c)
         /\ y.toS = IF x.c = "open" /\ x.s # "broken" THEN Append(x.toS, m) ELSE x.toS
<1>1. /\ x.toS \in Seq(ToServer(x.kind)) /\ Append(x.toS, m) \in Seq(ToServer(x.kind))
      /\ m \in Messages /\ Append(x.toS, m) \in Seq(Messages)
  <2>1. ToServer(x.kind) \subseteq Messages
    BY DEF ToServer, Messages
  <2> QED BY <2>1 DEF Connections
<1>2. AfterWrite(x.c) \in EndStates
  BY DEF AfterWrite, EndStates, Connections
<1> QED BY <1>1, <1>2 DEF Connections, ClientWrote

\* One end closed a connection: only what the other end sees changes.
LEMMA ClosedFields ==
  ASSUME NEW x \in Connections
  PROVE  /\ LET y == ServerClosed(x) IN
            /\ y \in Connections /\ y.kind = x.kind /\ y.req = x.req
            /\ y.toS = x.toS /\ y.toC = x.toC /\ y.s = x.s /\ y.c = Left(x.c, x.s, x.toS)
         /\ LET y == ClientClosed(x) IN
            /\ y \in Connections /\ y.kind = x.kind /\ y.req = x.req
            /\ y.toS = x.toS /\ y.toC = x.toC /\ y.c = x.c /\ y.s = Left(x.s, x.c, x.toC)
<1>1. Left(x.c, x.s, x.toS) \in EndStates /\ Left(x.s, x.c, x.toC) \in EndStates
  BY DEF Left, EndStates, Connections
<1> QED BY <1>1 DEF Connections, ServerClosed, ClientClosed

\* One connection of a step is y, the others stay as they are.
Sets(i, y) ==
    /\ i \in DOMAIN conn /\ y \in Connections
    /\ y.kind = conn[i].kind /\ y.req = conn[i].req
    /\ conn' \in Seq(Connections)
    /\ Len(conn') = Len(conn) /\ DOMAIN conn' = DOMAIN conn
    /\ conn'[i] = y /\ \A j \in DOMAIN conn : j # i => conn'[j] = conn[j]

\* EXCEPT at one connection.
LEMMA OneSet ==
  ASSUME conn \in Seq(Connections), NEW i \in DOMAIN conn, NEW y \in Connections,
         y.kind = conn[i].kind, y.req = conn[i].req, conn' = [conn EXCEPT ![i] = y]
  PROVE  Sets(i, y)
<1>1. PICK n \in Nat : n = Len(conn) /\ DOMAIN conn = 1 .. n
  OBVIOUS
<1>2. conn \in [1 .. n -> Connections] /\ conn' \in [1 .. n -> Connections]
  BY <1>1
<1>3. conn' \in Seq(Connections)
  BY <1>2, <1>1
<1>4. Len(conn') = n /\ DOMAIN conn' = 1 .. n
  BY <1>2, <1>3
<1> QED BY <1>1, <1>2, <1>3, <1>4 DEF Sets

\* A process ends: every connection is closed at its end.
AllClosed(Closed(_)) ==
    /\ conn' \in Seq(Connections)
    /\ Len(conn') = Len(conn) /\ DOMAIN conn' = DOMAIN conn
    /\ \A i \in DOMAIN conn : conn'[i] = Closed(conn[i])

\* The end of a process closes its end of every connection.
LEMMA AllEnd ==
  ASSUME conn \in Seq(Connections)
  PROVE  /\ ProcessEnds(ServerClosed) => AllClosed(ServerClosed)
         /\ ProcessEnds(ClientClosed) => AllClosed(ClientClosed)
<1>1. PICK n \in Nat : n = Len(conn) /\ DOMAIN conn = 1 .. n
  OBVIOUS
<1>2. \A i \in 1 .. n : /\ ServerClosed(conn[i]) \in Connections
                        /\ ClientClosed(conn[i]) \in Connections
  BY <1>1, ClosedFields
<1>3. ASSUME ProcessEnds(ServerClosed) PROVE AllClosed(ServerClosed)
  <2>1. conn' = [i \in 1 .. n |-> ServerClosed(conn[i])]
    BY <1>1, <1>3 DEF ProcessEnds
  <2>2. conn' \in [1 .. n -> Connections]
    BY <1>2, <2>1
  <2>3. conn' \in Seq(Connections) /\ Len(conn') = n /\ DOMAIN conn' = 1 .. n
    BY <2>2
  <2> QED BY <1>1, <2>1, <2>3 DEF AllClosed
<1>4. ASSUME ProcessEnds(ClientClosed) PROVE AllClosed(ClientClosed)
  <2>1. conn' = [i \in 1 .. n |-> ClientClosed(conn[i])]
    BY <1>1, <1>4 DEF ProcessEnds
  <2>2. conn' \in [1 .. n -> Connections]
    BY <1>2, <2>1
  <2>3. conn' \in Seq(Connections) /\ Len(conn') = n /\ DOMAIN conn' = 1 .. n
    BY <2>2
  <2> QED BY <1>1, <2>1, <2>3 DEF AllClosed
<1> QED BY <1>3, <1>4

\* A new connection.
Dials(kind, req) ==
    /\ conn' \in Seq(Connections)
    /\ Len(conn') = Len(conn) + 1 /\ DOMAIN conn' = DOMAIN conn \cup {Len(conn) + 1}
    /\ Len(conn) + 1 \notin DOMAIN conn /\ Len(conn') <= MaxConns
    /\ \A i \in DOMAIN conn : conn'[i] = conn[i] /\ i < Len(conn) + 1
    /\ LET y == conn'[Len(conn) + 1] IN
          /\ y.kind = kind /\ y.req = req /\ y.toS = <<>> /\ y.toC = <<>>
          /\ y.s = "open" /\ y.c = "open"

\* A dialled connection is the last one, empty and open, and in the backlog.
LEMMA OneDial ==
  ASSUME conn \in Seq(Connections), NEW kind \in {"control", "data"}, NEW r \in Nat,
         Dial(kind, r, <<>>)
  PROVE  Dials(kind, r) /\ backlog' = Append(backlog, Len(conn) + 1)
<1> DEFINE y == NewConn(kind, r, <<>>)
<1>1. y \in Connections /\ y.kind = kind /\ y.req = r /\ y.toS = <<>> /\ y.toC = <<>>
      /\ y.s = "open" /\ y.c = "open"
  <2>1. /\ <<>> \in Seq(ToServer(kind)) /\ <<>> \in Seq(Messages)
        /\ <<>> \in Seq(ToClient)
    OBVIOUS
  <2> QED BY <2>1 DEF NewConn, Connections, EndStates
<1>2. conn' = Append(conn, y) /\ Len(conn) < MaxConns
  BY DEF Dial
<1> HIDE DEF y
<1>3. PICK n \in Nat : n = Len(conn) /\ DOMAIN conn = 1 .. n
  OBVIOUS
<1>4. conn' \in Seq(Connections) /\ Len(conn') = n + 1 /\ DOMAIN conn' = 1 .. n + 1
  BY <1>1, <1>2, <1>3
<1>5. conn'[n + 1] = y /\ \A i \in 1 .. n : conn'[i] = conn[i]
  BY <1>1, <1>2, <1>3
<1>6. n + 1 <= MaxConns
  BY <1>2, <1>3, ConnectionManagerAssumption
<1>7. \A i \in DOMAIN conn : conn'[i] = conn[i] /\ i < n + 1
  BY <1>3, <1>5
<1> QED BY <1>1, <1>3, <1>4, <1>5, <1>6, <1>7 DEF Dial, Dials
-----------------------------------------------------------------------------
(* Types, and what each manager has in its hand. *)

Base == Types /\ Numbers /\ Hands /\ Kept

\* The promise at hand is the one that is not fulfilled.
LEMMA AtHand ==
  ASSUME Base, server.pc # "dead", server.req # 0
  PROVE  /\ IsAsking /\ server.req = Len(answer) /\ sockfds = <<>>
         /\ server.req \in DOMAIN answer /\ answer[server.req] = Pending
<1>1. IsAsking /\ server.req = Len(answer) /\ sockfds = <<>>
  BY DEF Base, Kept
<1>2. answer \in Seq(Int) /\ answer # <<>> /\ answer[Len(answer)] = Pending
  BY <1>1 DEF Base, Types, IsAsking
<1>3. Len(answer) \in DOMAIN answer
  BY <1>2
<1> QED BY <1>1, <1>2, <1>3

\* The messages that are sent.
LEMMA Sent ==
  /\ \A k \in {"challenge", "success", "CONNECT"}, n \in Nat : <<k, n>> \in ToClient
  /\ \A k \in {"answer", "ready", "token", "logout"}, n \in Nat :
        <<k, n>> \in ToServer("control")
  /\ \A k \in {"token", "payload"}, n \in Nat : <<k, n>> \in ToServer("data")
  /\ ToClient \subseteq Messages
  /\ \A k \in {"control", "data"} : ToServer(k) \subseteq Messages
  /\ \A m \in Messages : m[2] \in Nat
  BY DEF ToClient, ToServer, Messages

\* Nothing has happened yet.
LEMMA InitBase == Init => Base
<1> SUFFICES ASSUME Init PROVE Base
  OBVIOUS
<1>1. Types
  <2>1. conn = <<>> /\ conn \in Seq(Connections) /\ Len(conn) <= MaxConns
    BY ConnectionManagerAssumption DEF Init
  <2>2. /\ backlog \in Seq(Nat) /\ sockfds \in Seq(Nat) /\ answer \in Seq(Int)
        /\ <<>> \in Seq(Messages)
    BY DEF Init
  <2>3. server \in Servers /\ client \in Clients
    BY <2>2 DEF Init, NewServer, NewClient, Servers, Clients, NoConnection
  <2> QED BY <2>1, <2>2, <2>3 DEF Init, Types, Counts
<1>2. Numbers
  BY DEF Init, Numbers, NewServer, NewClient, NoConnection
<1>3. Hands
  BY DEF Init, Hands, NewServer, NewClient, NoConnection, Talks
<1>4. Kept
  BY DEF Init, Kept, IsAsking, NewServer
<1> QED BY <1>1, <1>2, <1>3, <1>4 DEF Base

\* What a step of the server may do to connections: it does not write to itself.
Quiet == /\ conn' \in Seq(Connections)
         /\ Len(conn') = Len(conn) /\ DOMAIN conn' = DOMAIN conn
         /\ \A j \in DOMAIN conn :
               /\ conn'[j].kind = conn[j].kind /\ conn'[j].req = conn[j].req
               /\ conn[j].toS = <<>> => conn'[j].toS = <<>>
               /\ conn[j].s \in {"open", "broken"} => conn'[j].s \in {"open", "broken"}

\* What its manager has in its hand after it.
InHand == /\ server' \in Servers
          /\ {server'.conn, server'.fd} \subseteq {0} \cup DOMAIN conn
          /\ server'.pc # "dead" =>
                /\ server'.req # 0 <=> server'.pc \in {"send", "reply", "data", "token"}
                /\ server'.fd # 0 <=> server'.pc = "token"
          /\ server'.pc \in Talks \cup {"answer"} => server'.conn # 0

Given == /\ backlog' \in Seq(Nat) /\ sockfds' \in Seq(Nat) /\ answer' \in Seq(Int)
         /\ \A j \in DOMAIN backlog' : backlog'[j] \in DOMAIN conn
         /\ \A r \in DOMAIN answer' : answer'[r] \in {-1, Gone, 0} \cup DOMAIN conn
         /\ faults' \in Counts

\* What a step of the server has to keep for Base.
LEMMA ServerBase ==
  ASSUME Base, Quiet, InHand, Given, Kept', UNCHANGED <<client, quit, wake>>
  PROVE  Base'
<1>1. Types'
  BY DEF Base, Types, Quiet, InHand, Given
<1>2. Numbers'
  BY DEF Base, Numbers, Quiet, InHand, Given
<1>3. Hands'
  <2>1. {client.fd, client.conn} \subseteq {0} \cup DOMAIN conn
        /\ client.pushed \subseteq DOMAIN conn
    BY DEF Base, Numbers
  <2> QED BY <2>1 DEF Base, Hands, Quiet, InHand
<1> QED BY <1>1, <1>2, <1>3 DEF Base

\* What is there before a step of the server.
LEMMA BaseFacts ==
  ASSUME Base
  PROVE  /\ conn \in Seq(Connections) /\ server \in Servers /\ client \in Clients
         /\ backlog \in Seq(Nat) /\ sockfds \in Seq(Nat) /\ answer \in Seq(Int)
         /\ \A j \in DOMAIN backlog : backlog[j] \in DOMAIN conn
         /\ {server.conn, server.fd, client.conn, client.fd} \subseteq {0} \cup DOMAIN conn
         /\ \A j \in DOMAIN conn : /\ conn[j] \in Connections /\ j # 0 /\ j \in Nat
         /\ \A r \in DOMAIN answer : answer[r] \in {-1, Gone, 0} \cup DOMAIN conn
         /\ server.pc # "dead" =>
                /\ server.req # 0 <=> server.pc \in {"send", "reply", "data", "token"}
                /\ server.fd # 0 <=> server.pc = "token"
         /\ server.pc \in Talks \cup {"answer"} => server.conn # 0
         /\ faults \in Counts
<1>1. \A j \in DOMAIN conn : conn[j] \in Connections /\ j # 0 /\ j \in Nat
  BY DEF Base, Types
<1>2. /\ conn \in Seq(Connections) /\ server \in Servers /\ client \in Clients
      /\ backlog \in Seq(Nat) /\ sockfds \in Seq(Nat) /\ answer \in Seq(Int)
      /\ faults \in Counts
  BY DEF Base, Types
<1>3. /\ \A j \in DOMAIN backlog : backlog[j] \in DOMAIN conn
      /\ {server.conn, server.fd, client.conn, client.fd} \subseteq {0} \cup DOMAIN conn
      /\ \A r \in DOMAIN answer : answer[r] \in {-1, Gone, 0} \cup DOMAIN conn
  BY DEF Base, Numbers
<1>4. /\ server.pc # "dead" =>
             /\ server.req # 0 <=> server.pc \in {"send", "reply", "data", "token"}
             /\ server.fd # 0 <=> server.pc = "token"
      /\ server.pc \in Talks \cup {"answer"} => server.conn # 0
  BY DEF Base, Hands
<1> QED BY <1>1, <1>2, <1>3, <1>4

\* A step of the server on one connection.
LEMMA SetsQuiet ==
  ASSUME NEW i, NEW y, Sets(i, y),
         conn[i].toS = <<>> => y.toS = <<>>,
         conn[i].s \in {"open", "broken"} => y.s \in {"open", "broken"}
  PROVE  Quiet
  BY DEF Sets, Quiet

\* The end of the server process.
LEMMA ClosedQuiet ==
  ASSUME conn \in Seq(Connections), AllClosed(ServerClosed)
  PROVE  Quiet
<1>1. \A i \in DOMAIN conn : conn[i] \in Connections
  OBVIOUS
<1> QED BY <1>1, ClosedFields DEF AllClosed, Quiet

\* accept and the challenge.
LEMMA AcceptStep ==
  ASSUME Base, ServerAccept
  PROVE  /\ Base'
         /\ LET i == Head(backlog)
                y == ServerWrote(conn[i], <<"challenge", 0>>)
            IN  /\ i \in DOMAIN conn /\ i = backlog[1] /\ Sets(i, y)
                /\ server'.conn = i /\ server'.pc = "answer"
                /\ server'.req = 0 /\ server'.fd = 0 /\ server'.res = server.res
<1> DEFINE i == Head(backlog)
           y == ServerWrote(conn[i], <<"challenge", 0>>)
<1>1. /\ backlog \in Seq(Nat) /\ backlog # <<>> /\ server.pc = "accept"
      /\ i \in DOMAIN conn /\ i # 0 /\ i = backlog[1]
  BY BaseFacts DEF ServerAccept
<1>2. Sets(i, y) /\ y.toS = conn[i].toS /\ y.s = AfterWrite(conn[i].s)
  <2>1. conn' = [conn EXCEPT ![i] = y]
    BY DEF ServerAccept
  <2>2. conn \in Seq(Connections) /\ conn[i] \in Connections
    BY <1>1, BaseFacts
  <2> QED BY <1>1, <2>1, <2>2, Sent, ServerWroteFields, OneSet
<1>3. Quiet
  BY <1>2, SetsQuiet DEF AfterWrite
<1>4. /\ server' = [server EXCEPT !.pc = "answer", !.conn = i]
      /\ server \in Servers /\ i \in Nat /\ server.req = 0 /\ server.fd = 0
  BY <1>1, BaseFacts DEF ServerAccept, Servers
<1>5. /\ server' \in Servers /\ server'.pc = "answer" /\ server'.conn = i
      /\ server'.req = 0 /\ server'.fd = 0 /\ server'.res = server.res
  BY <1>4 DEF Servers
<1>6. InHand
  BY <1>1, <1>5 DEF InHand
<1>7. Given
  <2>1. backlog' \in Seq(Nat) /\ \A j \in DOMAIN backlog' : backlog'[j] \in DOMAIN conn
    <3>1. backlog \in Seq(Nat) /\ backlog # <<>> /\ backlog' = Tail(backlog)
      BY BaseFacts DEF ServerAccept
    <3>2. \A j \in DOMAIN backlog : backlog[j] \in DOMAIN conn
      BY BaseFacts
    <3> QED BY <3>1, <3>2, Tails
  <2> QED BY <2>1, BaseFacts DEF Given, ServerAccept, serverKeeps
<1>8. Kept'
  BY <1>1, <1>4, <1>5 DEF Base, Kept, IsAsking, ServerAccept
<1>9. UNCHANGED <<client, quit, wake>>
  BY DEF ServerAccept, serverKeeps
<1> HIDE DEF i, y
<1>10. Base'
  BY <1>3, <1>6, <1>7, <1>8, <1>9, ServerBase
<1> QED BY <1>1, <1>2, <1>5, <1>10 DEF i, y

\* What read returns of a connection.
LEMMA ServerReads ==
  ASSUME Base, NEW k \in DOMAIN conn, NEW m \in Results(conn[k].toS, conn[k].s)
  PROVE  LET x == conn[k]
             y == [x EXCEPT !.toS = Rest(@, m)]
         IN  /\ x \in Connections /\ x.toS \in Seq(ToServer(x.kind))
             /\ y \in Connections /\ y.kind = x.kind /\ y.req = x.req
             /\ y.toS = Rest(x.toS, m) /\ y.toC = x.toC /\ y.s = x.s /\ y.c = x.c
             /\ m = Error <=> x.toS = <<>> /\ x.s = "broken"
             /\ m # Error => m \in Seq(ToServer(x.kind)) /\ m \in Seq(Messages)
             /\ x.toS = <<>> => /\ y.toS = <<>> /\ x.s # "open"
                                /\ x.s # "broken" => m = <<>>
             /\ x.toS # <<>> => m # <<>> /\ m[1] = x.toS[1]
             /\ Len(x.toS) = 1 => m = x.toS /\ y.toS = <<>>
<1> DEFINE x == conn[k]
<1>1. x \in Connections /\ x.toS \in Seq(ToServer(x.kind)) /\ x.s \in EndStates
  BY BaseFacts DEF Connections
<1>2. ToServer(x.kind) \in SUBSET Messages
  BY <1>1, Sent DEF Connections
<1> HIDE DEF x
<1>3. m \in Results(x.toS, x.s)
  BY DEF x
<1>4. /\ Rest(x.toS, m) \in Seq(ToServer(x.kind))
      /\ m = Error <=> x.toS = <<>> /\ x.s = "broken"
      /\ m # Error => m \in Seq(ToServer(x.kind))
      /\ x.toS = <<>> => /\ Rest(x.toS, m) = <<>> /\ x.s # "open"
                         /\ x.s # "broken" => m = <<>>
      /\ x.toS # <<>> => m # <<>> /\ m[1] = x.toS[1]
      /\ Len(x.toS) = 1 => m = x.toS /\ Rest(x.toS, m) = <<>>
  BY <1>1, <1>2, <1>3, ReadResult
<1>5. m # Error => m \in Seq(Messages)
  BY <1>2, <1>4
<1>6. LET y == [x EXCEPT !.toS = Rest(@, m)] IN
             /\ y \in Connections /\ y.kind = x.kind /\ y.req = x.req
             /\ y.toS = Rest(x.toS, m) /\ y.toC = x.toC /\ y.s = x.s /\ y.c = x.c
  BY <1>1, <1>4, HasFields
<1> QED BY <1>1, <1>4, <1>5, <1>6 DEF x

\* The same at the other end.
LEMMA ClientReads ==
  ASSUME Base, NEW k \in DOMAIN conn, NEW m \in Results(conn[k].toC, conn[k].c)
  PROVE  LET x == conn[k]
             y == [x EXCEPT !.toC = Rest(@, m)]
         IN  /\ x \in Connections /\ x.toC \in Seq(ToClient)
             /\ y \in Connections /\ y.kind = x.kind /\ y.req = x.req
             /\ y.toC = Rest(x.toC, m) /\ y.toS = x.toS /\ y.s = x.s /\ y.c = x.c
             /\ m = Error <=> x.toC = <<>> /\ x.c = "broken"
             /\ m # Error => m \in Seq(ToClient)
             /\ x.toC = <<>> => /\ y.toC = <<>> /\ x.c # "open"
                                /\ x.c # "broken" => m = <<>>
             /\ x.toC # <<>> => m # <<>> /\ m[1] = x.toC[1]
             /\ Len(x.toC) = 1 => m = x.toC /\ y.toC = <<>>
<1> DEFINE x == conn[k]
<1>1. x \in Connections /\ x.toC \in Seq(ToClient) /\ x.c \in EndStates
  BY BaseFacts DEF Connections
<1>2. ToClient \in SUBSET Messages
  BY Sent
<1> HIDE DEF x
<1>3. m \in Results(x.toC, x.c)
  BY DEF x
<1>4. /\ Rest(x.toC, m) \in Seq(ToClient)
      /\ m = Error <=> x.toC = <<>> /\ x.c = "broken"
      /\ m # Error => m \in Seq(ToClient)
      /\ x.toC = <<>> => /\ Rest(x.toC, m) = <<>> /\ x.c # "open"
                         /\ x.c # "broken" => m = <<>>
      /\ x.toC # <<>> => m # <<>> /\ m[1] = x.toC[1]
      /\ Len(x.toC) = 1 => m = x.toC /\ Rest(x.toC, m) = <<>>
  BY <1>1, <1>2, <1>3, ReadResult
<1>5. LET y == [x EXCEPT !.toC = Rest(@, m)] IN
             /\ y \in Connections /\ y.kind = x.kind /\ y.req = x.req
             /\ y.toC = Rest(x.toC, m) /\ y.toS = x.toS /\ y.s = x.s /\ y.c = x.c
  BY <1>1, <1>4, HasFields
<1> QED BY <1>1, <1>4, <1>5 DEF x

\* The server process dies, or is told to.
LEMMA DiesStep ==
  ASSUME Base, server.pc # "dead", ServerDies, UNCHANGED <<backlog, sockfds, answer>>,
         UNCHANGED <<client, quit, wake>>,
         faults' \in Counts
  PROVE  /\ Base' /\ AllClosed(ServerClosed) /\ server'.pc = "dead"
         /\ server'.conn = server.conn /\ server'.fd = server.fd
<1>1. AllClosed(ServerClosed) /\ Quiet
  BY AllEnd, ClosedQuiet, BaseFacts DEF ServerDies
<1>2. /\ server' \in Servers /\ server'.pc = "dead"
      /\ server'.conn = server.conn /\ server'.fd = server.fd
  BY BaseFacts DEF ServerDies, Servers
<1>3. InHand
  BY <1>2, BaseFacts DEF InHand, Talks
<1>4. Given
  BY BaseFacts DEF Given
<1>5. Kept'
  BY <1>2 DEF Kept
<1> QED BY <1>1, <1>2, <1>3, <1>4, <1>5, ServerBase

\* The answer to the challenge.
AnswerFields(y) ==
    LET x == conn[server.conn] IN
    /\ Sets(server.conn, y)
    /\ x.toS # <<>> \/ x.s \in {"fin", "gone"}
    /\ x.toS = <<>> \/ Len(x.toS) = 1 => y.toS = <<>>
    /\ \/ /\ x.toS # <<>> /\ x.toS[1] = <<"answer", 0>>
          /\ y.s = AfterWrite(x.s) /\ y.c = x.c
          /\ y.toC = IF x.s = "open" /\ x.c # "broken"
                     THEN Append(x.toC, <<"success", 0>>) ELSE x.toC
          /\ server' = [server EXCEPT !.pc = "ready"]
       \/ /\ x.toS = <<>> \/ x.toS[1] # <<"answer", 0>>
          /\ y.s = x.s /\ y.c = Left(x.c, x.s, y.toS) /\ y.toC = x.toC
          /\ server' = [server EXCEPT !.pc = "accept"]

\* ServerAnswer, case by case.
LEMMA AnswerFacts ==
  ASSUME Base, ServerAnswer
  PROVE  /\ server.pc = "answer" /\ server.conn \in DOMAIN conn
         /\ \/ /\ conn[server.conn].toS = <<>> /\ conn[server.conn].s = "broken"
               /\ ServerDies
            \/ \E y : AnswerFields(y)
         /\ UNCHANGED <<backlog, sockfds, answer, client, quit, wake, faults>>
<1> DEFINE k == server.conn
           x == conn[k]
<1>1. server.pc = "answer" /\ k \in DOMAIN conn
  BY BaseFacts DEF ServerAnswer
<1>2. PICK m \in Results(x.toS, x.s) :
        LET read == [x EXCEPT !.toS = Rest(@, m)] IN
          CASE m = Error -> ServerDies
            [] m # Error /\ m # <<>> /\ m[1] = <<"answer", 0>> ->
                  /\ conn' = [conn EXCEPT ![k] = ServerWrote(read, <<"success", 0>>)]
                  /\ server' = [server EXCEPT !.pc = "ready"]
            [] OTHER ->
                  /\ conn' = [conn EXCEPT ![k] = ServerClosed(read)]
                  /\ server' = [server EXCEPT !.pc = "accept"]
  BY DEF ServerAnswer
<1> DEFINE read == [x EXCEPT !.toS = Rest(@, m)]
<1>3. /\ x \in Connections /\ x.toS \in Seq(ToServer(x.kind))
      /\ read \in Connections /\ read.kind = x.kind /\ read.req = x.req
      /\ read.toS = Rest(x.toS, m) /\ read.toC = x.toC /\ read.s = x.s /\ read.c = x.c
      /\ m = Error <=> x.toS = <<>> /\ x.s = "broken"
      /\ x.toS = <<>> => /\ read.toS = <<>> /\ x.s # "open"
                         /\ x.s # "broken" => m = <<>>
      /\ x.toS # <<>> => m # <<>> /\ m[1] = x.toS[1]
      /\ Len(x.toS) = 1 => read.toS = <<>>
  BY <1>1, ServerReads
<1>3a. x.s \in EndStates
  BY <1>3 DEF Connections
<1>4. UNCHANGED <<backlog, sockfds, answer, client, quit, wake, faults>>
  BY DEF ServerAnswer, serverKeeps
<1>5. conn \in Seq(Connections)
  BY BaseFacts
<1>6. \/ m = Error /\ ServerDies
      \/ /\ m # Error /\ m # <<>> /\ m[1] = <<"answer", 0>>
         /\ conn' = [conn EXCEPT ![k] = ServerWrote(read, <<"success", 0>>)]
         /\ server' = [server EXCEPT !.pc = "ready"]
      \/ /\ m # Error /\ (m = <<>> \/ m[1] # <<"answer", 0>>)
         /\ conn' = [conn EXCEPT ![k] = ServerClosed(read)]
         /\ server' = [server EXCEPT !.pc = "accept"]
  BY <1>2
<1> HIDE DEF k, x, read
<1>7. CASE m = Error /\ ServerDies
  BY <1>1, <1>3, <1>4, <1>7 DEF k, x
<1>8. CASE /\ m # Error /\ m # <<>> /\ m[1] = <<"answer", 0>>
           /\ conn' = [conn EXCEPT ![k] = ServerWrote(read, <<"success", 0>>)]
           /\ server' = [server EXCEPT !.pc = "ready"]
  <2> DEFINE y == ServerWrote(read, <<"success", 0>>)
  <2>1. /\ y \in Connections /\ y.kind = read.kind /\ y.req = read.req
        /\ y.toS = read.toS /\ y.c = read.c /\ y.s = AfterWrite(read.s)
        /\ y.toC = IF read.s = "open" /\ read.c # "broken"
                   THEN Append(read.toC, <<"success", 0>>) ELSE read.toC
    BY <1>3, Sent, ServerWroteFields
  <2> HIDE DEF y
  <2>2. Sets(k, y)
    BY <1>1, <1>3, <1>5, <1>8, <2>1, OneSet DEF x, y
  <2>3. x.toS # <<>>
    BY <1>3, <1>8, <1>3a DEF EndStates
  <2>4. AnswerFields(y)
    BY <1>3, <1>3a, <1>8, <2>1, <2>2, <2>3 DEF AnswerFields, k, x
  <2> QED BY <1>1, <1>4, <2>4 DEF k
<1>9. CASE /\ m # Error /\ (m = <<>> \/ m[1] # <<"answer", 0>>)
           /\ conn' = [conn EXCEPT ![k] = ServerClosed(read)]
           /\ server' = [server EXCEPT !.pc = "accept"]
  <2> DEFINE y == ServerClosed(read)
  <2>1. /\ y \in Connections /\ y.kind = read.kind /\ y.req = read.req
        /\ y.toS = read.toS /\ y.toC = read.toC /\ y.s = read.s
        /\ y.c = Left(read.c, read.s, read.toS)
    BY <1>3, ClosedFields
  <2> HIDE DEF y
  <2>2. Sets(k, y)
    BY <1>1, <1>3, <1>5, <1>9, <2>1, OneSet DEF x, y
  <2>3. /\ x.toS # <<>> \/ x.s \in {"fin", "gone"}
        /\ x.toS = <<>> \/ x.toS[1] # <<"answer", 0>>
    BY <1>3, <1>3a, <1>9 DEF EndStates
  <2>4. AnswerFields(y)
    BY <1>3, <1>3a, <1>9, <2>1, <2>2, <2>3 DEF AnswerFields, k, x
  <2> QED BY <1>1, <1>4, <2>4 DEF k
<1> QED BY <1>6, <1>7, <1>8, <1>9

\* The handshake goes on, starts again with the next connection, or ends the
\* process.
LEMMA AnswerStep ==
  ASSUME Base, ServerAnswer
  PROVE  Base'
<1>1. /\ server.pc = "answer" /\ server.conn \in DOMAIN conn /\ server \in Servers
      /\ server.req = 0 /\ server.fd = 0 /\ server.conn # 0
      /\ UNCHANGED <<backlog, sockfds, answer, client, quit, wake, faults>>
  BY AnswerFacts, BaseFacts
<1>2. CASE ServerDies
  <2>1. faults' \in Counts
    BY <1>1, BaseFacts
  <2> QED BY <1>1, <1>2, <2>1, DiesStep
<1>3. CASE \E y : AnswerFields(y)
  <2>1. PICK y : AnswerFields(y)
    BY <1>3
  <2>2. Quiet
    BY <2>1, SetsQuiet DEF AnswerFields, AfterWrite
  <2>3. /\ server' \in Servers /\ server'.pc \in {"ready", "accept"}
        /\ server'.conn = server.conn /\ server'.req = 0 /\ server'.fd = 0
    BY <1>1, <2>1 DEF AnswerFields, Servers, Talks
  <2>4. InHand
    BY <1>1, <2>3 DEF InHand
  <2>5. Given
    BY <1>1, BaseFacts DEF Given
  <2>6. Kept'
    BY <1>1, <2>3 DEF Base, Kept, IsAsking
  <2> QED BY <1>1, <2>2, <2>4, <2>5, <2>6, ServerBase
<1> QED BY <1>2, <1>3, AnswerFacts

\* "ready", or anything else.
ReadyFields(y) ==
    LET x == conn[server.conn] IN
    /\ Sets(server.conn, y)
    /\ x.toS # <<>> \/ x.s # "open"
    /\ x.toS = <<>> \/ Len(x.toS) = 1 => y.toS = <<>>
    /\ y.toC = x.toC /\ y.s = x.s /\ y.c = x.c

\* Whatever is read, the manager goes on to the queue.
LEMMA ReadyStep ==
  ASSUME Base, ServerReady
  PROVE  /\ Base'
         /\ server.pc = "ready" /\ server.conn \in DOMAIN conn
         /\ \E y : ReadyFields(y)
         /\ server' = [server EXCEPT !.pc = "pop"]
         /\ UNCHANGED <<backlog, sockfds, answer, client, quit, wake, faults>>
<1> DEFINE k == server.conn
           x == conn[k]
<1>1. /\ server.pc = "ready" /\ server.conn \in DOMAIN conn /\ server \in Servers
      /\ server.req = 0 /\ server.fd = 0 /\ server.conn # 0
      /\ server' = [server EXCEPT !.pc = "pop"]
      /\ UNCHANGED <<backlog, sockfds, answer, client, quit, wake, faults>>
  BY BaseFacts DEF ServerReady, serverKeeps, Talks
<1>2. PICK m \in Results(x.toS, x.s) : conn' = [conn EXCEPT ![k].toS = Rest(@, m)]
  BY DEF ServerReady
<1> DEFINE y == [x EXCEPT !.toS = Rest(@, m)]
<1>3. /\ y \in Connections /\ y.kind = x.kind /\ y.req = x.req
      /\ y.toC = x.toC /\ y.s = x.s /\ y.c = x.c
      /\ x.toS = <<>> => y.toS = <<>> /\ x.s # "open"
      /\ Len(x.toS) = 1 => y.toS = <<>>
  BY <1>1, ServerReads
<1>4. conn' = [conn EXCEPT ![k] = y]
  BY <1>2
<1> HIDE DEF y
<1>5. Sets(k, y)
  BY <1>1, <1>3, <1>4, OneSet, BaseFacts
<1>6. ReadyFields(y)
  BY <1>3, <1>5 DEF ReadyFields
<1>7. Quiet
  BY <1>3, <1>5, SetsQuiet
<1>8. /\ server' \in Servers /\ server'.pc = "pop"
      /\ server'.conn = server.conn /\ server'.req = 0 /\ server'.fd = 0
  BY <1>1 DEF Servers, Talks
<1>9. InHand
  BY <1>1, <1>8 DEF InHand
<1>10. Given
  BY <1>1, BaseFacts DEF Given
<1>11. Kept'
  BY <1>1, <1>8 DEF Base, Kept, IsAsking
<1>12. Base'
  BY <1>1, <1>7, <1>9, <1>10, <1>11, ServerBase
<1> QED BY <1>1, <1>6, <1>12

\* The promise goes from the queue into the manager's hand.
LEMMA PopStep ==
  ASSUME Base, ServerPop
  PROVE  /\ Base' /\ IsAsking
         /\ server.pc = "pop"
         /\ server' = [server EXCEPT !.pc = "send", !.req = Len(answer)]
         /\ UNCHANGED <<conn, backlog, answer, client, quit, wake, faults>>
<1>1. /\ server.pc = "pop" /\ server \in Servers /\ sockfds # <<>>
      /\ server.req = 0 /\ server.fd = 0 /\ server.conn # 0
      /\ server' = [server EXCEPT !.pc = "send", !.req = Head(sockfds)]
      /\ sockfds' = Tail(sockfds)
      /\ UNCHANGED <<conn, backlog, answer, client, quit, wake, faults>>
  BY BaseFacts DEF ServerPop, serverKeeps, Talks
<1>2. IsAsking /\ sockfds = <<Len(answer)>> /\ Head(sockfds) = Len(answer)
      /\ Tail(sockfds) = <<>> /\ Len(answer) # 0 /\ Len(answer) \in Nat
  <2>1. sockfds = <<Len(answer)>> /\ IsAsking
    BY <1>1 DEF Base, Kept
  <2>2. Head(sockfds) = Len(answer) /\ Tail(sockfds) = <<>>
    BY <2>1
  <2>3. Len(answer) # 0 /\ Len(answer) \in Nat
    BY <2>1, BaseFacts DEF IsAsking
  <2> QED BY <2>1, <2>2, <2>3
<1>3. Quiet
  BY <1>1, BaseFacts DEF Quiet
<1>4. /\ server' \in Servers /\ server'.pc = "send" /\ server'.req = Len(answer)
      /\ server'.conn = server.conn /\ server'.fd = 0
  BY <1>1, <1>2 DEF Servers, Talks
<1>5. InHand
  BY <1>1, <1>2, <1>4, BaseFacts DEF InHand
<1>6. sockfds' = <<>> /\ sockfds' \in Seq(Nat)
  BY <1>1, <1>2
<1>7. Given
  BY <1>1, <1>6, BaseFacts DEF Given
<1>8. Kept'
  BY <1>1, <1>2, <1>4, <1>6 DEF Kept, IsAsking
<1>9. Base'
  BY <1>1, <1>3, <1>5, <1>7, <1>8, ServerBase
<1> QED BY <1>1, <1>2, <1>9

\* brokenPipe: the promise goes back to the queue.
PipeFields(y) ==
    LET x == conn[server.conn] IN
    /\ Sets(server.conn, y)
    /\ y.toC = x.toC /\ y.toS = x.toS /\ y.s = x.s /\ y.c = Left(x.c, x.s, x.toS)

\* It goes back into the queue, behind nothing.
LEMMA BrokenPipeStep ==
  ASSUME Base, server.pc \in {"send", "reply"}, BrokenPipe,
         UNCHANGED <<backlog, answer, client, quit, wake, faults>>
  PROVE  /\ Base' /\ \E y : PipeFields(y)
         /\ server' = [server EXCEPT !.pc = "accept", !.req = 0]
<1> DEFINE k == server.conn
           x == conn[k]
           y == ServerClosed(x)
<1>1. /\ k \in DOMAIN conn /\ server \in Servers /\ conn \in Seq(Connections)
      /\ server.req # 0 /\ server.fd = 0 /\ k # 0 /\ x \in Connections
      /\ server' = [server EXCEPT !.pc = "accept", !.req = 0]
      /\ sockfds' = Append(sockfds, server.req)
      /\ conn' = [conn EXCEPT ![k] = y]
  BY BaseFacts DEF BrokenPipe, Close, Talks
<1>2. IsAsking /\ server.req = Len(answer) /\ sockfds = <<>> /\ Len(answer) \in Nat
  BY <1>1, AtHand, BaseFacts
<1>3. /\ y \in Connections /\ y.kind = x.kind /\ y.req = x.req
      /\ y.toS = x.toS /\ y.toC = x.toC /\ y.s = x.s /\ y.c = Left(x.c, x.s, x.toS)
  BY <1>1, ClosedFields
<1> HIDE DEF y
<1>4. Sets(k, y)
  BY <1>1, <1>3, OneSet
<1>5. PipeFields(y)
  BY <1>3, <1>4 DEF PipeFields
<1>6. Quiet
  BY <1>3, <1>4, SetsQuiet
<1>7. /\ server' \in Servers /\ server'.pc = "accept" /\ server'.req = 0
      /\ server'.conn = server.conn /\ server'.fd = 0
  BY <1>1 DEF Servers, Talks
<1>8. InHand
  BY <1>1, <1>7, BaseFacts DEF InHand, Talks
<1>9. sockfds' = <<Len(answer)>> /\ sockfds' \in Seq(Nat)
  BY <1>1, <1>2
<1>10. Given
  BY <1>9, BaseFacts DEF Given
<1>11. Kept'
  BY <1>2, <1>7, <1>9 DEF Kept, IsAsking
<1>12. Base'
  BY <1>6, <1>8, <1>10, <1>11, ServerBase
<1> QED BY <1>1, <1>5, <1>12

SendFields(y) ==
    LET x == conn[server.conn] IN
    /\ Sets(server.conn, y)
    /\ y.toS = x.toS /\ y.s = AfterWrite(x.s) /\ y.c = x.c
    /\ y.toC = IF x.s = "open" /\ x.c # "broken"
               THEN Append(x.toC, <<"CONNECT", server.req>>) ELSE x.toC

\* CONNECT, or brokenPipe when the write fails.
LEMMA SendStep ==
  ASSUME Base, ServerSend
  PROVE  /\ Base' /\ server.pc = "send" /\ server.conn \in DOMAIN conn
         /\ LET x == conn[server.conn] IN
            \/ /\ Fails(x.s) /\ \E y : PipeFields(y)
               /\ server' = [server EXCEPT !.pc = "accept", !.req = 0]
            \/ /\ ~Fails(x.s) /\ \E y : SendFields(y)
               /\ server' = [server EXCEPT !.pc = "reply"]
         /\ UNCHANGED <<backlog, answer, client, quit, wake, faults>>
<1> DEFINE k == server.conn
           x == conn[k]
           y == ServerWrote(x, <<"CONNECT", server.req>>)
<1>1. /\ k \in DOMAIN conn /\ server \in Servers /\ conn \in Seq(Connections)
      /\ server.req # 0 /\ server.req \in Nat /\ server.fd = 0 /\ k # 0 /\ x \in Connections
      /\ server.pc = "send"
      /\ UNCHANGED <<backlog, answer, client, quit, wake, faults>>
  BY BaseFacts DEF ServerSend, serverKeeps, Talks, Servers
<1>2. CASE Fails(x.s)
  <2>1. BrokenPipe
    BY <1>2 DEF ServerSend
  <2>2. UNCHANGED <<backlog, answer, client, quit, wake, faults>>
    BY <1>1
  <2> QED BY <1>1, <1>2, <2>1, <2>2, BrokenPipeStep
<1>3. CASE ~Fails(x.s)
  <2>1. /\ conn' = [conn EXCEPT ![k] = y]
        /\ server' = [server EXCEPT !.pc = "reply"]
        /\ sockfds' = sockfds
    BY <1>3 DEF ServerSend
  <2>2. /\ y \in Connections /\ y.kind = x.kind /\ y.req = x.req
        /\ y.toS = x.toS /\ y.c = x.c /\ y.s = AfterWrite(x.s)
        /\ y.toC = IF x.s = "open" /\ x.c # "broken"
                   THEN Append(x.toC, <<"CONNECT", server.req>>) ELSE x.toC
    BY <1>1, Sent, ServerWroteFields
  <2> HIDE DEF y
  <2>3. Sets(k, y)
    BY <1>1, <2>1, <2>2, OneSet
  <2>4. SendFields(y)
    BY <2>2, <2>3 DEF SendFields
  <2>5. Quiet
    BY <2>2, <2>3, SetsQuiet DEF AfterWrite
  <2>6. /\ server' \in Servers /\ server'.pc = "reply" /\ server'.req = server.req
        /\ server'.conn = server.conn /\ server'.fd = 0
    BY <1>1, <2>1 DEF Servers, Talks
  <2>7. InHand
    BY <1>1, <2>6 DEF InHand
  <2>8. Given
    BY <1>1, <2>1, BaseFacts DEF Given
  <2>9. Kept'
    BY <1>1, <2>1, <2>6 DEF Base, Kept, IsAsking
  <2>10. Base'
    BY <1>1, <2>5, <2>7, <2>8, <2>9, ServerBase
  <2> QED BY <1>1, <1>3, <2>1, <2>4, <2>10
<1> QED BY <1>2, <1>3

\* The reply to CONNECT.
ReplyFields(y, m) ==
    LET x == conn[server.conn] IN
    /\ Sets(server.conn, y)
    /\ ~(x.toS = <<>> /\ x.s \in {"open", "broken"})
    /\ m \in Seq(ToServer(x.kind)) /\ m \in Seq(Messages)
    /\ x.toS = <<>> => m = <<>>
    /\ x.toS # <<>> => m # <<>> /\ m[1] = x.toS[1]
    /\ Len(x.toS) = 1 => m = x.toS
    /\ x.toS = <<>> \/ Len(x.toS) = 1 => y.toS = <<>>
    /\ y.toC = x.toC /\ y.s = x.s /\ y.c = x.c

\* brokenPipe, a logout, or a token.
LEMMA ReplyStep ==
  ASSUME Base, ServerReply
  PROVE  /\ Base' /\ server.pc = "reply" /\ server.conn \in DOMAIN conn
         /\ LET x == conn[server.conn] IN
            \/ /\ x.toS = <<>> /\ x.s = "broken" /\ \E y : PipeFields(y)
               /\ server' = [server EXCEPT !.pc = "accept", !.req = 0]
               /\ UNCHANGED answer
            \/ \E y, m :
                  /\ ReplyFields(y, m)
                  /\ \/ /\ m # <<>> /\ m[1] = <<"logout", 0>>
                        /\ answer' = [answer EXCEPT ![Len(answer)] = -1]
                        /\ server' = [server EXCEPT !.pc = "accept", !.req = 0]
                     \/ /\ m = <<>> \/ m[1] # <<"logout", 0>>
                        /\ server' = [server EXCEPT !.pc = "data", !.res = m]
                        /\ UNCHANGED answer
         /\ UNCHANGED <<backlog, client, quit, wake, faults>>
<1> DEFINE k == server.conn
           x == conn[k]
<1>1. /\ k \in DOMAIN conn /\ server \in Servers /\ conn \in Seq(Connections)
      /\ server.req # 0 /\ server.req \in Nat /\ server.fd = 0 /\ k # 0 /\ x \in Connections
      /\ server.pc = "reply"
      /\ UNCHANGED <<backlog, client, quit, wake, faults>>
  BY BaseFacts DEF ServerReply, serverKeeps, Talks, Servers
<1>2. PICK m \in Results(x.toS, x.s) :
          IF m = Error THEN BrokenPipe /\ UNCHANGED answer
          ELSE /\ conn' = [conn EXCEPT ![k].toS = Rest(@, m)]
               /\ UNCHANGED sockfds
               /\ IF m # <<>> /\ m[1] = <<"logout", 0>>
                  THEN /\ Answer(-1)
                       /\ server' = [server EXCEPT !.pc = "accept", !.req = 0]
                  ELSE /\ server' = [server EXCEPT !.pc = "data", !.res = m]
                       /\ UNCHANGED answer
  BY DEF ServerReply
<1> DEFINE y == [x EXCEPT !.toS = Rest(@, m)]
<1>3. /\ y \in Connections /\ y.kind = x.kind /\ y.req = x.req
      /\ y.toC = x.toC /\ y.s = x.s /\ y.c = x.c
      /\ m = Error <=> x.toS = <<>> /\ x.s = "broken"
      /\ m # Error => m \in Seq(ToServer(x.kind)) /\ m \in Seq(Messages)
      /\ x.toS = <<>> => /\ y.toS = <<>> /\ x.s # "open"
                         /\ x.s # "broken" => m = <<>>
      /\ x.toS # <<>> => m # <<>> /\ m[1] = x.toS[1]
      /\ Len(x.toS) = 1 => m = x.toS /\ y.toS = <<>>
  BY <1>1, ServerReads
<1>4. IsAsking /\ server.req = Len(answer) /\ sockfds = <<>> /\ Len(answer) \in Nat
      /\ server.req \in DOMAIN answer
  BY <1>1, AtHand, BaseFacts
<1>5. CASE m = Error
  <2>1. BrokenPipe /\ UNCHANGED answer
    BY <1>2, <1>5
  <2>2. UNCHANGED <<backlog, answer, client, quit, wake, faults>>
    BY <1>1, <2>1
  <2>3. server.pc \in {"send", "reply"}
    BY <1>1
  <2>4. /\ Base' /\ \E z : PipeFields(z)
        /\ server' = [server EXCEPT !.pc = "accept", !.req = 0]
    BY <2>1, <2>2, <2>3, BrokenPipeStep
  <2> QED BY <1>1, <1>3, <1>5, <2>1, <2>4
<1>6. CASE m # Error
  <2>1. conn' = [conn EXCEPT ![k] = y] /\ sockfds' = sockfds
    BY <1>2, <1>6
  <2>2. IF m # <<>> /\ m[1] = <<"logout", 0>>
        THEN /\ Answer(-1)
             /\ server' = [server EXCEPT !.pc = "accept", !.req = 0]
        ELSE /\ server' = [server EXCEPT !.pc = "data", !.res = m]
             /\ UNCHANGED answer
    BY <1>2, <1>6
  <2> HIDE DEF y
  <2>3. Sets(k, y)
    BY <1>1, <1>3, <2>1, OneSet
  <2>4. ReplyFields(y, m)
    BY <1>3, <1>6, <2>3 DEF ReplyFields
  <2>5. Quiet
    BY <1>3, <2>3, SetsQuiet
  <2>6. CASE m # <<>> /\ m[1] = <<"logout", 0>>
    <3>1. /\ answer' = [answer EXCEPT ![Len(answer)] = -1]
          /\ server' = [server EXCEPT !.pc = "accept", !.req = 0]
      BY <1>4, <2>2, <2>6 DEF Answer
    <3>2. /\ server' \in Servers /\ server'.pc = "accept" /\ server'.req = 0
          /\ server'.conn = server.conn /\ server'.fd = 0
      BY <1>1, <3>1 DEF Servers, Talks
    <3>3. InHand
      BY <1>1, <3>2 DEF InHand, Talks
    <3>4. /\ answer' \in Seq(Int) /\ Len(answer') = Len(answer) /\ answer'[Len(answer)] = -1
          /\ DOMAIN answer' = DOMAIN answer
          /\ \A r \in DOMAIN answer : r # Len(answer) => answer'[r] = answer[r]
      BY <1>4, <3>1, BaseFacts
    <3>5. Given
      BY <1>1, <1>4, <2>1, <3>4, BaseFacts DEF Given
    <3>6. ~IsAsking'
      BY <3>4 DEF IsAsking, Pending
    <3>7. Kept'
      BY <1>4, <2>1, <3>2, <3>6 DEF Kept
    <3>8. Base'
      BY <1>1, <2>5, <3>3, <3>5, <3>7, ServerBase
    <3> QED BY <1>1, <2>4, <2>6, <3>1, <3>8
  <2>7. CASE ~(m # <<>> /\ m[1] = <<"logout", 0>>)
    <3>1. /\ answer' = answer
          /\ server' = [server EXCEPT !.pc = "data", !.res = m]
      BY <2>2, <2>7
    <3>2. /\ server' \in Servers /\ server'.pc = "data" /\ server'.req = server.req
          /\ server'.conn = server.conn /\ server'.fd = 0
      BY <1>1, <1>3, <1>6, <3>1 DEF Servers, Talks
    <3>3. InHand
      BY <1>1, <3>2 DEF InHand, Talks
    <3>4. Given
      BY <1>1, <2>1, <3>1, BaseFacts DEF Given
    <3>5. Kept'
      BY <1>1, <2>1, <3>1, <3>2 DEF Base, Kept, IsAsking
    <3>6. Base'
      BY <1>1, <2>5, <3>3, <3>4, <3>5, ServerBase
    <3> QED BY <1>1, <2>4, <2>7, <3>1, <3>6
  <2> QED BY <2>6, <2>7
<1> QED BY <1>5, <1>6

\* The next connection is taken for the data connection.
LEMMA DataStep ==
  ASSUME Base, ServerData
  PROVE  /\ Base' /\ server.pc = "data" /\ backlog # <<>>
         /\ backlog[1] \in DOMAIN conn /\ backlog' = Tail(backlog)
         /\ server' = [server EXCEPT !.pc = "token", !.fd = backlog[1]]
         /\ UNCHANGED <<conn, answer, client, quit, wake, faults>>
<1>1. /\ server.pc = "data" /\ server \in Servers /\ backlog # <<>>
      /\ backlog \in Seq(Nat) /\ Head(backlog) = backlog[1]
      /\ backlog[1] \in DOMAIN conn /\ backlog[1] # 0 /\ backlog[1] \in Nat
      /\ server.req # 0 /\ server.conn # 0
      /\ server' = [server EXCEPT !.pc = "token", !.fd = Head(backlog)]
      /\ backlog' = Tail(backlog)
      /\ UNCHANGED <<conn, sockfds, answer, client, quit, wake, faults>>
  BY BaseFacts DEF ServerData, serverKeeps, Talks
<1>2. Quiet
  BY <1>1, BaseFacts DEF Quiet
<1>3. /\ server' \in Servers /\ server'.pc = "token" /\ server'.req = server.req
      /\ server'.conn = server.conn /\ server'.fd = backlog[1]
  BY <1>1 DEF Servers, Talks
<1>4. InHand
  BY <1>1, <1>3, BaseFacts DEF InHand
<1>5. Given
  <2>1. backlog' \in Seq(Nat) /\ \A j \in DOMAIN backlog' : backlog'[j] \in DOMAIN conn
    BY <1>1, BaseFacts, Tails
  <2> QED BY <1>1, <2>1, BaseFacts DEF Given
<1>6. Kept'
  BY <1>1, <1>3 DEF Base, Kept, IsAsking
<1>7. Base'
  BY <1>1, <1>2, <1>4, <1>5, <1>6, ServerBase
<1> QED BY <1>1, <1>3, <1>7

\* The token of the data connection.
TokenFields(y, m) ==
    LET x == conn[server.fd] IN
    /\ Sets(server.fd, y)
    /\ x.toS # <<>> \/ x.s \in {"fin", "gone"}
    /\ x.toS = <<>> => m = <<>>
    /\ x.toS # <<>> => m # <<>> /\ m[1] = x.toS[1]
    /\ Len(x.toS) = 1 => m = x.toS
    /\ x.toS = <<>> => y.toS = <<>>
    /\ y.toC = x.toC /\ y.s = x.s /\ y.c = x.c

TokenEnds(pc) == server' = [server EXCEPT !.pc = pc, !.req = 0, !.res = <<>>,
                                          !.fd = NoConnection]

\* The tokens are compared, or the process dies of an error.
LEMMA TokenStep ==
  ASSUME Base, ServerToken
  PROVE  /\ Base' /\ server.pc = "token" /\ server.fd \in DOMAIN conn
         /\ server.req = Len(answer) /\ IsAsking
         /\ \/ /\ conn[server.fd].toS = <<>> /\ conn[server.fd].s = "broken"
               /\ ServerDies /\ UNCHANGED answer
            \/ \E y, m :
                  /\ TokenFields(y, m)
                  /\ \/ /\ m = server.res
                        /\ answer' = [answer EXCEPT ![Len(answer)] = server.fd]
                        /\ TokenEnds("pop")
                     \/ /\ m # server.res
                        /\ answer' = [answer EXCEPT ![Len(answer)] = -1]
                        /\ TokenEnds("accept")
         /\ UNCHANGED <<backlog, sockfds, client, quit, wake, faults>>
<1> DEFINE k == server.fd
           x == conn[k]
<1>1. /\ server.pc = "token" /\ server \in Servers /\ conn \in Seq(Connections)
      /\ server.req # 0 /\ k # 0 /\ k \in DOMAIN conn /\ k \in Nat /\ x \in Connections
      /\ UNCHANGED <<backlog, sockfds, client, quit, wake, faults>>
  BY BaseFacts DEF ServerToken, serverKeeps, Talks, Servers
<1>2. PICK m \in Results(x.toS, x.s) :
          IF m = Error THEN ServerDies /\ UNCHANGED answer
          ELSE /\ conn' = [conn EXCEPT ![k].toS = Rest(@, m)]
               /\ Answer(IF m = server.res THEN Tunnel ELSE -1)
               /\ server' = [server EXCEPT
                     !.pc = IF m = server.res THEN "pop" ELSE "accept",
                     !.req = 0, !.res = <<>>, !.fd = NoConnection]
  BY DEF ServerToken
<1> DEFINE y == [x EXCEPT !.toS = Rest(@, m)]
<1>3. /\ y \in Connections /\ y.kind = x.kind /\ y.req = x.req
      /\ y.toC = x.toC /\ y.s = x.s /\ y.c = x.c /\ x.s \in EndStates
      /\ m = Error <=> x.toS = <<>> /\ x.s = "broken"
      /\ x.toS = <<>> => /\ y.toS = <<>> /\ x.s # "open"
                         /\ x.s # "broken" => m = <<>>
      /\ x.toS # <<>> => m # <<>> /\ m[1] = x.toS[1]
      /\ Len(x.toS) = 1 => m = x.toS
  BY <1>1, ServerReads DEF Connections
<1>4. IsAsking /\ server.req = Len(answer) /\ sockfds = <<>> /\ Len(answer) \in Nat
      /\ server.req \in DOMAIN answer
  BY <1>1, AtHand, BaseFacts
<1>5. CASE m = Error
  <2>1. ServerDies /\ UNCHANGED answer
    BY <1>2, <1>5
  <2>2. /\ UNCHANGED <<backlog, sockfds, answer>> /\ UNCHANGED <<client, quit, wake>>
        /\ faults' \in Counts
    BY <1>1, <2>1, BaseFacts
  <2>3. Base'
    BY <1>1, <2>1, <2>2, DiesStep
  <2> QED BY <1>1, <1>3, <1>4, <1>5, <2>1, <2>3
<1>6. CASE m # Error
  <2>1. /\ conn' = [conn EXCEPT ![k] = y]
        /\ answer' = [answer EXCEPT ![Len(answer)] = IF m = server.res THEN k ELSE -1]
        /\ TokenEnds(IF m = server.res THEN "pop" ELSE "accept")
    BY <1>2, <1>4, <1>6 DEF Answer, Tunnel, TokenEnds
  <2> HIDE DEF y
  <2>3. Sets(k, y)
    BY <1>1, <1>3, <2>1, OneSet
  <2>4. TokenFields(y, m)
    BY <1>3, <1>6, <2>3 DEF TokenFields, EndStates
  <2>5. Quiet
    BY <1>3, <2>3, SetsQuiet
  <2>6. /\ server' \in Servers /\ server'.pc \in {"pop", "accept"} /\ server'.req = 0
        /\ server'.conn = server.conn /\ server'.fd = 0
    <3>1. PICK p \in {"pop", "accept"} : TokenEnds(p)
      BY <2>1
    <3>2. <<>> \in Seq(Messages)
      OBVIOUS
    <3> QED BY <1>1, <3>1, <3>2 DEF Servers, Talks, TokenEnds, NoConnection
  <2>7. InHand
    BY <1>1, <2>6, BaseFacts DEF InHand, Talks
  <2>8. /\ answer' \in Seq(Int) /\ Len(answer') = Len(answer)
        /\ answer'[Len(answer)] \in {k, -1} /\ DOMAIN answer' = DOMAIN answer
        /\ \A r \in DOMAIN answer : r # Len(answer) => answer'[r] = answer[r]
    BY <1>1, <1>4, <2>1, BaseFacts
  <2>9. Given
    BY <1>1, <1>4, <2>8, BaseFacts DEF Given
  <2>10. ~IsAsking'
    BY <1>1, <2>8 DEF IsAsking, Pending
  <2>11. Kept'
    BY <1>1, <1>4, <2>6, <2>10 DEF Kept
  <2>12. Base'
    BY <1>1, <2>5, <2>7, <2>9, <2>11, ServerBase
  <2> QED BY <1>1, <1>4, <2>1, <2>4, <2>12
<1> QED BY <1>5, <1>6

\* The server is started again.
LEMMA ServerRestartStep ==
  ASSUME Base, ServerRestart
  PROVE  /\ Base' /\ server' = NewServer /\ backlog' = <<>> /\ answer' \in Seq(Int)
         /\ DOMAIN answer' = DOMAIN answer
         /\ \A r \in DOMAIN answer :
               answer'[r] = IF answer[r] = Pending THEN Gone ELSE answer[r]
         /\ UNCHANGED <<conn, client, quit, wake, faults>>
<1>1. /\ server' = NewServer /\ backlog' = <<>> /\ sockfds' = <<>>
      /\ answer' = [r \in DOMAIN answer |->
                       IF answer[r] = Pending THEN Gone ELSE answer[r]]
      /\ UNCHANGED <<conn, client, quit, wake, faults>>
  BY DEF ServerRestart, serverKeeps
<1>2. Quiet
  BY <1>1, BaseFacts DEF Quiet
<1>3. server' \in Servers
  <2>1. <<>> \in Seq(Messages)
    OBVIOUS
  <2> QED BY <1>1, <2>1 DEF NewServer, Servers, NoConnection
<1>4. InHand
  BY <1>1, <1>3 DEF InHand, NewServer, Talks, NoConnection
<1>5. answer' \in Seq(Int) /\ Len(answer') = Len(answer) /\ DOMAIN answer' = DOMAIN answer
  <2>1. PICK n \in Nat : n = Len(answer) /\ DOMAIN answer = 1 .. n
    BY BaseFacts
  <2>2. answer' \in [1 .. n -> Int]
    BY <1>1, <2>1, BaseFacts DEF Gone
  <2> QED BY <2>1, <2>2
<1>6. \A r \in DOMAIN answer :
               answer'[r] = IF answer[r] = Pending THEN Gone ELSE answer[r]
  BY <1>1
<1>7. Given
  BY <1>1, <1>5, <1>6, BaseFacts DEF Given
<1>8. ~IsAsking'
  <2>1. CASE answer' = <<>>
    BY <2>1 DEF IsAsking
  <2>2. CASE answer' # <<>>
    <3>1. Len(answer') \in DOMAIN answer
      BY <1>5, <2>2
    <3> QED BY <3>1, <1>5, <1>6 DEF IsAsking, Pending, Gone
  <2> QED BY <2>1, <2>2
<1>9. Kept'
  BY <1>1, <1>8 DEF Kept, NewServer
<1>10. Base'
  BY <1>1, <1>2, <1>4, <1>7, <1>9, ServerBase
<1> QED BY <1>1, <1>5, <1>6, <1>10

\* The server process crashes.
LEMMA ServerCrashStep ==
  ASSUME Base, ServerCrash
  PROVE  /\ Base' /\ AllClosed(ServerClosed) /\ server'.pc = "dead"
         /\ server'.conn = server.conn /\ server'.fd = server.fd
         /\ faults' = [faults EXCEPT !.restart = @ + 1]
         /\ faults'.crash = faults.crash /\ faults'.spoke = faults.spoke
         /\ faults'.restart # 0
         /\ UNCHANGED <<backlog, sockfds, answer, client, quit, wake>>
<1>1. /\ faults' \in Counts
      /\ faults'.crash = faults.crash /\ faults'.spoke = faults.spoke
      /\ faults'.restart # 0
  <2>1. PICK n \in Nat : n = faults.restart
    BY BaseFacts DEF Counts
  <2>2. n + 1 \in Nat /\ n + 1 # 0 /\ faults' = [faults EXCEPT !.restart = n + 1]
    BY <2>1 DEF ServerCrash
  <2> QED BY <2>2, BaseFacts DEF Counts
<1>2. /\ server.pc # "dead" /\ ServerDies /\ UNCHANGED <<backlog, sockfds, answer>>
      /\ UNCHANGED <<client, quit, wake>>
      /\ faults' = [faults EXCEPT !.restart = @ + 1]
  BY DEF ServerCrash
<1> QED BY <1>1, <1>2, DiesStep

\* What a step of the client may do to connections.
Polite == /\ conn' \in Seq(Connections)
          /\ Len(conn) <= Len(conn') /\ Len(conn') <= MaxConns
          /\ DOMAIN conn \subseteq DOMAIN conn'
          /\ \A j \in DOMAIN conn :
                conn'[j].kind = conn[j].kind /\ conn'[j].req = conn[j].req

ClientInHand ==
    /\ client' \in Clients
    /\ {client'.conn, client'.fd} \subseteq {0} \cup DOMAIN conn'
    /\ client'.pushed \subseteq DOMAIN conn'
    /\ client'.conn # 0 <=> client'.pc \notin {"connect", "down", "exited"}
    /\ client'.fd # 0 <=> client'.pc = "token"
    /\ client'.conn # 0 => /\ conn'[client'.conn].kind = "control"
                           /\ \A i \in DOMAIN conn' :
                                 conn'[i].kind = "control" => i <= client'.conn
    /\ client'.pc \in {"challenge", "result"} => client'.conn = Len(conn')
    /\ client'.pc = "token" => /\ conn'[client'.fd].kind = "data"
                               /\ conn'[client'.fd].toS = <<>>
                               /\ conn'[client'.fd].s \in {"open", "broken"}
    /\ \A i \in client'.pushed : conn'[i].kind = "data" /\ i # client'.fd
    /\ client'.pc = "leave" => quit'

ClientGiven ==
    /\ backlog' \in Seq(Nat) /\ \A j \in DOMAIN backlog' : backlog'[j] \in DOMAIN conn'
    /\ quit' \in BOOLEAN /\ wake' \in BOOLEAN
    /\ faults' \in Counts

\* What a step of the client, or of the network, has to keep for Base.
LEMMA ClientBase ==
  ASSUME Base, Polite, ClientInHand, ClientGiven, UNCHANGED <<server, sockfds, answer>>
  PROVE  Base'
<1>1. Types'
  BY DEF Base, Types, Polite, ClientInHand, ClientGiven
<1>2. Numbers'
  BY DEF Base, Numbers, Polite, ClientInHand, ClientGiven
<1>3. Hands'
  BY DEF Base, Hands, ClientInHand
<1>4. Kept'
  BY DEF Base, Kept, IsAsking
<1> QED BY <1>1, <1>2, <1>3, <1>4 DEF Base

\* What the client has in its hand.
LEMMA ClientFacts ==
  ASSUME Base
  PROVE  /\ client.pc \in Served \cup {"connect", "challenge", "result", "down", "exited"}
         /\ client.conn \in Nat /\ client.fd \in Nat /\ client.req \in Nat /\ client.rand \in Nat
         /\ client.pushed \subseteq DOMAIN conn
         /\ client.pc \notin {"connect", "down", "exited"} =>
               /\ client.conn \in DOMAIN conn /\ client.conn # 0
               /\ conn[client.conn] \in Connections /\ conn[client.conn].kind = "control"
               /\ \A i \in DOMAIN conn : conn[i].kind = "control" => i <= client.conn
         /\ client.pc \in {"connect", "down", "exited"} => client.conn = 0
         /\ client.pc \in {"challenge", "result"} => client.conn = Len(conn)
         /\ client.pc # "token" => client.fd = 0
         /\ client.pc = "token" =>
               /\ client.fd # 0 /\ client.fd \in DOMAIN conn /\ client.fd # client.conn
               /\ conn[client.fd].kind = "data"
               /\ conn[client.fd].toS = <<>> /\ conn[client.fd].s \in {"open", "broken"}
         /\ \A i \in client.pushed : conn[i].kind = "data" /\ i # client.fd
         /\ client.pc = "leave" => quit
         /\ quit \in BOOLEAN /\ wake \in BOOLEAN /\ Len(conn) <= MaxConns /\ Len(conn) \in Nat
<1>1. client \in Clients /\ quit \in BOOLEAN /\ wake \in BOOLEAN /\ Len(conn) <= MaxConns
      /\ Len(conn) \in Nat
  BY DEF Base, Types
<1>2. /\ {client.conn, client.fd} \subseteq {0} \cup DOMAIN conn
      /\ client.pushed \subseteq DOMAIN conn
  BY DEF Base, Numbers
<1>3. \A j \in DOMAIN conn : conn[j] \in Connections
  BY BaseFacts
<1> QED BY <1>1, <1>2, <1>3 DEF Base, Hands, Clients

\* A step at one connection of the client.
LEMMA SetsPolite ==
  ASSUME Base, NEW i, NEW y, Sets(i, y)
  PROVE  Polite
<1>1. PICK n \in Nat : n = Len(conn) /\ n <= MaxConns
  BY ClientFacts
<1>2. Len(conn') = n /\ n <= n
  BY <1>1 DEF Sets
<1> QED BY <1>1, <1>2 DEF Sets, Polite

\* The end of the client process.
LEMMA ClosedPolite ==
  ASSUME Base, AllClosed(ClientClosed)
  PROVE  Polite
<1>1. \A i \in DOMAIN conn : conn[i] \in Connections
  BY BaseFacts
<1>2. Len(conn) \in Nat /\ Len(conn) <= MaxConns
  BY ClientFacts
<1> QED BY <1>1, <1>2, ClosedFields DEF AllClosed, Polite

\* What a failure of the network leaves of the history.
AsBefore == /\ faults'.crash = faults.crash /\ faults'.restart = faults.restart
            /\ faults'.spoke = faults.spoke /\ faults'.dial = faults.dial
            /\ faults'.reset = faults.reset
ConnectFails == /\ faults.break < MaxBreak
                /\ faults' = [faults EXCEPT !.break = @ + 1, !.handshake = @ + 1]

\* The client process ends.
LEMMA EndsStep ==
  ASSUME Base, NEW how \in {"down", "exited"}, ClientEnds(how), ClientGiven,
         UNCHANGED <<server, sockfds, answer>>
  PROVE  /\ Base' /\ AllClosed(ClientClosed) /\ client'.pc = how /\ client'.conn = 0
         /\ client'.fd = 0 /\ client'.rand = 0
<1>1. AllClosed(ClientClosed) /\ Polite
  BY AllEnd, BaseFacts, ClosedPolite DEF ClientEnds
<1>2. /\ client' \in Clients /\ client'.pc = how /\ client'.conn = 0 /\ client'.fd = 0
      /\ client'.pushed = {} /\ client'.rand = 0
  BY DEF ClientEnds, NewClient, Clients, NoConnection
<1>3. ClientInHand
  BY <1>2 DEF ClientInHand
<1> QED BY <1>1, <1>2, <1>3, ClientBase

\* connect, or the end of the process when connect fails.
LEMMA ConnectStep ==
  ASSUME Base, ClientConnect
  PROVE  /\ Base' /\ client.pc = "connect" /\ client.conn = 0
         /\ \/ /\ AllClosed(ClientClosed) /\ UNCHANGED backlog
               /\ client'.pc = "exited" /\ client'.conn = 0 /\ client'.fd = 0
               /\ client'.rand = 0
               /\ \/ server.pc = "dead" /\ UNCHANGED faults
                  \/ /\ server.pc # "dead" /\ AsBefore
                     /\ faults'.handshake = faults.handshake + 1
            \/ /\ server.pc # "dead" /\ Dials("control", 0)
               /\ backlog' = Append(backlog, Len(conn) + 1)
               /\ client' = [client EXCEPT !.pc = "challenge", !.conn = Len(conn) + 1]
               /\ UNCHANGED faults
         /\ UNCHANGED <<server, sockfds, answer, quit, wake>>
<1>1. /\ client.pc = "connect" /\ client.conn = 0 /\ client.fd = 0
      /\ UNCHANGED <<server, sockfds, answer, quit, wake>>
  BY ClientFacts DEF ClientConnect, clientKeeps
<1>2. CASE /\ ClientEnds("exited") /\ UNCHANGED backlog
           /\ \/ server.pc = "dead" /\ UNCHANGED faults
              \/ server.pc # "dead" /\ ConnectFails
  <2>1. ClientEnds("exited") /\ UNCHANGED backlog
    BY <1>2
  <2>2. DOMAIN conn' = DOMAIN conn
    BY <2>1, AllEnd, BaseFacts DEF ClientEnds, AllClosed
  <2>3. faults' \in Counts /\ (ConnectFails => AsBefore /\ faults'.handshake = faults.handshake + 1)
    <3>1. CASE UNCHANGED faults /\ ~ConnectFails
      BY <3>1, BaseFacts
    <3>2. CASE ConnectFails
      <4>1. faults.break + 1 \in Nat /\ faults.handshake + 1 \in Nat
        BY BaseFacts DEF Counts
      <4>2. PICK n \in Nat, h \in Nat :
                faults' = [faults EXCEPT !.break = n, !.handshake = h] /\ h = faults.handshake + 1
        BY <3>2, <4>1 DEF ConnectFails
      <4> QED BY <3>2, <4>2, BaseFacts DEF Counts, AsBefore
    <3> QED BY <1>2, <3>1, <3>2
  <2>4. ClientGiven
    BY <1>1, <2>1, <2>2, <2>3, BaseFacts, ClientFacts DEF ClientGiven
  <2> QED BY <1>1, <1>2, <2>1, <2>3, <2>4, EndsStep
<1>3. CASE /\ server.pc # "dead" /\ UNCHANGED faults /\ Dial("control", 0, <<>>)
           /\ client' = [client EXCEPT !.pc = "challenge", !.conn = Len(conn) + 1]
  <2>1. /\ Dial("control", 0, <<>>)
        /\ client' = [client EXCEPT !.pc = "challenge", !.conn = Len(conn) + 1]
    BY <1>3
  <2>2. Dials("control", 0) /\ backlog' = Append(backlog, Len(conn) + 1)
    BY <2>1, OneDial, BaseFacts
  <2>3. PICK n \in Nat : n = Len(conn) /\ n + 1 \in Nat /\ n + 1 # 0 /\ n <= n + 1
    BY ClientFacts
  <2>4. Polite
    BY <2>2, <2>3 DEF Dials, Polite
  <2>5. /\ client' \in Clients /\ client'.pc = "challenge" /\ client'.conn = n + 1
        /\ client'.fd = 0 /\ client'.pushed = client.pushed
    BY <1>1, <2>1, <2>3, BaseFacts DEF Clients
  <2>6. ClientInHand
    <3>1. \A i \in DOMAIN conn' : i <= n + 1
      BY <2>2, <2>3, BaseFacts DEF Dials
    <3>2. \A i \in client.pushed : /\ i \in DOMAIN conn' /\ i # 0
                                   /\ conn'[i].kind = "data"
      BY <2>2, ClientFacts, BaseFacts DEF Dials
    <3>3. n + 1 \in DOMAIN conn' /\ conn'[n + 1].kind = "control" /\ Len(conn') = n + 1
      BY <2>2, <2>3 DEF Dials
    <3> QED BY <2>3, <2>5, <3>1, <3>2, <3>3 DEF ClientInHand
  <2>7. ClientGiven
    <3>1. /\ backlog' \in Seq(Nat)
          /\ \A j \in DOMAIN backlog' : backlog'[j] \in DOMAIN conn \cup {n + 1}
      <4>1. backlog \in Seq(Nat) /\ \A j \in DOMAIN backlog : backlog[j] \in DOMAIN conn
        BY BaseFacts
      <4>2. backlog' = Append(backlog, n + 1)
        BY <2>2, <2>3
      <4> QED BY <2>3, <4>1, <4>2, Appended
    <3> QED BY <1>1, <1>3, <2>2, <2>3, <3>1, BaseFacts, ClientFacts DEF ClientGiven, Dials
  <2>8. Base'
    BY <1>1, <2>4, <2>6, <2>7, ClientBase
  <2> QED BY <1>1, <1>3, <2>1, <2>2, <2>8
<1> QED BY <1>2, <1>3 DEF ClientConnect, ConnectFails

\* A step of the client at its control connection.
LEMMA ControlStep ==
  ASSUME Base, client.pc \notin {"connect", "down", "exited"},
         NEW y, Sets(client.conn, y),
         client' \in Clients, client'.pushed = client.pushed, client'.fd = client.fd,
         client'.pc = "token" <=> client.pc = "token",
         \/ /\ client'.conn = client.conn
            /\ client'.pc \notin {"connect", "down", "exited"}
            /\ client'.pc \in {"challenge", "result"} => client.pc \in {"challenge", "result"}
            /\ client'.pc = "leave" => quit
         \/ client'.conn = 0 /\ client'.pc = "connect",
         UNCHANGED <<backlog, server, sockfds, answer, quit, wake, faults>>
  PROVE  Base'
<1>1. Polite
  BY SetsPolite
<1>2. ClientGiven
  BY BaseFacts, ClientFacts DEF ClientGiven, Sets
<1>3. ClientInHand
  <2>1. /\ Len(conn') = Len(conn) /\ DOMAIN conn' = DOMAIN conn
        /\ \A j \in DOMAIN conn : conn'[j].kind = conn[j].kind
        /\ \A j \in DOMAIN conn : j # client.conn => conn'[j] = conn[j]
    BY DEF Sets
  <2>2. {client'.conn, client'.fd} \subseteq {0} \cup DOMAIN conn
    BY BaseFacts
  <2>3. client'.pc = "token" => /\ conn'[client'.fd].kind = "data"
                                /\ conn'[client'.fd].toS = <<>>
                                /\ conn'[client'.fd].s \in {"open", "broken"}
                                /\ client'.fd # 0
    BY <2>1, ClientFacts
  <2>4. client'.pc # "token" => client'.fd = 0
    BY ClientFacts
  <2>5. /\ \A i \in client'.pushed : conn'[i].kind = "data" /\ i # client'.fd
        /\ client'.pushed \subseteq DOMAIN conn'
    BY <2>1, ClientFacts
  <2>6. client'.conn # 0 =>
           /\ client'.conn = client.conn
           /\ conn'[client'.conn].kind = "control"
           /\ \A i \in DOMAIN conn' : conn'[i].kind = "control" => i <= client'.conn
    BY <2>1, ClientFacts
  <2>7. /\ client'.conn # 0 <=> client'.pc \notin {"connect", "down", "exited"}
        /\ client'.pc \in {"challenge", "result"} => client'.conn = Len(conn')
        /\ client'.pc = "leave" => quit'
    BY <2>1, ClientFacts
  <2> QED BY <2>1, <2>2, <2>3, <2>4, <2>5, <2>6, <2>7 DEF ClientInHand
<1> QED BY <1>1, <1>2, <1>3, ClientBase

\* The client writes m at its control connection, of which it may have read.
ClientWrites(y, m) ==
    LET x == conn[client.conn] IN
    /\ Sets(client.conn, y)
    /\ y.s = x.s /\ y.c = AfterWrite(x.c)
    /\ y.toS = IF x.c = "open" /\ x.s # "broken" THEN Append(x.toS, m) ELSE x.toS

\* It has read there.
ClientRead0(y) ==
    LET x == conn[client.conn] IN
    /\ x.toC # <<>> \/ x.c # "open"
    /\ x.toC = <<>> \/ Len(x.toC) = 1 => y.toC = <<>>

\* The client answers what it takes for the challenge.
LEMMA ChallengeStep ==
  ASSUME Base, ClientChallenge
  PROVE  /\ Base' /\ client.pc = "challenge" /\ client.conn \in DOMAIN conn
         /\ LET x == conn[client.conn] IN
            \E y, v : /\ ClientRead0(y) /\ ClientWrites(y, <<"answer", v>>)
                      /\ v = IF x.toC # <<>> /\ x.toC[1] = <<"challenge", 0>> THEN 0 ELSE 1
         /\ client' = [client EXCEPT !.pc = "result"]
         /\ UNCHANGED <<backlog, server, sockfds, answer, quit, wake, faults>>
<1> DEFINE k == client.conn
           x == conn[k]
<1>1. /\ client.pc = "challenge" /\ k \in DOMAIN conn /\ k # 0
      /\ x \in Connections /\ x.kind = "control"
      /\ conn \in Seq(Connections)
      /\ client' = [client EXCEPT !.pc = "result"]
      /\ UNCHANGED <<backlog, server, sockfds, answer, quit, wake, faults>>
  BY ClientFacts, BaseFacts DEF ClientChallenge, clientKeeps
<1>2. PICK m \in Results(x.toC, x.c) :
          LET z == [x EXCEPT !.toC = Rest(@, m)]
              right == m # <<>> /\ m[1] = <<"challenge", 0>>
          IN  conn' = [conn EXCEPT ![k] =
                         ClientWrote(z, <<"answer", IF right THEN 0 ELSE 1>>)]
  BY DEF ClientChallenge
<1> DEFINE z == [x EXCEPT !.toC = Rest(@, m)]
           v == IF m # <<>> /\ m[1] = <<"challenge", 0>> THEN 0 ELSE 1
           y == ClientWrote(z, <<"answer", v>>)
<1>3. /\ z \in Connections /\ z.kind = x.kind /\ z.req = x.req
      /\ z.toS = x.toS /\ z.s = x.s /\ z.c = x.c
      /\ m = Error <=> x.toC = <<>> /\ x.c = "broken"
      /\ x.toC = <<>> => /\ z.toC = <<>> /\ x.c # "open"
                         /\ x.c # "broken" => m = <<>>
      /\ x.toC # <<>> => m # <<>> /\ m[1] = x.toC[1]
      /\ Len(x.toC) = 1 => z.toC = <<>>
  BY <1>1, ClientReads
<1>4. v \in {0, 1} /\ <<"answer", v>> \in ToServer(z.kind)
  BY <1>1, <1>3, Sent
<1>5. v = IF x.toC # <<>> /\ x.toC[1] = <<"challenge", 0>> THEN 0 ELSE 1
  <2>1. Error[1] # <<"challenge", 0>>
    BY DEF Error
  <2>2. x.toC = <<>> => m = <<>> \/ m = Error
    BY <1>3
  <2> QED BY <1>3, <2>1, <2>2
<1>6. conn' = [conn EXCEPT ![k] = y]
  BY <1>2
<1> HIDE DEF z, v
<1>7. /\ y \in Connections /\ y.kind = z.kind /\ y.req = z.req
      /\ y.toC = z.toC /\ y.s = z.s /\ y.c = AfterWrite(z.c)
      /\ y.toS = IF z.c = "open" /\ z.s # "broken" THEN Append(z.toS, <<"answer", v>>) ELSE z.toS
  BY <1>3, <1>4, ClientWroteFields
<1> HIDE DEF y
<1>8. Sets(k, y)
  BY <1>1, <1>3, <1>6, <1>7, OneSet
<1>9. ClientWrites(y, <<"answer", v>>) /\ ClientRead0(y)
  BY <1>3, <1>7, <1>8 DEF ClientWrites, ClientRead0
<1>10. /\ client' \in Clients /\ client'.pc = "result" /\ client'.conn = client.conn
       /\ client'.pushed = client.pushed /\ client'.fd = client.fd
  BY <1>1, BaseFacts DEF Clients
<1>11. Base'
  BY <1>1, <1>8, <1>10, ControlStep
<1> QED BY <1>1, <1>5, <1>9, <1>11

\* The result of the handshake: on it goes, or the process ends.
LEMMA ResultStep ==
  ASSUME Base, ClientResult
  PROVE  /\ Base' /\ client.pc = "result" /\ client.conn \in DOMAIN conn
         /\ LET x == conn[client.conn] IN
            \/ /\ x.toC # <<>> /\ x.toC[1] = <<"success", 0>>
               /\ client' = [client EXCEPT !.pc = "read", !.rand = @ + 1]
               /\ \E y : ClientRead0(y) /\ ClientWrites(y, <<"ready", 0>>)
            \/ /\ x.toC = <<>> \/ x.toC[1] # <<"success", 0>>
               /\ x.toC # <<>> \/ x.c # "open"
               /\ AllClosed(ClientClosed) /\ client'.pc = "exited" /\ client'.conn = 0
               /\ client'.fd = 0 /\ client'.rand = 0
         /\ UNCHANGED <<backlog, server, sockfds, answer, quit, wake, faults>>
<1> DEFINE k == client.conn
           x == conn[k]
<1>1. /\ client.pc = "result" /\ k \in DOMAIN conn /\ k # 0
      /\ x \in Connections /\ x.kind = "control"
      /\ conn \in Seq(Connections)
      /\ UNCHANGED <<backlog, server, sockfds, answer, quit, wake, faults>>
  BY ClientFacts, BaseFacts DEF ClientResult, clientKeeps
<1>2. PICK m \in Results(x.toC, x.c) :
          LET z == [x EXCEPT !.toC = Rest(@, m)] IN
          IF m # <<>> /\ m[1] = <<"success", 0>>
          THEN /\ conn' = [conn EXCEPT ![k] = ClientWrote(z, <<"ready", 0>>)]
               /\ client' = [client EXCEPT !.pc = "read", !.rand = @ + 1]
          ELSE ClientEnds("exited")
  BY DEF ClientResult
<1> DEFINE z == [x EXCEPT !.toC = Rest(@, m)]
           y == ClientWrote(z, <<"ready", 0>>)
<1>3. /\ z \in Connections /\ z.kind = x.kind /\ z.req = x.req
      /\ z.toS = x.toS /\ z.s = x.s /\ z.c = x.c
      /\ m = Error <=> x.toC = <<>> /\ x.c = "broken"
      /\ x.toC = <<>> => /\ z.toC = <<>> /\ x.c # "open"
                         /\ x.c # "broken" => m = <<>>
      /\ x.toC # <<>> => m # <<>> /\ m[1] = x.toC[1]
      /\ Len(x.toC) = 1 => z.toC = <<>>
  BY <1>1, ClientReads
<1>4. (m # <<>> /\ m[1] = <<"success", 0>>) <=> (x.toC # <<>> /\ x.toC[1] = <<"success", 0>>)
  <2>1. Error[1] # <<"success", 0>>
    BY DEF Error
  <2>2. x.toC = <<>> => m = <<>> \/ m = Error
    BY <1>3
  <2> QED BY <1>3, <2>1, <2>2
<1>5. CASE m # <<>> /\ m[1] = <<"success", 0>>
  <2>1. /\ conn' = [conn EXCEPT ![k] = y]
        /\ client' = [client EXCEPT !.pc = "read", !.rand = @ + 1]
    BY <1>2, <1>5
  <2>2. <<"ready", 0>> \in ToServer(z.kind)
    BY <1>1, <1>3, Sent
  <2> HIDE DEF z
  <2>3. /\ y \in Connections /\ y.kind = z.kind /\ y.req = z.req
        /\ y.toC = z.toC /\ y.s = z.s /\ y.c = AfterWrite(z.c)
        /\ y.toS = IF z.c = "open" /\ z.s # "broken" THEN Append(z.toS, <<"ready", 0>>) ELSE z.toS
    BY <1>3, <2>2, ClientWroteFields
  <2> HIDE DEF y
  <2>4. Sets(k, y)
    BY <1>1, <1>3, <2>1, <2>3, OneSet
  <2>5. ClientWrites(y, <<"ready", 0>>) /\ ClientRead0(y)
    BY <1>3, <2>3, <2>4 DEF ClientWrites, ClientRead0
  <2>6. /\ client' \in Clients /\ client'.pc = "read" /\ client'.conn = client.conn
        /\ client'.pushed = client.pushed /\ client'.fd = client.fd
    <3>1. PICK n \in Nat : client' = [client EXCEPT !.pc = "read", !.rand = n]
      <4>1. client.rand + 1 \in Nat
        BY ClientFacts
      <4> QED BY <2>1, <4>1
    <3> QED BY <1>1, <3>1, BaseFacts DEF Clients, Served
  <2>7. Base'
    BY <1>1, <2>4, <2>6, ControlStep
  <2> QED BY <1>1, <1>4, <1>5, <2>1, <2>5, <2>7
<1>6. CASE ~(m # <<>> /\ m[1] = <<"success", 0>>)
  <2>1. ClientEnds("exited")
    BY <1>2, <1>6
  <2>2. DOMAIN conn' = DOMAIN conn
    BY <2>1, AllEnd, BaseFacts DEF ClientEnds, AllClosed
  <2>3. ClientGiven
    BY <1>1, <2>1, <2>2, BaseFacts, ClientFacts DEF ClientGiven
  <2>4. /\ Base' /\ AllClosed(ClientClosed) /\ client'.pc = "exited" /\ client'.conn = 0
        /\ client'.fd = 0 /\ client'.rand = 0
    BY <1>1, <2>1, <2>3, EndsStep
  <2> QED BY <1>1, <1>3, <1>4, <1>6, <2>4
<1> QED BY <1>5, <1>6

\* close, and goto reconnect.
ReconnectFields(y) ==
    LET x == conn[client.conn] IN
    /\ Sets(client.conn, y)
    /\ y.toC = x.toC /\ y.toS = x.toS /\ y.c = x.c /\ y.s = Left(x.s, x.c, x.toC)
    /\ client' = [client EXCEPT !.pc = "connect", !.conn = NoConnection]

\* The client closes the control connection and dials a new one.
LEMMA ReconnectStep ==
  ASSUME Base, client.pc \in {"read", "check"}, Reconnect,
         UNCHANGED <<backlog, server, sockfds, answer, quit, wake, faults>>
  PROVE  Base' /\ \E y : ReconnectFields(y)
<1> DEFINE k == client.conn
           x == conn[k]
           y == ClientClosed(x)
<1>1. /\ k \in DOMAIN conn /\ k # 0 /\ x \in Connections /\ conn \in Seq(Connections)
      /\ client' = [client EXCEPT !.pc = "connect", !.conn = NoConnection]
      /\ conn' = [conn EXCEPT ![k] = y]
  BY ClientFacts, BaseFacts DEF Reconnect, Close
<1>2. /\ y \in Connections /\ y.kind = x.kind /\ y.req = x.req
      /\ y.toS = x.toS /\ y.toC = x.toC /\ y.c = x.c /\ y.s = Left(x.s, x.c, x.toC)
  BY <1>1, ClosedFields
<1> HIDE DEF y
<1>3. Sets(k, y)
  BY <1>1, <1>2, OneSet
<1>4. ReconnectFields(y)
  BY <1>1, <1>2, <1>3 DEF ReconnectFields
<1>5. /\ client' \in Clients /\ client'.pc = "connect" /\ client'.conn = 0
      /\ client'.pushed = client.pushed /\ client'.fd = client.fd
  BY <1>1, BaseFacts DEF Clients, NoConnection
<1>6. Base'
  BY <1>1, <1>3, <1>5, ControlStep
<1> QED BY <1>4, <1>6

\* A read of the control connection: an error, a CONNECT, or what is taken for one.
ReadFields(y, r) ==
    LET x == conn[client.conn] IN
    /\ Sets(client.conn, y)
    /\ ~(x.toC = <<>> /\ x.c \in {"open", "broken"})
    /\ x.toC = <<>> \/ Len(x.toC) = 1 => y.toC = <<>>
    /\ y.toS = x.toS /\ y.s = x.s /\ y.c = x.c
    /\ r = IF x.toC = <<>> THEN 0 ELSE x.toC[1][2]
    /\ client' = [client EXCEPT !.pc = "check", !.req = r]

\* CONNECT, or anything else but an error.
LEMMA ReadStep ==
  ASSUME Base, ClientRead
  PROVE  /\ Base' /\ client.pc = "read" /\ client.conn \in DOMAIN conn
         /\ LET x == conn[client.conn] IN
            \/ x.toC = <<>> /\ x.c = "broken" /\ \E y : ReconnectFields(y)
            \/ \E y, r : ReadFields(y, r)
         /\ UNCHANGED <<backlog, server, sockfds, answer, quit, wake, faults>>
<1> DEFINE k == client.conn
           x == conn[k]
<1>1. /\ client.pc = "read" /\ k \in DOMAIN conn /\ k # 0
      /\ x \in Connections /\ conn \in Seq(Connections)
      /\ UNCHANGED <<backlog, server, sockfds, answer, quit, wake, faults>>
  BY ClientFacts, BaseFacts DEF ClientRead, clientKeeps
<1>2. PICK m \in Results(x.toC, x.c) :
          IF m = Error THEN Reconnect
          ELSE /\ conn' = [conn EXCEPT ![k].toC = Rest(@, m)]
               /\ client' = [client EXCEPT !.pc = "check",
                     !.req = IF m = <<>> THEN 0 ELSE m[1][2]]
  BY DEF ClientRead
<1> DEFINE y == [x EXCEPT !.toC = Rest(@, m)]
           r == IF m = <<>> THEN 0 ELSE m[1][2]
<1>3. /\ y \in Connections /\ y.kind = x.kind /\ y.req = x.req
      /\ y.toS = x.toS /\ y.s = x.s /\ y.c = x.c /\ x.toC \in Seq(ToClient)
      /\ m = Error <=> x.toC = <<>> /\ x.c = "broken"
      /\ x.toC = <<>> => /\ y.toC = <<>> /\ x.c # "open"
                         /\ x.c # "broken" => m = <<>>
      /\ x.toC # <<>> => m # <<>> /\ m[1] = x.toC[1]
      /\ Len(x.toC) = 1 => y.toC = <<>>
  BY <1>1, ClientReads
<1>4. CASE m = Error
  <2>1. Reconnect
    BY <1>2, <1>4
  <2>2. Base' /\ \E z : ReconnectFields(z)
    BY <1>1, <2>1, ReconnectStep
  <2> QED BY <1>1, <1>3, <1>4, <2>2
<1>5. CASE m # Error
  <2>1. conn' = [conn EXCEPT ![k] = y] /\ client' = [client EXCEPT !.pc = "check", !.req = r]
    BY <1>2, <1>5
  <2>2. r = IF x.toC = <<>> THEN 0 ELSE x.toC[1][2]
    BY <1>3, <1>5
  <2>3. r \in Nat
    <3>1. x.toC # <<>> => x.toC[1] \in Messages
      BY <1>3, Sent
    <3> QED BY <2>2, <3>1, Sent
  <2> HIDE DEF y, r
  <2>4. Sets(k, y)
    BY <1>1, <1>3, <2>1, OneSet
  <2>5. ReadFields(y, r)
    BY <1>3, <1>5, <2>1, <2>2, <2>4 DEF ReadFields
  <2>6. /\ client' \in Clients /\ client'.pc = "check" /\ client'.conn = client.conn
        /\ client'.pushed = client.pushed /\ client'.fd = client.fd
    BY <1>1, <2>1, <2>3, BaseFacts DEF Clients, Served
  <2>7. Base'
    BY <1>1, <2>4, <2>6, ControlStep
  <2> QED BY <1>1, <2>5, <2>7
<1> QED BY <1>4, <1>5

\* It logs out, sends its token, or finds the connection broken.
LEMMA CheckStep ==
  ASSUME Base, ClientCheck
  PROVE  /\ Base' /\ client.pc = "check" /\ client.conn \in DOMAIN conn
         /\ \/ /\ quit /\ client' = [client EXCEPT !.pc = "leave"]
               /\ \E y : /\ ClientWrites(y, <<"logout", 0>>)
                         /\ y.toC = conn[client.conn].toC
            \/ /\ ~quit /\ ~Fails(conn[client.conn].c)
               /\ client' = [client EXCEPT !.pc = "dial"]
               /\ \E y : /\ ClientWrites(y, <<"token", client.rand>>)
                         /\ y.toC = conn[client.conn].toC
            \/ ~quit /\ Fails(conn[client.conn].c) /\ \E y : ReconnectFields(y)
         /\ UNCHANGED <<backlog, server, sockfds, answer, quit, wake, faults>>
<1> DEFINE k == client.conn
           x == conn[k]
<1>1. /\ client.pc = "check" /\ k \in DOMAIN conn /\ k # 0
      /\ x \in Connections /\ x.kind = "control" /\ conn \in Seq(Connections)
      /\ client.rand \in Nat
      /\ UNCHANGED <<backlog, server, sockfds, answer, quit, wake, faults>>
  BY ClientFacts, BaseFacts DEF ClientCheck, clientKeeps
<1>2. ASSUME NEW p \in {"dial", "leave"}, NEW m \in ToServer("control"),
             p = "leave" => quit,
             conn' = [conn EXCEPT ![k] = ClientWrote(x, m)],
             client' = [client EXCEPT !.pc = p]
      PROVE  Base' /\ \E y : ClientWrites(y, m) /\ y.toC = x.toC
  <2> DEFINE y == ClientWrote(x, m)
  <2>1. /\ y \in Connections /\ y.kind = x.kind /\ y.req = x.req
        /\ y.toC = x.toC /\ y.s = x.s /\ y.c = AfterWrite(x.c)
        /\ y.toS = IF x.c = "open" /\ x.s # "broken" THEN Append(x.toS, m) ELSE x.toS
    BY <1>1, ClientWroteFields
  <2>2. conn' = [conn EXCEPT ![k] = y]
    BY <1>2
  <2> HIDE DEF y
  <2>3. Sets(k, y)
    BY <1>1, <2>1, <2>2, OneSet
  <2>4. ClientWrites(y, m)
    BY <2>1, <2>3 DEF ClientWrites
  <2>5. /\ client' \in Clients /\ client'.pc = p /\ client'.conn = client.conn
        /\ client'.pushed = client.pushed /\ client'.fd = client.fd
    BY <1>1, <1>2, BaseFacts DEF Clients, Served
  <2>6. Base'
    BY <1>1, <1>2, <2>3, <2>5, ControlStep
  <2> QED BY <2>1, <2>4, <2>6
<1>3. CASE /\ quit /\ conn' = [conn EXCEPT ![k] = ClientWrote(x, <<"logout", 0>>)]
           /\ client' = [client EXCEPT !.pc = "leave"]
  BY <1>1, <1>2, <1>3, Sent
<1>4. CASE /\ ~quit /\ ~Fails(x.c)
           /\ conn' = [conn EXCEPT ![k] = ClientWrote(x, <<"token", client.rand>>)]
           /\ client' = [client EXCEPT !.pc = "dial"]
  BY <1>1, <1>2, <1>4, Sent
<1>5. CASE ~quit /\ Fails(x.c) /\ Reconnect
  BY <1>1, <1>5, ReconnectStep
<1> QED BY <1>3, <1>4, <1>5 DEF ClientCheck, QuitSeen

\* A tunnel's connection failed while the server lived.
DialFailed == /\ faults'.crash = faults.crash /\ faults'.restart = faults.restart
              /\ faults'.spoke = faults.spoke /\ faults'.reset = faults.reset
              /\ faults'.handshake = faults.handshake /\ faults'.dial > 0

\* The data connection, or nothing when there is no server.
LEMMA DialStep ==
  ASSUME Base, ClientDial
  PROVE  /\ Base' /\ client.pc = "dial" /\ client.rand + 1 \in Nat
         /\ \/ /\ UNCHANGED <<conn, backlog>>
               /\ client' = [client EXCEPT !.pc = "read", !.rand = @ + 1]
               /\ \/ server.pc = "dead" /\ UNCHANGED faults
                  \/ server.pc # "dead" /\ DialFailed
            \/ /\ server.pc # "dead" /\ Dials("data", client.req)
               /\ backlog' = Append(backlog, Len(conn) + 1)
               /\ client' = [client EXCEPT !.pc = "token", !.fd = Len(conn) + 1]
               /\ UNCHANGED faults
         /\ UNCHANGED <<server, sockfds, answer, quit, wake>>
<1>1. /\ client.pc = "dial" /\ client.fd = 0 /\ client.req \in Nat /\ client.rand + 1 \in Nat
      /\ client.conn \in DOMAIN conn /\ client.conn # 0
      /\ UNCHANGED <<server, sockfds, answer, quit, wake>>
  BY ClientFacts DEF ClientDial, clientKeeps
<1>2. CASE /\ client' = [client EXCEPT !.pc = "read", !.rand = @ + 1]
           /\ UNCHANGED <<conn, backlog>>
           /\ \/ server.pc = "dead" /\ UNCHANGED faults
              \/ server.pc # "dead" /\ faults' = [faults EXCEPT !.dial = @ + 1]
  <2>1. /\ client' = [client EXCEPT !.pc = "read", !.rand = @ + 1]
        /\ UNCHANGED <<conn, backlog>>
    BY <1>2
  <2>9. faults' \in Counts /\ (server.pc # "dead" => DialFailed)
    <3>1. CASE server.pc = "dead"
      BY <1>2, <3>1, BaseFacts
    <3>2. CASE server.pc # "dead"
      <4>1. PICK n \in Nat : n = faults.dial
        BY BaseFacts DEF Counts
      <4>2. n + 1 \in Nat /\ n + 1 > 0 /\ faults' = [faults EXCEPT !.dial = n + 1]
        BY <1>2, <3>2, <4>1
      <4> QED BY <4>2, BaseFacts DEF Counts, DialFailed
    <3> QED BY <3>1, <3>2
  <2>2. PICK n \in Nat : client' = [client EXCEPT !.pc = "read", !.rand = n]
    BY <1>1, <2>1
  <2>3. /\ client' \in Clients /\ client'.pc = "read" /\ client'.conn = client.conn
        /\ client'.pushed = client.pushed /\ client'.fd = 0
    BY <1>1, <2>2, BaseFacts DEF Clients, Served
  <2>4. ClientInHand
    BY <1>1, <2>1, <2>3, ClientFacts DEF ClientInHand
  <2>5. Polite
    BY <2>1, BaseFacts, ClientFacts DEF Polite
  <2>6. ClientGiven
    BY <1>1, <2>1, <2>9, BaseFacts, ClientFacts DEF ClientGiven
  <2>7. Base'
    BY <1>1, <2>4, <2>5, <2>6, ClientBase
  <2> QED BY <1>1, <1>2, <2>1, <2>7, <2>9
<1>3. CASE /\ server.pc # "dead" /\ UNCHANGED faults /\ Dial("data", client.req, <<>>)
           /\ client' = [client EXCEPT !.pc = "token", !.fd = Len(conn) + 1]
  <2>1. /\ Dial("data", client.req, <<>>)
        /\ client' = [client EXCEPT !.pc = "token", !.fd = Len(conn) + 1]
    BY <1>3
  <2>2. Dials("data", client.req) /\ backlog' = Append(backlog, Len(conn) + 1)
    BY <1>1, <2>1, OneDial, BaseFacts
  <2>3. PICK n \in Nat : n = Len(conn) /\ n + 1 \in Nat /\ n + 1 # 0 /\ n <= n + 1
    BY ClientFacts
  <2>4. Polite
    BY <2>2, <2>3 DEF Dials, Polite
  <2>5. /\ client' \in Clients /\ client'.pc = "token" /\ client'.conn = client.conn
        /\ client'.fd = n + 1 /\ client'.pushed = client.pushed
    BY <1>1, <2>1, <2>3, BaseFacts DEF Clients, Served
  <2>6. ClientInHand
    <3>1. \A i \in DOMAIN conn' : i = n + 1 \/ i \in DOMAIN conn
      BY <2>2, <2>3 DEF Dials
    <3>2. \A i \in client.pushed : /\ i \in DOMAIN conn' /\ i # n + 1
                                   /\ conn'[i].kind = "data"
      BY <2>2, <2>3, ClientFacts, BaseFacts DEF Dials
    <3>3. /\ n + 1 \in DOMAIN conn' /\ conn'[n + 1].kind = "data"
          /\ conn'[n + 1].toS = <<>> /\ conn'[n + 1].s = "open"
      BY <2>2, <2>3 DEF Dials
    <3>4. /\ client.conn \in DOMAIN conn' /\ conn'[client.conn].kind = "control"
          /\ \A i \in DOMAIN conn' : conn'[i].kind = "control" => i <= client.conn
      BY <1>1, <2>2, <2>3, <3>1, <3>3, ClientFacts DEF Dials
    <3> QED BY <1>1, <2>3, <2>5, <3>2, <3>3, <3>4 DEF ClientInHand
  <2>7. ClientGiven
    <3>1. /\ backlog' \in Seq(Nat)
          /\ \A j \in DOMAIN backlog' : backlog'[j] \in DOMAIN conn \cup {n + 1}
      <4>1. backlog \in Seq(Nat) /\ \A j \in DOMAIN backlog : backlog[j] \in DOMAIN conn
        BY BaseFacts
      <4>2. backlog' = Append(backlog, n + 1)
        BY <2>2, <2>3
      <4> QED BY <2>3, <4>1, <4>2, Appended
    <3> QED BY <1>1, <1>3, <2>2, <2>3, <3>1, BaseFacts, ClientFacts DEF ClientGiven, Dials
  <2>8. Base'
    BY <1>1, <2>4, <2>6, <2>7, ClientBase
  <2> QED BY <1>1, <1>3, <2>1, <2>2, <2>8
<1> QED BY <1>2, <1>3 DEF ClientDial

\* The token on the data connection, which the relay gets.
LEMMA PushStep ==
  ASSUME Base, ClientToken
  PROVE  /\ Base' /\ client.pc = "token" /\ client.fd \in DOMAIN conn
         /\ LET x == conn[client.fd] IN
            \E y : /\ Sets(client.fd, y) /\ y.toC = x.toC /\ y.s = x.s
                   /\ y.c = AfterWrite(x.c)
                   /\ y.toS = IF x.c = "open" /\ x.s # "broken"
                              THEN Append(x.toS, <<"token", client.rand>>) ELSE x.toS
         /\ client' = [client EXCEPT !.pc = "read", !.rand = @ + 1, !.fd = NoConnection,
                                     !.pushed = @ \cup {client.fd}]
         /\ client.rand + 1 \in Nat
         /\ UNCHANGED <<backlog, server, sockfds, answer, quit, wake, faults>>
<1> DEFINE k == client.fd
           x == conn[k]
           y == ClientWrote(x, DataToken)
<1>1. /\ client.pc = "token" /\ k \in DOMAIN conn /\ k # 0 /\ client.rand \in Nat
      /\ x \in Connections /\ x.kind = "data" /\ conn \in Seq(Connections)
      /\ client.conn # 0 /\ client.conn \in DOMAIN conn /\ k # client.conn
      /\ client.pushed \subseteq DOMAIN conn /\ client.rand + 1 \in Nat
      /\ client' = [client EXCEPT !.pc = "read", !.rand = @ + 1, !.fd = NoConnection,
                                  !.pushed = @ \cup {client.fd}]
      /\ conn' = [conn EXCEPT ![k] = y]
      /\ UNCHANGED <<backlog, server, sockfds, answer, quit, wake, faults>>
  BY ClientFacts, BaseFacts, SMTT(60) DEF ClientToken, clientKeeps
<1>2. /\ y \in Connections /\ y.kind = x.kind /\ y.req = x.req
      /\ y.toC = x.toC /\ y.s = x.s /\ y.c = AfterWrite(x.c)
      /\ y.toS = IF x.c = "open" /\ x.s # "broken"
                 THEN Append(x.toS, <<"token", client.rand>>) ELSE x.toS
  BY <1>1, Sent, ClientWroteFields DEF DataToken
<1> HIDE DEF y
<1>3. Sets(k, y)
  BY <1>1, <1>2, OneSet
<1>4. Polite
  BY <1>3, SetsPolite
<1>5. ClientGiven
  BY <1>1, <1>3, BaseFacts, ClientFacts DEF ClientGiven, Sets
<1>6. /\ client' \in Clients /\ client'.pc = "read" /\ client'.conn = client.conn
      /\ client'.pushed = client.pushed \cup {k} /\ client'.fd = 0
  <2>1. PICK n \in Nat, P \in SUBSET Nat :
          /\ client' = [client EXCEPT !.pc = "read", !.rand = n, !.fd = 0, !.pushed = P]
          /\ P = client.pushed \cup {k}
    BY <1>1, BaseFacts DEF NoConnection
  <2>2. client \in Clients
    BY BaseFacts
  <2>3. client' \in Clients /\ client'.pushed = P
    BY <2>1, <2>2 DEF Clients, Served
  <2>4. client'.pc = "read" /\ client'.conn = client.conn /\ client'.fd = 0
    BY <2>1, <2>2 DEF Clients
  <2> QED BY <2>1, <2>3, <2>4
<1>7. ClientInHand
  <2>1. /\ Len(conn') = Len(conn) /\ DOMAIN conn' = DOMAIN conn
        /\ \A j \in DOMAIN conn : conn'[j].kind = conn[j].kind /\ j # 0
    BY <1>3, BaseFacts DEF Sets
  <2>2. \A i \in client'.pushed : conn'[i].kind = "data" /\ i # 0 /\ i \in DOMAIN conn
    BY <1>1, <1>6, <2>1, ClientFacts
  <2>3. /\ conn'[client.conn].kind = "control"
        /\ \A i \in DOMAIN conn' : conn'[i].kind = "control" => i <= client.conn
    BY <1>1, <2>1, ClientFacts
  <2> QED BY <1>1, <1>6, <2>1, <2>2, <2>3 DEF ClientInHand
<1>8. Base'
  BY <1>1, <1>4, <1>5, <1>7, ClientBase
<1> QED BY <1>1, <1>2, <1>3, <1>8

\* The client logged out and ends.
LEMMA LeaveStep ==
  ASSUME Base, ClientLeave
  PROVE  /\ Base' /\ client.pc = "leave" /\ quit
         /\ AllClosed(ClientClosed) /\ client'.pc = "exited" /\ client'.conn = 0
         /\ client'.fd = 0 /\ client'.rand = 0
         /\ UNCHANGED <<backlog, server, sockfds, answer, quit, wake, faults>>
<1>1. /\ client.pc = "leave" /\ ClientEnds("exited") /\ quit
      /\ UNCHANGED <<backlog, server, sockfds, answer, quit, wake, faults>>
  BY ClientFacts DEF ClientLeave, clientKeeps
<1>2. DOMAIN conn' = DOMAIN conn
  BY <1>1, AllEnd, BaseFacts DEF ClientEnds, AllClosed
<1>3. ClientGiven
  BY <1>1, <1>2, BaseFacts, ClientFacts DEF ClientGiven
<1> QED BY <1>1, <1>3, EndsStep

\* The client process crashes, and is started again.
LEMMA CrashStep ==
  ASSUME Base, Crash
  PROVE  /\ Base' /\ client.pc \notin {"down", "exited"}
         /\ AllClosed(ClientClosed) /\ client'.pc = "down" /\ client'.conn = 0
         /\ client'.fd = 0 /\ client'.rand = 0
         /\ faults'.crash = faults.crash + 1 /\ faults'.crash \in Nat /\ faults.crash \in Nat
         /\ faults'.spoke = faults.spoke /\ faults'.restart = faults.restart
         /\ faults'.dial = faults.dial
         /\ UNCHANGED <<backlog, server, sockfds, answer, wake>>
<1>1. /\ client.pc \notin {"down", "exited"} /\ ClientEnds("down")
      /\ quit' = FALSE /\ faults' = [faults EXCEPT !.crash = @ + 1]
      /\ UNCHANGED <<backlog, server, sockfds, answer, wake>>
  BY DEF Crash, ClientEnds
<1>2. /\ faults' \in Counts
      /\ faults'.crash = faults.crash + 1 /\ faults'.spoke = faults.spoke
      /\ faults'.restart = faults.restart /\ faults.crash \in Nat /\ faults'.crash \in Nat
      /\ faults'.dial = faults.dial
  <2>1. PICK n \in Nat : n = faults.crash
    BY BaseFacts DEF Counts
  <2>2. n + 1 \in Nat /\ faults' = [faults EXCEPT !.crash = n + 1]
    BY <1>1, <2>1
  <2> QED BY <2>1, <2>2, BaseFacts DEF Counts
<1>3. DOMAIN conn' = DOMAIN conn
  BY <1>1, AllEnd, BaseFacts DEF ClientEnds, AllClosed
<1>4. ClientGiven
  BY <1>1, <1>2, <1>3, BaseFacts, ClientFacts DEF ClientGiven
<1>5. /\ Base' /\ AllClosed(ClientClosed) /\ client'.pc = "down" /\ client'.conn = 0
      /\ client'.fd = 0 /\ client'.rand = 0
  BY <1>1, <1>4, EndsStep
<1> QED BY <1>1, <1>2, <1>5

\* The client process is started again.
LEMMA RestartStep ==
  ASSUME Base, Restart
  PROVE  /\ Base' /\ client.pc = "down" /\ client' = NewClient
         /\ UNCHANGED <<conn, backlog, server, sockfds, answer, quit, wake, faults>>
<1>1. /\ client.pc = "down" /\ client' = NewClient
      /\ UNCHANGED <<conn, backlog, server, sockfds, answer, quit, wake, faults>>
  BY DEF Restart
<1>2. /\ client' \in Clients /\ client'.pc = "connect" /\ client'.conn = 0 /\ client'.fd = 0
      /\ client'.pushed = {}
  BY <1>1 DEF NewClient, Clients, NoConnection
<1>3. ClientInHand
  BY <1>2 DEF ClientInHand
<1>4. Polite
  BY <1>1, BaseFacts, ClientFacts DEF Polite
<1>5. ClientGiven
  BY <1>1, BaseFacts, ClientFacts DEF ClientGiven
<1>6. Base'
  BY <1>1, <1>3, <1>4, <1>5, ClientBase
<1> QED BY <1>1, <1>6

\* The user, the quit command, and the wake-up connection.
LEMMA AskStep ==
  ASSUME Base, Ask
  PROVE  /\ Base' /\ ~IsAsking /\ server.pc # "dead" /\ server.req = 0
         /\ answer' = Append(answer, Pending) /\ answer \in Seq(Int)
         /\ UNCHANGED <<conn, backlog, server, client, quit, faults>>
<1>1. /\ ~IsAsking /\ server.pc # "dead" /\ wake' = FALSE
      /\ answer' = Append(answer, Pending) /\ sockfds' = Append(sockfds, Len(answer) + 1)
      /\ UNCHANGED <<conn, backlog, server, client, quit, faults>>
  BY DEF Ask
<1>2. sockfds = <<>> /\ server.req = 0
  BY <1>1 DEF Base, Kept
<1>3. PICK n \in Nat : n = Len(answer) /\ n + 1 \in Nat /\ DOMAIN answer = 1 .. n
  BY BaseFacts
<1>4. /\ answer' \in Seq(Int) /\ Len(answer') = n + 1 /\ answer'[n + 1] = Pending
      /\ answer' # <<>> /\ DOMAIN answer' = DOMAIN answer \cup {n + 1}
      /\ \A r \in DOMAIN answer : answer'[r] = answer[r]
  <2>1. Pending \in Int /\ answer \in Seq(Int)
    BY BaseFacts DEF Pending
  <2> QED BY <1>1, <1>3, <2>1, Appended
<1>5. sockfds' = <<n + 1>> /\ sockfds' \in Seq(Nat)
  BY <1>1, <1>2, <1>3
<1>6. IsAsking'
  BY <1>4 DEF IsAsking
<1>7. Types'
  BY <1>1, <1>4, <1>5 DEF Base, Types
<1>8. Numbers'
  BY <1>1, <1>4 DEF Base, Numbers, Pending
<1>9. Hands'
  BY <1>1 DEF Base, Hands
<1>10. Kept'
  BY <1>1, <1>2, <1>4, <1>5, <1>6 DEF Kept
<1> QED BY <1>1, <1>2, <1>7, <1>8, <1>9, <1>10, BaseFacts DEF Base

\* The quit command and its connection change nothing else.
LEMMA WakeStep ==
  ASSUME Base, WakeFails \/ Quit
  PROVE  /\ Base' /\ (quit => quit') /\ AsBefore /\ faults'.handshake = faults.handshake
         /\ UNCHANGED <<conn, backlog, server, sockfds, answer, client>>
<1>1. /\ UNCHANGED <<conn, backlog, server, sockfds, answer, client>>
      /\ quit' \in BOOLEAN /\ wake' \in BOOLEAN /\ (quit => quit')
  <2>1. CASE WakeFails
    <3>1. /\ wake' = FALSE /\ quit' = quit
          /\ UNCHANGED <<conn, backlog, server, sockfds, answer, client>>
      BY <2>1 DEF WakeFails
    <3>2. quit \in BOOLEAN
      BY DEF Base, Types
    <3> QED BY <3>1, <3>2, Zenon
  <2>2. CASE Quit
    <3>1. /\ wake' = TRUE /\ quit' = TRUE
          /\ UNCHANGED <<conn, backlog, server, sockfds, answer, client>>
      BY <2>2 DEF Quit
    <3> QED BY <3>1, Zenon
  <2> QED BY <2>1, <2>2, Zenon
<1>2. faults' \in Counts /\ AsBefore /\ faults'.handshake = faults.handshake
  <2>1. \/ faults' = faults
        \/ faults' = [faults EXCEPT !.wake = @ + 1]
    BY DEF WakeFails, Quit
  <2>2. faults.wake + 1 \in Nat
    BY BaseFacts DEF Counts
  <2>3. PICK n \in Nat : faults' = faults \/ faults' = [faults EXCEPT !.wake = n]
    BY <2>1, <2>2
  <2> QED BY <2>3, BaseFacts DEF Counts, AsBefore
<1>3. Types' /\ Numbers'
  BY <1>1, <1>2 DEF Base, Types, Numbers
<1>4. Hands'
  BY <1>1 DEF Base, Hands
<1>5. Kept'
  BY <1>1 DEF Base, Kept, IsAsking
<1> QED BY <1>1, <1>2, <1>3, <1>4, <1>5 DEF Base

\* The relay forwards what the local service said.
LEMMA PayloadStep ==
  ASSUME Base, NEW i, Payload(i)
  PROVE  /\ Base' /\ i \in client.pushed /\ i \in DOMAIN conn /\ conn[i].kind = "data"
         /\ LET x == conn[i] IN
            \E y : /\ Sets(i, y) /\ y.toC = x.toC /\ y.s = x.s /\ y.c = AfterWrite(x.c)
                   /\ y.toS = IF x.c = "open" /\ x.s # "broken"
                              THEN Append(x.toS, <<"payload", 0>>) ELSE x.toS
         /\ client' = [client EXCEPT !.pushed = @ \ {i}]
         /\ faults'.spoke /\ faults'.crash = faults.crash
         /\ faults'.handshake = faults.handshake /\ faults'.restart = faults.restart
         /\ faults'.dial = faults.dial /\ faults'.reset = faults.reset
         /\ UNCHANGED <<backlog, server, sockfds, answer, quit, wake>>
<1> DEFINE x == conn[i]
           y == ClientWrote(x, <<"payload", 0>>)
<1>1. /\ i \in client.pushed /\ i \in DOMAIN conn /\ x \in Connections /\ x.kind = "data"
      /\ conn \in Seq(Connections) /\ i # client.fd
      /\ client' = [client EXCEPT !.pushed = @ \ {i}]
      /\ faults' = [faults EXCEPT !.spoke = TRUE]
      /\ conn' = [conn EXCEPT ![i] = y]
      /\ UNCHANGED <<backlog, server, sockfds, answer, quit, wake>>
  BY ClientFacts, BaseFacts DEF Payload
<1>2. /\ y \in Connections /\ y.kind = x.kind /\ y.req = x.req
      /\ y.toC = x.toC /\ y.s = x.s /\ y.c = AfterWrite(x.c)
      /\ y.toS = IF x.c = "open" /\ x.s # "broken"
                 THEN Append(x.toS, <<"payload", 0>>) ELSE x.toS
  BY <1>1, Sent, ClientWroteFields
<1> HIDE DEF y
<1>3. Sets(i, y)
  BY <1>1, <1>2, OneSet
<1>4. Polite
  BY <1>3, SetsPolite
<1>5. /\ faults' \in Counts
      /\ faults'.spoke /\ faults'.crash = faults.crash
      /\ faults'.handshake = faults.handshake /\ faults'.restart = faults.restart
      /\ faults'.dial = faults.dial /\ faults'.reset = faults.reset
  BY <1>1, BaseFacts DEF Counts
<1>6. ClientGiven
  BY <1>1, <1>3, <1>5, BaseFacts, ClientFacts DEF ClientGiven, Sets
<1>7. /\ client' \in Clients /\ client'.pc = client.pc /\ client'.conn = client.conn
      /\ client'.fd = client.fd /\ client'.pushed = client.pushed \ {i}
  <2>1. client \in Clients
    BY BaseFacts
  <2> QED BY <1>1, <2>1 DEF Clients
<1>8. ClientInHand
  <2>1. /\ Len(conn') = Len(conn) /\ DOMAIN conn' = DOMAIN conn
        /\ \A j \in DOMAIN conn : conn'[j].kind = conn[j].kind
        /\ \A j \in DOMAIN conn : j # i => conn'[j] = conn[j]
    BY <1>3 DEF Sets
  <2>2. {client.conn, client.fd} \subseteq {0} \cup DOMAIN conn
    BY BaseFacts
  <2>3. client.pushed \subseteq DOMAIN conn
    BY ClientFacts
  <2> QED BY <1>1, <1>7, <2>1, <2>2, <2>3 DEF ClientInHand, Base, Hands
<1>9. Base'
  BY <1>1, <1>4, <1>6, <1>8, ClientBase
<1> QED BY <1>1, <1>2, <1>3, <1>5, <1>9

\* The prefixes of what is in flight.
LEMMA PrefixOf ==
  ASSUME NEW S, NEW q \in Seq(S), NEW p \in {<<>>} \cup Prefixes(q)
  PROVE  /\ p \in Seq(S) /\ (q = <<>> => p = <<>>)
         /\ p # <<>> => p[1] = q[1]
         /\ Len(q) = 1 => p = <<>> \/ p = q
<1>1. CASE p = <<>>
  BY <1>1
<1>2. CASE p # <<>>
  <2>1. PICK n \in 1 .. Len(q) : p = SubSeq(q, 1, n)
    BY <1>2 DEF Prefixes
  <2>2. PICK l \in Nat : l = Len(q)
    OBVIOUS
  <2>3. n \in Nat /\ 1 <= n /\ n <= l
    BY <2>1, <2>2
  <2>4. p \in Seq(S) /\ Len(p) = n /\ p[1] = q[1] /\ q # <<>>
    BY <2>1, <2>2, <2>3
  <2>5. Len(q) = 1 => p = q
    BY <2>1, <2>2, <2>3
  <2> QED BY <1>2, <2>4, <2>5
<1> QED BY <1>1, <1>2

\* The network breaks connection i: one end learns of it.
BreakFields(i, y) ==
    LET x == conn[i] IN
    /\ Sets(i, y) /\ x.s = "open" /\ x.c = "open"
    /\ \/ y.s = "broken" /\ y.c = "open"
       \/ y.s = "open" /\ y.c = "broken"
    /\ y.toS \in {<<>>} \cup Prefixes(x.toS) /\ y.toC \in {<<>>} \cup Prefixes(x.toC)

\* What was in flight is lost from some point on.
LEMMA NetworkStep ==
  ASSUME Base, NEW k \in DOMAIN conn, NetworkBreaks(k), faults' \in Counts
  PROVE  /\ Base' /\ \E y : BreakFields(k, y)
         /\ UNCHANGED <<backlog, server, sockfds, answer, client, quit, wake>>
<1> DEFINE x == conn[k]
<1>1. /\ x \in Connections /\ conn \in Seq(Connections) /\ x.s = "open" /\ x.c = "open"
      /\ UNCHANGED <<backlog, server, sockfds, answer, client, quit, wake>>
  BY BaseFacts DEF NetworkBreaks
<1>2. PICK S \in {<<>>} \cup Prefixes(x.toS), C \in {<<>>} \cup Prefixes(x.toC),
           atServer \in BOOLEAN :
        conn' = [conn EXCEPT ![k] = [x EXCEPT
                   !.toS = S, !.toC = C,
                   !.s = IF atServer THEN "broken" ELSE @,
                   !.c = IF atServer THEN @ ELSE "broken"]]
  BY DEF NetworkBreaks
<1>3. PICK s \in {"open", "broken"}, c \in {"open", "broken"} :
        /\ \/ s = "broken" /\ c = "open"
           \/ s = "open" /\ c = "broken"
        /\ s = IF atServer THEN "broken" ELSE x.s
        /\ c = IF atServer THEN x.c ELSE "broken"
  <2>1. CASE atServer = TRUE
    BY <1>1, <2>1
  <2>2. CASE atServer = FALSE
    BY <1>1, <2>2
  <2> QED BY <2>1, <2>2
<1> DEFINE y == [x EXCEPT !.toS = S, !.toC = C, !.s = s, !.c = c]
<1>4. conn' = [conn EXCEPT ![k] = y]
  BY <1>2, <1>3
<1>5. S \in Seq(ToServer(x.kind)) /\ C \in Seq(ToClient) /\ (x.toS = <<>> => S = <<>>)
  <2>1. x.toS \in Seq(ToServer(x.kind)) /\ x.toC \in Seq(ToClient)
    BY <1>1 DEF Connections
  <2> QED BY <2>1, PrefixOf
<1>6. /\ y \in Connections /\ y.kind = x.kind /\ y.req = x.req
      /\ y.toC = C /\ y.toS = S /\ y.s = s /\ y.c = c
  <2>1. S \in Seq(Messages)
    <3>1. x.kind \in {"control", "data"}
      BY <1>1 DEF Connections
    <3>2. ToServer(x.kind) \subseteq Messages
      BY <3>1, Sent
    <3> QED BY <1>5, <3>2
  <2> QED BY <1>1, <1>5, <2>1 DEF Connections, EndStates
<1> HIDE DEF y
<1>7. Sets(k, y)
  BY <1>1, <1>4, <1>6, OneSet
<1>8. BreakFields(k, y)
  BY <1>1, <1>2, <1>3, <1>6, <1>7 DEF BreakFields
<1>9. Polite
  BY <1>7, SetsPolite
<1>10. ClientGiven
  BY <1>1, <1>7, BaseFacts, ClientFacts DEF ClientGiven, Sets
<1>11. ClientInHand
  <2>1. /\ Len(conn') = Len(conn) /\ DOMAIN conn' = DOMAIN conn
        /\ \A j \in DOMAIN conn : conn'[j].kind = conn[j].kind
        /\ \A j \in DOMAIN conn : j # k => conn'[j] = conn[j]
    BY <1>7 DEF Sets
  <2>2. {client.conn, client.fd} \subseteq {0} \cup DOMAIN conn /\ client \in Clients
    BY BaseFacts
  <2>3. /\ client.pushed \subseteq DOMAIN conn
        /\ \A i \in client.pushed : conn'[i].kind = "data" /\ i # client.fd
    BY <2>1, ClientFacts
  <2>4. client.pc = "token" => /\ conn'[client.fd].kind = "data"
                               /\ conn'[client.fd].toS = <<>>
                               /\ conn'[client.fd].s \in {"open", "broken"}
    <3>1. conn'[k] = y /\ y.toS = S /\ y.s \in {"open", "broken"}
      BY <1>3, <1>6, <1>7 DEF Sets
    <3> QED BY <1>5, <2>1, <3>1, ClientFacts
  <2> QED BY <1>1, <2>1, <2>2, <2>3, <2>4 DEF ClientInHand, Base, Hands
<1>12. Base'
  BY <1>1, <1>9, <1>10, <1>11, ClientBase
<1> QED BY <1>1, <1>8, <1>12

\* A break of the control connection.
LEMMA BreakStep ==
  ASSUME Base, Break
  PROVE  /\ Base' /\ client.conn # 0 /\ client.conn \in DOMAIN conn
         /\ \E y : BreakFields(client.conn, y)
         /\ AsBefore
         /\ faults'.handshake = IF client.pc \in {"challenge", "result"}
                                THEN faults.handshake + 1 ELSE faults.handshake
         /\ UNCHANGED <<backlog, server, sockfds, answer, client, quit, wake>>
<1>1. client.conn # 0 /\ client.conn \in DOMAIN conn /\ NetworkBreaks(client.conn)
  BY ClientFacts DEF Break, NoConnection
<1>2. PICK b \in Nat, h \in Nat :
          /\ faults' = [faults EXCEPT !.break = b, !.handshake = h]
          /\ h = IF client.pc \in {"challenge", "result"}
                 THEN faults.handshake + 1 ELSE faults.handshake
  <2>1. faults.break + 1 \in Nat /\ faults.handshake + 1 \in Nat /\ faults.handshake \in Nat
    BY BaseFacts DEF Counts
  <2> QED BY <2>1 DEF Break
<1>3. faults' \in Counts /\ AsBefore /\ faults'.handshake = h
  BY <1>2, BaseFacts DEF Counts, AsBefore
<1> QED BY <1>1, <1>2, <1>3, NetworkStep

\* A tunnel's connection is broken before its token is read.
LEMMA ResetStep ==
  ASSUME Base, Reset
  PROVE  /\ Base'
         /\ \E i \in DOMAIN conn : conn[i].kind = "data" /\ \E y : BreakFields(i, y)
         /\ faults'.crash = faults.crash /\ faults'.restart = faults.restart
         /\ faults'.spoke = faults.spoke /\ faults'.dial = faults.dial
         /\ faults'.handshake = faults.handshake /\ faults'.reset > 0
         /\ UNCHANGED <<backlog, server, sockfds, answer, client, quit, wake>>
<1>1. PICK i \in DOMAIN conn : conn[i].kind = "data" /\ NetworkBreaks(i)
  BY DEF Reset
<1>2. PICK n \in Nat : n > 0 /\ faults' = [faults EXCEPT !.reset = n]
  <2>1. faults.reset + 1 \in Nat /\ faults.reset + 1 > 0
    BY BaseFacts DEF Counts
  <2> QED BY <2>1 DEF Reset
<1>3. /\ faults' \in Counts /\ faults'.reset = n
      /\ faults'.crash = faults.crash /\ faults'.restart = faults.restart
      /\ faults'.spoke = faults.spoke /\ faults'.dial = faults.dial
      /\ faults'.handshake = faults.handshake
  BY <1>2, BaseFacts DEF Counts
<1> QED BY <1>1, <1>2, <1>3, NetworkStep

\* keepalive at the other end.
LEMMA KeepAliveStep ==
  ASSUME Base, KeepAlive
  PROVE  /\ Base'
         /\ \E i \in DOMAIN conn : \E y :
               /\ conn[i].kind = "control" /\ {conn[i].s, conn[i].c} = {"open", "broken"}
               /\ Sets(i, y) /\ y.toS = conn[i].toS /\ y.toC = conn[i].toC
               /\ y.s = "broken" /\ y.c = "broken"
         /\ UNCHANGED <<backlog, server, sockfds, answer, client, quit, wake, faults>>
<1>1. UNCHANGED <<backlog, server, sockfds, answer, client, quit, wake, faults>>
  BY DEF KeepAlive
<1>2. PICK i \in DOMAIN conn :
          /\ conn[i].kind = "control" /\ {conn[i].s, conn[i].c} = {"open", "broken"}
          /\ conn' = [conn EXCEPT ![i].s = "broken", ![i].c = "broken"]
  BY DEF KeepAlive
<1> DEFINE x == conn[i]
           y == [x EXCEPT !.s = "broken", !.c = "broken"]
<1>3. conn \in Seq(Connections) /\ x \in Connections
  BY BaseFacts
<1>4. conn' = [conn EXCEPT ![i] = y]
  BY <1>2, <1>3 DEF Connections
<1>5. /\ y \in Connections /\ y.kind = x.kind /\ y.req = x.req
      /\ y.toC = x.toC /\ y.toS = x.toS /\ y.s = "broken" /\ y.c = "broken"
  BY <1>3 DEF Connections, EndStates
<1> HIDE DEF y
<1>6. Sets(i, y)
  BY <1>3, <1>4, <1>5, OneSet
<1>7. Polite
  BY <1>6, SetsPolite
<1>8. ClientGiven
  BY <1>1, <1>6, BaseFacts, ClientFacts DEF ClientGiven, Sets
<1>9. ClientInHand
  <2>1. /\ Len(conn') = Len(conn) /\ DOMAIN conn' = DOMAIN conn
        /\ \A j \in DOMAIN conn : conn'[j].kind = conn[j].kind
        /\ \A j \in DOMAIN conn : j # i => conn'[j] = conn[j]
    BY <1>6 DEF Sets
  <2>2. {client.conn, client.fd} \subseteq {0} \cup DOMAIN conn /\ client \in Clients
    BY BaseFacts
  <2>3. client.pushed \subseteq DOMAIN conn /\ (client.pc = "token" => client.fd # i)
    BY <1>2, ClientFacts
  <2> QED BY <1>1, <2>1, <2>2, <2>3 DEF ClientInHand, Base, Hands
<1>10. Base'
  BY <1>1, <1>7, <1>8, <1>9, ClientBase
<1> QED BY <1>1, <1>2, <1>5, <1>6, <1>10

\* Nothing happens.
LEMMA StutterBase ==
  ASSUME Base, UNCHANGED vars
  PROVE  Base'
<1>1. UNCHANGED <<conn, backlog, server, sockfds, answer, client, quit, wake, faults>>
  BY DEF vars
<1>2. Types' /\ Numbers'
  BY <1>1 DEF Base, Types, Numbers
<1>3. Hands'
  BY <1>1 DEF Base, Hands
<1>4. Kept'
  BY <1>1 DEF Base, Kept, IsAsking
<1> QED BY <1>2, <1>3, <1>4 DEF Base

\* Base is inductive.
LEMMA NextBase == Base /\ [Next]_vars => Base'
<1> SUFFICES ASSUME Base, [Next]_vars PROVE Base'
  OBVIOUS
<1>1. CASE Server
  BY <1>1, AcceptStep, AnswerStep, ReadyStep, PopStep, SendStep, ReplyStep, DataStep,
     TokenStep DEF Server
<1>2. CASE Client
  BY <1>2, ConnectStep, ChallengeStep, ResultStep, ReadStep, CheckStep, DialStep,
     PushStep, LeaveStep DEF Client
<1>3. CASE Ask \/ WakeFails \/ Quit \/ (\E i \in DOMAIN conn : Payload(i))
  BY <1>3, AskStep, WakeStep, PayloadStep
<1>4. CASE Crash \/ Restart \/ ServerCrash \/ ServerRestart \/ Break \/ Reset
           \/ KeepAlive
  BY <1>4, CrashStep, RestartStep, ServerCrashStep, ServerRestartStep, BreakStep,
     ResetStep, KeepAliveStep
<1>5. CASE UNCHANGED vars
  BY <1>5, StutterBase
<1> QED BY <1>1, <1>2, <1>3, <1>4, <1>5 DEF Next

\* The inductive invariant of types and hands holds of every reachable state.
THEOREM BaseInvariance == Spec => []Base
<1>1. Init => Base
  BY InitBase
<1>2. Base /\ [Next]_vars => Base'
  BY NextBase
<1> QED BY <1>1, <1>2, PTL DEF Spec

\* Every value is what the code can hold: connection numbers, the places of the
\* two managers, and what they have in their hands there.
THEOREM TypeCorrect == Spec => []TypeOK
<1>1. Base => TypeOK
  <2> SUFFICES ASSUME Base PROVE TypeOK
    OBVIOUS
  <2>1. PICK n \in Nat : n = Len(conn) /\ n <= MaxConns /\ DOMAIN conn = 1 .. n
    BY ClientFacts, BaseFacts
  <2>2. MaxConns \in Nat /\ DOMAIN conn \subseteq Ids \ {0}
    BY <2>1, ConnectionManagerAssumption DEF Ids
  <2>3. 0 \in Ids
    BY <2>2 DEF Ids
  <2>4. \A i \in DOMAIN conn : {conn[i].s, conn[i].c} \subseteq {"open", "fin", "gone", "broken"}
    BY BaseFacts DEF Connections, EndStates
  <2>5. /\ server.pc \in {"accept", "answer", "ready", "pop", "send", "reply",
                          "data", "token", "dead"}
        /\ client.pc \in {"connect", "challenge", "result", "read", "check",
                          "dial", "token", "leave", "down", "exited"}
    BY BaseFacts DEF Servers, Clients, Talks, Served
  <2> QED BY <2>1, <2>2, <2>3, <2>4, <2>5, BaseFacts, ClientFacts
          DEF TypeOK, NoConnection
<1> QED BY <1>1, BaseInvariance, PTL

\* A promise that is not fulfilled is in the queue or in the manager's hand, once,
\* whatever breaks on the way: for any number of users, crashes and breaks.
THEOREM NoneDropped == Spec => []RequestKept
<1>1. Base => RequestKept
  <2> SUFFICES ASSUME Base, server.pc # "dead"
               PROVE  LET held == IF server.req = 0 THEN <<>> ELSE <<server.req>> IN
                      sockfds \o held = IF IsAsking THEN <<Len(answer)>> ELSE <<>>
    BY DEF RequestKept
  <2>1. IsAsking => Len(answer) # 0 /\ Len(answer) \in Nat
    BY BaseFacts DEF IsAsking
  <2>2. /\ IsAsking => \/ (sockfds = <<Len(answer)>> /\ server.req = 0)
                       \/ (sockfds = <<>> /\ server.req = Len(answer))
        /\ ~IsAsking => sockfds = <<>> /\ server.req = 0
    <3>1. Kept
      BY DEF Base
    <3>2. CASE IsAsking
      BY <3>1, <3>2 DEF Kept
    <3>3. CASE ~IsAsking
      BY <3>1, <3>3 DEF Kept
    <3> QED BY <3>2, <3>3, Zenon
  <2>3. CASE IsAsking
    <3>1. PICK n \in Nat : n = Len(answer) /\ n # 0
      BY <2>1, <2>3
    <3>2. <<>> \o <<n>> = <<n>> /\ <<n>> \o <<>> = <<n>>
      OBVIOUS
    <3>3. CASE sockfds = <<n>> /\ server.req = 0
      BY <2>3, <3>1, <3>2, <3>3
    <3>4. CASE sockfds = <<>> /\ server.req = n
      BY <2>3, <3>1, <3>2, <3>4
    <3> QED BY <2>2, <2>3, <3>1, <3>3, <3>4
  <2>4. CASE ~IsAsking
    <3>1. <<>> \o <<>> = <<>>
      OBVIOUS
    <3> QED BY <2>2, <2>4, <3>1
  <2> QED BY <2>3, <2>4
<1> QED BY <1>1, BaseInvariance, PTL
-----------------------------------------------------------------------------
(* Connections are accepted in the order they were dialled, so the one at  *)
(* hand is no other user's.                                                *)

\* A step that accepts nothing and answers nobody.
LEMMA OrderStays ==
  ASSUME Base, Order, UNCHANGED <<backlog, answer>>, Len(conn') = Len(conn),
         server'.conn \in {0, server.conn}, server'.fd \in {0, server.fd}
  PROVE  Order'
<1>1. /\ server.conn \in Nat /\ server.fd \in Nat
      /\ \A i \in DOMAIN backlog : backlog[i] \in Nat /\ backlog[i] # 0
  BY BaseFacts DEF Servers
<1>2. \A i \in DOMAIN backlog : server'.conn < backlog[i] /\ server'.fd < backlog[i]
  BY <1>1 DEF Order
<1> QED BY <1>2 DEF Order

\* A connection is dialled.
LEMMA OrderDial ==
  ASSUME Base, Order, NEW k, NEW r, Dials(k, r), backlog' = Append(backlog, Len(conn) + 1),
         UNCHANGED <<server, answer>>
  PROVE  Order'
<1>1. PICK n \in Nat : n = Len(backlog) /\ DOMAIN backlog = 1 .. n
  BY BaseFacts
<1>2. PICK l \in Nat : l = Len(conn) /\ DOMAIN conn = 1 .. l /\ l + 1 \in Nat
  BY BaseFacts
<1>3. /\ DOMAIN backlog' = 1 .. n + 1 /\ Len(backlog') = n + 1
      /\ backlog'[n + 1] = l + 1 /\ \A i \in 1 .. n : backlog'[i] = backlog[i]
  BY <1>1, <1>2, BaseFacts
<1>4. /\ \A i \in 1 .. n : backlog[i] \in 1 .. l
      /\ server.conn \in 0 .. l /\ server.fd \in 0 .. l
      /\ \A q \in DOMAIN answer : answer[q] < l + 1
  <2>1. \A i \in 1 .. n : backlog[i] \in 1 .. l
    BY <1>1, <1>2, BaseFacts
  <2>2. server.conn \in 0 .. l /\ server.fd \in 0 .. l
    BY <1>2, BaseFacts
  <2>3. \A q \in DOMAIN answer : answer[q] \in {-1, -2, 0} \cup (1 .. l)
    BY <1>2, BaseFacts DEF Gone
  <2>4. \A v \in {-1, -2, 0} \cup (1 .. l) : v < l + 1
    BY <1>2
  <2> QED BY <2>1, <2>2, <2>3, <2>4
<1>5. Len(conn') = l + 1
  BY <1>2 DEF Dials
<1>6. \A i, j \in 1 .. n + 1 : i < j => backlog'[i] < backlog'[j]
  <2>1. \A i, j \in 1 .. n : i < j => backlog[i] < backlog[j]
    BY <1>1 DEF Order
  <2>2. \A i \in 1 .. n : backlog[i] < l + 1 /\ ~(n + 1 < i)
    BY <1>2, <1>4
  <2>3. \A i \in 1 .. n + 1 : i \in 1 .. n \/ i = n + 1
    OBVIOUS
  <2> QED BY <2>1, <2>2, <2>3, <1>3
<1>7. \A i \in 1 .. n + 1 : /\ server.conn < backlog'[i] /\ server.fd < backlog'[i]
                            /\ \A q \in DOMAIN answer : answer[q] < backlog'[i]
  <2>1. \A i \in 1 .. n : /\ server.conn < backlog[i] /\ server.fd < backlog[i]
                          /\ \A q \in DOMAIN answer : answer[q] < backlog[i]
    BY <1>1 DEF Order
  <2> QED BY <2>1, <1>3, <1>4
<1>8. /\ server.fd # 0 => \A q \in DOMAIN answer : answer[q] < server.fd
      /\ \A q, p \in DOMAIN answer : answer[q] = answer[p] /\ answer[q] > 0 => q = p
  BY DEF Order
<1> QED BY <1>3, <1>5, <1>6, <1>7, <1>8 DEF Order

\* The server accepts, a control connection or a data connection.
LEMMA OrderAccept ==
  ASSUME Base, Order, backlog # <<>>, backlog' = Tail(backlog), Len(conn') = Len(conn),
         UNCHANGED answer, server.fd = 0,
         \/ server'.conn = backlog[1] /\ server'.fd = 0
         \/ server'.conn = server.conn /\ server'.fd = backlog[1]
  PROVE  Order'
<1>1. PICK n \in Nat : n = Len(backlog) /\ n # 0 /\ DOMAIN backlog = 1 .. n
  BY BaseFacts
<1>2. /\ DOMAIN backlog' = 1 .. n - 1 /\ Len(backlog') = n - 1
      /\ \A i \in 1 .. n - 1 : i + 1 \in 1 .. n /\ backlog'[i] = backlog[i + 1]
  BY <1>1, BaseFacts
<1>3. /\ \A i \in 1 .. n : backlog[i] \in Nat /\ backlog[i] # 0
      /\ \A q \in DOMAIN answer : answer[q] \in Int
      /\ server.conn \in Nat
  <2>1. \A i \in 1 .. n : backlog[i] \in Nat /\ backlog[i] # 0
    BY <1>1, BaseFacts
  <2>2. server.conn \in Nat
    BY BaseFacts DEF Servers
  <2> QED BY <2>1, <2>2, BaseFacts
<1>4. /\ \A i, j \in 1 .. n : i < j => backlog[i] < backlog[j]
      /\ backlog[n] = Len(conn)
      /\ \A i \in 1 .. n : /\ server.conn < backlog[i]
                           /\ \A q \in DOMAIN answer : answer[q] < backlog[i]
      /\ \A q, p \in DOMAIN answer : answer[q] = answer[p] /\ answer[q] > 0 => q = p
  BY <1>1, BaseFacts DEF Order
<1>5. \A i, j \in 1 .. n - 1 : i < j => backlog'[i] < backlog'[j]
  BY <1>1, <1>2, <1>4
<1>6. n - 1 # 0 => backlog'[n - 1] = Len(conn)
  BY <1>1, <1>2, <1>4
<1>7. \A i \in 1 .. n - 1 : backlog[1] < backlog'[i] /\ server.conn < backlog'[i]
                            /\ 0 < backlog'[i]
                            /\ \A q \in DOMAIN answer : answer[q] < backlog'[i]
  BY <1>1, <1>2, <1>3, <1>4
<1>8. \A i \in DOMAIN backlog' : /\ server'.conn < backlog'[i] /\ server'.fd < backlog'[i]
                                 /\ \A q \in DOMAIN answer : answer[q] < backlog'[i]
  BY <1>2, <1>7
<1>9. server'.fd # 0 => \A q \in DOMAIN answer : answer[q] < server'.fd
  BY <1>1, <1>4
<1>10. backlog' # <<>> => backlog'[Len(backlog')] = Len(conn')
  BY <1>2, <1>6
<1> QED BY <1>2, <1>4, <1>5, <1>8, <1>9, <1>10 DEF Order

\* The last request gets an answer: none, or the connection at hand.
LEMMA OrderAnswer ==
  ASSUME Base, Order, NEW v, v = -1 \/ (v = server.fd /\ server.fd # 0), UNCHANGED backlog,
         answer' = [answer EXCEPT ![Len(answer)] = v], Len(conn') = Len(conn),
         server'.conn = server.conn, server'.fd = 0
  PROVE  Order'
<1>1. /\ DOMAIN answer' = DOMAIN answer
      /\ \A q \in DOMAIN answer : answer'[q] = IF q = Len(answer) THEN v ELSE answer[q]
  BY BaseFacts
<1>2. /\ server.conn \in Nat /\ server.fd \in Nat /\ v \in Int
      /\ \A i \in DOMAIN backlog : backlog[i] \in Nat /\ backlog[i] # 0
      /\ \A q \in DOMAIN answer : answer[q] \in Int
  BY BaseFacts DEF Servers
<1>3. \A i \in DOMAIN backlog : /\ server.conn < backlog[i] /\ 0 < backlog[i] /\ v < backlog[i]
                                /\ \A q \in DOMAIN answer : answer[q] < backlog[i]
  BY <1>2 DEF Order
<1>4. v > 0 => \A q \in DOMAIN answer : answer[q] < v
  BY <1>2 DEF Order
<1>5. \A q, p \in DOMAIN answer : answer'[q] = answer'[p] /\ answer'[q] > 0 => q = p
  <2>1. \A q, p \in DOMAIN answer : answer[q] = answer[p] /\ answer[q] > 0 => q = p
    BY DEF Order
  <2> QED BY <2>1, <1>1, <1>2, <1>4
<1>6. \A i \in DOMAIN backlog : \A q \in DOMAIN answer : answer'[q] < backlog[i]
  BY <1>1, <1>3
<1>7. /\ \A i, j \in DOMAIN backlog : i < j => backlog[i] < backlog[j]
      /\ backlog # <<>> => backlog[Len(backlog)] = Len(conn)
  BY DEF Order
<1> QED BY <1>1, <1>3, <1>5, <1>6, <1>7 DEF Order

\* A user asks, or the users of a server that crashed are gone.
LEMMA OrderAsk ==
  ASSUME Base, Order, Ask
  PROVE  Order'
<1>1. answer' = Append(answer, 0) /\ UNCHANGED <<conn, backlog, server>>
  BY DEF Ask, Pending
<1>2. PICK n \in Nat : n = Len(answer) /\ DOMAIN answer = 1 .. n /\ n + 1 \in Nat
  BY BaseFacts
<1>3. /\ DOMAIN answer' = 1 .. n + 1 /\ answer'[n + 1] = 0
      /\ \A q \in 1 .. n : answer'[q] = answer[q]
  <2>1. answer \in Seq(Int) /\ 0 \in Int
    BY BaseFacts
  <2> QED BY <1>1, <1>2, <2>1
<1>4. \A q \in 1 .. n + 1 : q \in 1 .. n \/ q = n + 1
  BY <1>2
<1>5. /\ server.fd \in Nat
      /\ \A i \in DOMAIN backlog : backlog[i] \in Nat /\ backlog[i] # 0
  BY BaseFacts DEF Servers
<1>6. \A i \in DOMAIN backlog : \A q \in DOMAIN answer' : answer'[q] < backlog[i]
  BY <1>2, <1>3, <1>4, <1>5 DEF Order
<1>7. server.fd # 0 => \A q \in DOMAIN answer' : answer'[q] < server.fd
  BY <1>2, <1>3, <1>4, <1>5 DEF Order
<1>8. \A q, p \in DOMAIN answer' : answer'[q] = answer'[p] /\ answer'[q] > 0 => q = p
  <2>1. \A q, p \in DOMAIN answer : answer[q] = answer[p] /\ answer[q] > 0 => q = p
    BY DEF Order
  <2> QED BY <1>2, <1>3, <1>4, <2>1
<1> QED BY <1>1, <1>6, <1>7, <1>8 DEF Order

\* A restarted server has accepted nothing; the users it had are gone.
LEMMA OrderRestart ==
  ASSUME Base, Order, ServerRestart
  PROVE  Order'
<1>1. /\ server'.conn = 0 /\ server'.fd = 0 /\ backlog' = <<>>
      /\ DOMAIN answer' = DOMAIN answer
      /\ \A r \in DOMAIN answer :
            answer'[r] = IF answer[r] = Pending THEN Gone ELSE answer[r]
  BY ServerRestartStep DEF NewServer, NoConnection
<1>2. \A r, q \in DOMAIN answer : answer'[r] = answer'[q] /\ answer'[r] > 0 => r = q
  <2>1. \A r, q \in DOMAIN answer : answer[r] = answer[q] /\ answer[r] > 0 => r = q
    BY DEF Order
  <2> QED BY <1>1, <2>1 DEF Gone
<1> QED BY <1>1, <1>2 DEF Order

\* The steps of the server.
LEMMA ServerOrder ==
  ASSUME Base, Order, Server
  PROVE  Order'
<1>1. server \in Servers /\ server.conn \in Nat /\ server.fd \in Nat
  BY BaseFacts DEF Servers
<1>2. CASE ServerAccept
  <2>1. /\ server'.conn = backlog[1] /\ server'.fd = 0 /\ Len(conn') = Len(conn)
    BY <1>2, AcceptStep DEF Sets
  <2>2. server.pc = "accept" /\ backlog # <<>> /\ backlog' = Tail(backlog) /\ UNCHANGED answer
    BY <1>2 DEF ServerAccept
  <2>3. server.fd = 0
    BY <2>2, BaseFacts
  <2> QED BY <2>1, <2>2, <2>3, OrderAccept
<1>3. CASE ServerAnswer
  <2>1. UNCHANGED <<backlog, answer>>
    BY <1>3, AnswerFacts
  <2>2. CASE ServerDies
    <3>1. AllClosed(ServerClosed)
      BY <2>2, AllEnd, BaseFacts DEF ServerDies
    <3>2. server'.conn = server.conn /\ server'.fd = server.fd
      BY <2>2, <1>1 DEF ServerDies, Servers
    <3> QED BY <2>1, <3>1, <3>2, OrderStays DEF AllClosed
  <2>3. CASE \E y : AnswerFields(y)
    <3>1. PICK y : AnswerFields(y)
      BY <2>3
    <3>2. server'.conn = server.conn /\ server'.fd = server.fd
      BY <3>1, <1>1 DEF AnswerFields, Servers
    <3>3. Len(conn') = Len(conn)
      BY <3>1 DEF AnswerFields, Sets
    <3> QED BY <2>1, <3>2, <3>3, OrderStays
  <2> QED BY <1>3, <2>2, <2>3, AnswerFacts
<1>4. CASE ServerReady
  <2>1. PICK y : ReadyFields(y)
    BY <1>4, ReadyStep
  <2>2. UNCHANGED <<backlog, answer>> /\ server'.conn = server.conn /\ server'.fd = server.fd
    BY <1>1, <1>4, ReadyStep DEF Servers
  <2>3. Len(conn') = Len(conn)
    BY <2>1 DEF ReadyFields, Sets
  <2> QED BY <2>2, <2>3, OrderStays
<1>5. CASE ServerPop
  <2>1. UNCHANGED <<conn, backlog, answer>> /\ server'.conn = server.conn
        /\ server'.fd = server.fd
    BY <1>1, <1>5, PopStep DEF Servers
  <2> QED BY <2>1, OrderStays
<1>6. CASE ServerSend
  <2>1. UNCHANGED <<backlog, answer>> /\ server'.conn = server.conn /\ server'.fd = server.fd
    BY <1>1, <1>6, SendStep DEF Servers
  <2>2. Len(conn') = Len(conn)
    BY <1>6, SendStep DEF PipeFields, SendFields, Sets
  <2> QED BY <2>1, <2>2, OrderStays
<1>7. CASE ServerReply
  <2>1. /\ Len(conn') = Len(conn) /\ UNCHANGED backlog
        /\ UNCHANGED answer \/ answer' = [answer EXCEPT ![Len(answer)] = -1]
    BY <1>7, ReplyStep DEF PipeFields, ReplyFields, Sets
  <2>2. server'.conn = server.conn /\ server'.fd = server.fd
    BY <1>1, <1>7, ReplyStep DEF Servers
  <2>3. server.fd = 0
    BY <1>7, ReplyStep, BaseFacts
  <2>4. CASE UNCHANGED answer
    BY <2>1, <2>2, <2>4, OrderStays
  <2>5. CASE answer' = [answer EXCEPT ![Len(answer)] = -1]
    BY <2>1, <2>2, <2>3, <2>5, OrderAnswer
  <2> QED BY <2>1, <2>4, <2>5
<1>8. CASE ServerData
  <2>1. /\ backlog # <<>> /\ backlog' = Tail(backlog) /\ UNCHANGED <<conn, answer>>
        /\ server'.conn = server.conn /\ server'.fd = backlog[1] /\ server.pc = "data"
    BY <1>1, <1>8, DataStep DEF Servers
  <2>2. server.fd = 0
    BY <2>1, BaseFacts
  <2> QED BY <2>1, <2>2, OrderAccept
<1>9. CASE ServerToken
  <2>1. UNCHANGED backlog /\ server.pc = "token"
    BY <1>9, TokenStep
  <2>2. CASE ServerDies /\ UNCHANGED answer
    <3>1. AllClosed(ServerClosed)
      BY <2>2, AllEnd, BaseFacts DEF ServerDies
    <3>2. server'.conn = server.conn /\ server'.fd = server.fd
      BY <2>2, <1>1 DEF ServerDies, Servers
    <3> QED BY <2>1, <2>2, <3>1, <3>2, OrderStays DEF AllClosed
  <2>3. CASE \E y, m : /\ TokenFields(y, m)
                       /\ \/ /\ m = server.res
                             /\ answer' = [answer EXCEPT ![Len(answer)] = server.fd]
                             /\ TokenEnds("pop")
                          \/ /\ m # server.res
                             /\ answer' = [answer EXCEPT ![Len(answer)] = -1]
                             /\ TokenEnds("accept")
    <3>1. PICK v \in {-1, server.fd} : answer' = [answer EXCEPT ![Len(answer)] = v]
      BY <2>3
    <3>2. Len(conn') = Len(conn)
      BY <2>3 DEF TokenFields, Sets
    <3>3. server'.conn = server.conn /\ server'.fd = 0
      BY <1>1, <2>3 DEF TokenEnds, Servers, NoConnection
    <3>4. server.fd # 0
      BY <2>1, BaseFacts
    <3> QED BY <2>1, <3>1, <3>2, <3>3, <3>4, OrderAnswer
  <2> QED BY <1>9, <2>2, <2>3, TokenStep
<1> QED BY <1>2, <1>3, <1>4, <1>5, <1>6, <1>7, <1>8, <1>9 DEF Server

\* The steps of the client.
LEMMA ClientOrder ==
  ASSUME Base, Order, Client
  PROVE  Order'
<1>1. server.conn \in Nat /\ server.fd \in Nat
  BY BaseFacts DEF Servers
<1>2. UNCHANGED <<server, answer>>
  BY DEF Client, ClientConnect, ClientChallenge, ClientResult, ClientRead, ClientCheck,
         ClientDial, ClientToken, ClientLeave, clientKeeps
<1>3. \/ UNCHANGED backlog /\ Len(conn') = Len(conn)
      \/ \E k, r : Dials(k, r) /\ backlog' = Append(backlog, Len(conn) + 1)
  <2>1. CASE ClientConnect
    BY <2>1, ConnectStep DEF AllClosed
  <2>2. CASE ClientChallenge
    BY <2>2, ChallengeStep DEF ClientWrites, Sets
  <2>3. CASE ClientResult
    BY <2>3, ResultStep DEF ClientWrites, Sets, AllClosed
  <2>4. CASE ClientRead
    BY <2>4, ReadStep DEF ReconnectFields, ReadFields, Sets
  <2>5. CASE ClientCheck
    BY <2>5, CheckStep DEF ReconnectFields, ClientWrites, Sets
  <2>6. CASE ClientDial
    BY <2>6, DialStep
  <2>7. CASE ClientToken
    BY <2>7, PushStep DEF Sets
  <2>8. CASE ClientLeave
    BY <2>8, LeaveStep DEF AllClosed
  <2> QED BY <2>1, <2>2, <2>3, <2>4, <2>5, <2>6, <2>7, <2>8 DEF Client
<1>4. CASE UNCHANGED backlog /\ Len(conn') = Len(conn)
  BY <1>1, <1>2, <1>4, OrderStays
<1>5. CASE \E k, r : Dials(k, r) /\ backlog' = Append(backlog, Len(conn) + 1)
  BY <1>2, <1>5, OrderDial
<1> QED BY <1>3, <1>4, <1>5

\* Order is inductive, given Base.
LEMMA NextOrder == Base /\ Order /\ [Next]_vars => Order'
<1> SUFFICES ASSUME Base, Order, [Next]_vars PROVE Order'
  OBVIOUS
<1>1. server.conn \in Nat /\ server.fd \in Nat
  BY BaseFacts DEF Servers
<1>2. CASE UNCHANGED <<backlog, answer, server>> /\ Len(conn') = Len(conn)
  BY <1>1, <1>2, OrderStays
<1>3. CASE WakeFails \/ Quit
  BY <1>2, <1>3, WakeStep
<1>4. CASE \E i \in DOMAIN conn : Payload(i)
  <2>1. PICK i \in DOMAIN conn : Payload(i)
    BY <1>4
  <2>2. UNCHANGED <<backlog, answer, server>> /\ Len(conn') = Len(conn)
    BY <2>1, PayloadStep DEF Sets
  <2> QED BY <1>2, <2>2
<1>5. CASE Crash
  <2>1. UNCHANGED <<backlog, answer, server>> /\ Len(conn') = Len(conn)
    BY <1>5, CrashStep DEF AllClosed
  <2> QED BY <1>2, <2>1
<1>6. CASE Restart
  <2>1. UNCHANGED <<backlog, answer, server>> /\ Len(conn') = Len(conn)
    BY <1>6, RestartStep
  <2> QED BY <1>2, <2>1
<1>7. CASE ServerCrash
  <2>1. /\ UNCHANGED <<backlog, answer>> /\ Len(conn') = Len(conn)
        /\ server'.conn = server.conn /\ server'.fd = server.fd
    BY <1>7, ServerCrashStep DEF AllClosed
  <2> QED BY <2>1, OrderStays
<1>8. CASE Break
  <2>1. UNCHANGED <<backlog, answer, server>> /\ Len(conn') = Len(conn)
    BY <1>8, BreakStep DEF BreakFields, Sets
  <2> QED BY <1>2, <2>1
<1>9. CASE KeepAlive
  <2>1. UNCHANGED <<backlog, answer, server>> /\ Len(conn') = Len(conn)
    BY <1>9, KeepAliveStep DEF Sets
  <2> QED BY <1>2, <2>1
<1>10. CASE Reset
  <2>1. UNCHANGED <<backlog, answer, server>> /\ Len(conn') = Len(conn)
    BY <1>10, ResetStep DEF BreakFields, Sets
  <2> QED BY <1>2, <2>1
<1>11. CASE UNCHANGED vars
  BY <1>2, <1>11 DEF vars
<1> QED BY <1>3, <1>4, <1>5, <1>6, <1>7, <1>8, <1>9, <1>10, <1>11, OrderAsk, OrderRestart,
           ServerOrder, ClientOrder DEF Next

\* Nothing was dialled yet.
LEMMA InitOrder == Init => Order
  BY DEF Init, Order, NewServer, NoConnection

\* The connections wait in the order they were dialled, and nobody accepts one
\* that was accepted, or given to a user, before.
THEOREM InOrder == Spec => [](Base /\ Order)
<1>1. Init => Base /\ Order
  BY InitBase, InitOrder
<1>2. Base /\ Order /\ [Next]_vars => Base' /\ Order'
  BY NextBase, NextOrder
<1> QED BY <1>1, <1>2, PTL DEF Spec

-----------------------------------------------------------------------------
(* While nobody quits, no process crashes, no connection fails in a handshake *)
(* and no tunnel's breaks before its token is read, both processes stay.      *)

Calm == ~quit /\ faults.handshake = 0 /\ faults.reset = 0 /\ ProcessesStay

InHandshake == client.pc \in {"challenge", "result"}

\* The client's connection has not been accepted yet.
Waits == \E i \in DOMAIN backlog : backlog[i] = client.conn

\* How far a handshake is: each end waits for what the other has sent or will send.
\* A server that takes the connection for a data connection waits, and so does the
\* client, but neither ends.
Handshake ==
    LET x == conn[client.conn]
        At(pc) == server.pc = pc /\ server.conn = client.conn
        Flying(toS, toC) == x.toS = toS /\ x.toC = toC
    IN  /\ x.s = "open" /\ x.c = "open"
        /\ \/ /\ client.pc = "challenge" /\ Flying(<<>>, <<>>)
              /\ Waits \/ (server.pc = "token" /\ server.fd = client.conn)
           \/ client.pc = "challenge" /\ At("answer") /\ Flying(<<>>, <<<<"challenge", 0>>>>)
           \/ client.pc = "result" /\ At("answer") /\ Flying(<<<<"answer", 0>>>>, <<>>)
           \/ client.pc = "result" /\ At("ready") /\ Flying(<<>>, <<<<"success", 0>>>>)

\* No read of the server can fail where it throws: data connections do not break
\* while it is calm, and a control connection at which it would is the one of a handshake.
Going ==
    /\ server.pc # "dead" /\ client.pc \notin {"exited", "down", "leave"}
    /\ \A i \in DOMAIN conn : conn[i].kind = "data" => conn[i].s = "open"
    /\ InHandshake => Handshake
    /\ \A i \in DOMAIN backlog : conn[backlog[i]].kind = "control" =>
          client.pc = "challenge" /\ client.conn = backlog[i]
    /\ server.pc = "answer" /\ conn[server.conn].kind = "control" =>
          InHandshake /\ client.conn = server.conn
    /\ server.pc = "token" /\ conn[server.fd].kind = "control" =>
          client.pc = "challenge" /\ client.conn = server.fd

\* One connection of a step changes, and none of the data connections breaks.
Only(i) ==
    /\ DOMAIN conn' = DOMAIN conn
    /\ \A j \in DOMAIN conn :
          /\ conn'[j].kind = conn[j].kind
          /\ j # i => conn'[j] = conn[j]
          /\ conn[j].kind = "data" /\ conn[j].s = "open" => conn'[j].s = "open"

LEMMA OnlySets ==
  ASSUME NEW i, NEW y, Sets(i, y), conn[i].s = "open" => y.s = "open" \/ y.kind # "data"
  PROVE  Only(i)
  BY DEF Sets, Only

LEMMA OnlyNone ==
  ASSUME UNCHANGED conn, NEW i
  PROVE  Only(i)
  BY DEF Only

\* A connection that waits is in nobody's hands.
LEMMA Waiting ==
  ASSUME Base, Order, Going, InHandshake, Waits
  PROVE  LET x == conn[client.conn] IN
         /\ client.pc = "challenge" /\ x.toS = <<>> /\ x.toC = <<>>
         /\ x.s = "open" /\ x.c = "open"
         /\ server.conn # client.conn /\ server.fd # client.conn
<1>1. Handshake
  BY DEF Going
<1>2. server.conn \in Nat /\ server.fd \in Nat /\ client.conn \in Nat
  BY BaseFacts, ClientFacts DEF Servers
<1>3. server.conn # client.conn /\ server.fd # client.conn
  BY <1>2 DEF Waits, Order
<1> QED BY <1>1, <1>3 DEF Handshake

\* The server does something, and the client's connection waits or there is none.
LEMMA ServerFar ==
  ASSUME Base, Order, Going, NEW i, Only(i), UNCHANGED <<backlog, client>>,
         server'.pc \notin {"answer", "token", "dead"},
         InHandshake => Waits /\ i # client.conn
  PROVE  Going'
<1>1. \A j \in DOMAIN backlog : backlog[j] \in DOMAIN conn
  BY BaseFacts
<1>2. \A j \in DOMAIN conn' : conn'[j].kind = "data" => conn'[j].s = "open"
  BY DEF Going, Only
<1>3. \A j \in DOMAIN backlog' : conn'[backlog'[j]].kind = "control" =>
         client'.pc = "challenge" /\ client'.conn = backlog'[j]
  BY <1>1 DEF Going, Only
<1>4. ASSUME InHandshake PROVE Handshake'
  <2>1. client.conn \in DOMAIN conn /\ conn'[client.conn] = conn[client.conn]
    BY <1>4, ClientFacts DEF Only, InHandshake
  <2>2. Waits'
    BY <1>4 DEF Waits
  <2> QED BY <1>4, <2>1, <2>2, Waiting DEF Handshake
<1> QED BY <1>2, <1>3, <1>4 DEF Going, InHandshake

\* The server and the sockets it accepts from do nothing, the client stays where it
\* is, or goes on outside a handshake.
LEMMA ClientFar ==
  ASSUME Base, Going, NEW i, Only(i), UNCHANGED <<backlog, server>>,
         \/ client'.pc = client.pc /\ client'.conn = client.conn
         \/ ~InHandshake /\ client'.pc \notin {"challenge", "result", "exited", "down", "leave"},
         InHandshake => i # client.conn
  PROVE  Going'
<1>1. \A j \in DOMAIN backlog : backlog[j] \in DOMAIN conn
  BY BaseFacts
<1>2. /\ server.pc = "answer" => server.conn \in DOMAIN conn
      /\ server.pc = "token" => server.fd \in DOMAIN conn
  BY BaseFacts DEF Talks
<1>3. \A j \in DOMAIN conn' : conn'[j].kind = "data" => conn'[j].s = "open"
  BY DEF Going, Only
<1>4. CASE client'.pc = client.pc /\ client'.conn = client.conn
  <2>1. \A j \in DOMAIN backlog' : conn'[backlog'[j]].kind = "control" =>
           client'.pc = "challenge" /\ client'.conn = backlog'[j]
    BY <1>1, <1>4 DEF Going, Only
  <2>2. /\ server'.pc = "answer" /\ conn'[server'.conn].kind = "control" =>
               InHandshake' /\ client'.conn = server'.conn
        /\ server'.pc = "token" /\ conn'[server'.fd].kind = "control" =>
               client'.pc = "challenge" /\ client'.conn = server'.fd
    BY <1>2, <1>4 DEF Going, Only, InHandshake
  <2>3. ASSUME InHandshake PROVE Handshake'
    <3>1. client.conn \in DOMAIN conn /\ conn'[client.conn] = conn[client.conn]
      BY <2>3, ClientFacts DEF Only, InHandshake
    <3>2. Handshake /\ (Waits => Waits')
      BY <1>4, <2>3 DEF Waits, Going
    <3> QED BY <1>4, <3>1, <3>2 DEF Handshake
  <2> QED BY <1>3, <1>4, <2>1, <2>2, <2>3 DEF Going, InHandshake
<1>5. CASE /\ ~InHandshake
           /\ client'.pc \notin {"challenge", "result", "exited", "down", "leave"}
  <2>1. \A j \in DOMAIN backlog' : conn'[backlog'[j]].kind # "control"
    BY <1>1, <1>5 DEF Going, Only, InHandshake
  <2>2. /\ ~(server'.pc = "answer" /\ conn'[server'.conn].kind = "control")
        /\ ~(server'.pc = "token" /\ conn'[server'.fd].kind = "control")
    BY <1>2, <1>5 DEF Going, Only, InHandshake
  <2> QED BY <1>3, <1>5, <2>1, <2>2 DEF Going, InHandshake
<1> QED BY <1>4, <1>5

\* The server takes a connection for what it expects.
LEMMA GoingAccepts ==
  ASSUME Base, Order, Going, ServerAccept \/ ServerData
  PROVE  Going'
<1> DEFINE b == backlog[1]
<1>1. /\ backlog # <<>> /\ backlog' = Tail(backlog) /\ b \in DOMAIN conn /\ UNCHANGED client
  <2>1. CASE ServerAccept
    <3>1. b \in DOMAIN conn
      BY <2>1, AcceptStep
    <3> QED BY <2>1, <3>1 DEF ServerAccept, serverKeeps
  <2>2. CASE ServerData
    BY <2>2, DataStep
  <2> QED BY <2>1, <2>2
<1>2. /\ Only(b) /\ conn'[b].kind = conn[b].kind
      /\ conn[b].s = "open" => conn'[b].s = "open"
      /\ conn'[b].c = conn[b].c /\ conn'[b].toS = conn[b].toS
  <2>1. CASE ServerAccept
    <3> DEFINE y == ServerWrote(conn[b], <<"challenge", 0>>)
    <3>1. Sets(b, y)
      BY <2>1, AcceptStep
    <3>2. conn[b] \in Connections /\ <<"challenge", 0>> \in ToClient
      BY <1>1, BaseFacts, Sent
    <3>3. y.s = AfterWrite(conn[b].s) /\ y.c = conn[b].c /\ y.toS = conn[b].toS
      BY <3>2, ServerWroteFields
    <3>4. conn[b].s = "open" => y.s = "open"
      BY <3>3 DEF AfterWrite
    <3> HIDE DEF y
    <3>5. Only(b)
      BY <3>1, <3>4, OnlySets
    <3> QED BY <3>1, <3>3, <3>4, <3>5 DEF Sets
  <2>2. CASE ServerData
    <3>1. conn' = conn
      BY <2>2, DataStep
    <3> QED BY <3>1, OnlyNone
  <2> QED BY <1>1, <2>1, <2>2
<1>3. \/ /\ server'.pc = "answer" /\ server'.conn = b
         /\ conn[b].s = "open" /\ conn[b].c = "open" /\ conn[b].toC = <<>> =>
               conn'[b].toC = <<<<"challenge", 0>>>>
      \/ server'.pc = "token" /\ server'.fd = b /\ conn'[b].toC = conn[b].toC
  <2>1. CASE ServerAccept
    <3>1. /\ server'.pc = "answer" /\ server'.conn = b
          /\ conn'[b] = ServerWrote(conn[b], <<"challenge", 0>>)
      BY <2>1, AcceptStep DEF Sets
    <3>2. conn[b] \in Connections /\ <<"challenge", 0>> \in ToClient
      BY <1>1, BaseFacts, Sent
    <3> DEFINE y == ServerWrote(conn[b], <<"challenge", 0>>)
    <3>3. y.toC = IF conn[b].s = "open" /\ conn[b].c # "broken"
                  THEN Append(conn[b].toC, <<"challenge", 0>>) ELSE conn[b].toC
      BY <3>2, ServerWroteFields
    <3>4. conn'[b] = y
      BY <3>1
    <3> HIDE DEF y
    <3>5. conn[b].toC = <<>> => Append(conn[b].toC, <<"challenge", 0>>) = <<<<"challenge", 0>>>>
      OBVIOUS
    <3> QED BY <3>1, <3>3, <3>4, <3>5
  <2>2. CASE ServerData
    <3>1. server'.pc = "token" /\ server'.fd = b /\ conn' = conn
      BY <2>2, DataStep, BaseFacts DEF Servers
    <3> QED BY <3>1
  <2> QED BY <2>1, <2>2
<1>4. server.pc \in {"accept", "data"}
  BY DEF ServerAccept, ServerData
<1>5. \A j \in DOMAIN backlog' : /\ j + 1 \in DOMAIN backlog /\ backlog'[j] = backlog[j + 1]
                                 /\ backlog'[j] \in DOMAIN conn
  BY <1>1, Tails, BaseFacts
<1>6. b # client.conn => (Waits => Waits')
  <2>1. PICK n \in Nat : n = Len(backlog) /\ n # 0 /\ DOMAIN backlog = 1 .. n
    BY <1>1, BaseFacts
  <2>2. DOMAIN backlog' = 1 .. n - 1
    BY <1>1, <2>1, BaseFacts
  <2>3. ASSUME b # client.conn, Waits PROVE Waits'
    <3>1. PICK j \in 1 .. n : backlog[j] = client.conn /\ j # 1
      BY <2>1, <2>3 DEF Waits
    <3>2. j - 1 \in 1 .. n - 1 /\ (j - 1) + 1 = j
      BY <2>1, <3>1
    <3>3. backlog'[j - 1] = client'.conn
      BY <1>1, <1>5, <2>2, <3>1, <3>2
    <3> QED BY <2>2, <3>2, <3>3 DEF Waits
  <2> QED BY <2>3
<1>7. \A j \in DOMAIN conn' : conn'[j].kind = "data" => conn'[j].s = "open"
  BY <1>2 DEF Going, Only
<1>8. \A j \in DOMAIN backlog' : conn'[backlog'[j]].kind = "control" =>
         client'.pc = "challenge" /\ client'.conn = backlog'[j]
  BY <1>1, <1>2, <1>5 DEF Going, Only
<1>9. conn[b].kind = "control" => client.pc = "challenge" /\ client.conn = b
  BY <1>1, BaseFacts, Tails DEF Going
<1>10. /\ server'.pc = "answer" /\ conn'[server'.conn].kind = "control" =>
             InHandshake' /\ client'.conn = server'.conn
       /\ server'.pc = "token" /\ conn'[server'.fd].kind = "control" =>
             client'.pc = "challenge" /\ client'.conn = server'.fd
  BY <1>1, <1>2, <1>3, <1>9 DEF InHandshake
<1>11. ASSUME InHandshake PROVE Handshake'
  <2>1. Waits
    BY <1>4, <1>11 DEF Going, Handshake
  <2>2. /\ client.pc = "challenge" /\ conn[client.conn].toS = <<>> /\ conn[client.conn].toC = <<>>
        /\ conn[client.conn].s = "open" /\ conn[client.conn].c = "open"
    BY <1>11, <2>1, Waiting
  <2>3. CASE b = client.conn
    <3> HIDE DEF b
    <3> QED BY <1>1, <1>2, <1>3, <2>2, <2>3 DEF Handshake
  <2>4. CASE b # client.conn
    <3>1. client.conn \in DOMAIN conn
      BY <1>11, ClientFacts DEF InHandshake
    <3>2. conn'[client.conn] = conn[client.conn] /\ Waits'
      BY <1>2, <1>6, <2>1, <2>4, <3>1 DEF Only
    <3> QED BY <1>1, <2>2, <3>2 DEF Handshake
  <2> QED BY <2>3, <2>4
<1>12. server'.pc # "dead"
  BY <1>3
<1> QED BY <1>1, <1>7, <1>8, <1>10, <1>11, <1>12 DEF Going, InHandshake

\* The server reads an answer: that of the handshake, or the token of a data
\* connection it has taken for a control connection.
LEMMA GoingAnswers ==
  ASSUME Base, Order, Going, ServerAnswer
  PROVE  Going'
<1> DEFINE x == conn[server.conn]
<1>1. /\ server.pc = "answer" /\ server.conn \in DOMAIN conn /\ x \in Connections
      /\ UNCHANGED <<backlog, client>> /\ server \in Servers
  BY AnswerFacts, BaseFacts
<1>2. x.kind = "control" => InHandshake /\ client.conn = server.conn
  BY <1>1 DEF Going
<1>3. InHandshake /\ client.conn = server.conn =>
         x.s = "open" /\ x.c = "open"
  BY DEF Going, Handshake
<1>4. x.kind \in {"control", "data"} /\ (x.kind = "data" => x.s = "open")
  BY <1>1 DEF Going, Connections
<1>5. x.s = "open"
  BY <1>2, <1>3, <1>4
<1>6. PICK y : AnswerFields(y)
  <2>1. \E y : AnswerFields(y)
    BY <1>5, AnswerFacts
  <2> QED BY <2>1
<1>7. /\ Sets(server.conn, y) /\ y.s = "open" /\ server'.pc \in {"ready", "accept"}
      /\ x.toS # <<>>
  BY <1>1, <1>5, <1>6 DEF AnswerFields, AfterWrite, Servers
<1>8. Only(server.conn)
  BY <1>7, OnlySets
<1>9. CASE InHandshake /\ client.conn = server.conn
  <2>1. /\ client.pc = "result" /\ x.toS = <<<<"answer", 0>>>> /\ x.toC = <<>>
    BY <1>1, <1>7, <1>9, Waiting DEF Going, Handshake
  <2>2. Append(x.toC, <<"success", 0>>) = <<<<"success", 0>>>>
    BY <2>1
  <2>3. x.toS[1] = <<"answer", 0>> /\ Len(x.toS) = 1
    BY <2>1
  <2>4. y.toS = <<>> /\ y.c = "open" /\ server' = [server EXCEPT !.pc = "ready"]
    BY <1>3, <1>6, <1>9, <2>3 DEF AnswerFields
  <2>5. y.toC = <<<<"success", 0>>>>
    BY <1>3, <1>6, <1>9, <2>2, <2>3 DEF AnswerFields
  <2>6. server'.pc = "ready" /\ server'.conn = server.conn
    BY <1>1, <2>4 DEF Servers
  <2>7. conn'[client.conn] = y
    BY <1>7, <1>9 DEF Sets
  <2>8. Handshake'
    BY <1>1, <1>7, <1>9, <2>1, <2>4, <2>5, <2>6, <2>7 DEF Handshake
  <2>9. \A j \in DOMAIN backlog' : conn'[backlog'[j]].kind # "control"
    <3>1. \A j \in DOMAIN backlog : backlog[j] \in DOMAIN conn
      BY BaseFacts
    <3> QED BY <1>1, <1>8, <2>1, <3>1 DEF Going, Only
  <2>10. \A j \in DOMAIN conn' : conn'[j].kind = "data" => conn'[j].s = "open"
    BY <1>8 DEF Going, Only
  <2> QED BY <1>1, <2>1, <2>6, <2>8, <2>9, <2>10 DEF Going
<1>10. CASE ~(InHandshake /\ client.conn = server.conn)
  <2>1. InHandshake => Waits
    BY <1>1, <1>10 DEF Going, Handshake
  <2> QED BY <1>1, <1>7, <1>8, <1>10, <2>1, ServerFar
<1> QED BY <1>9, <1>10

\* The other steps of the server.
LEMMA GoingServes ==
  ASSUME Base, Order, Going,
         ServerReady \/ ServerPop \/ ServerSend \/ ServerReply \/ ServerToken
  PROVE  Going'
<1>1. /\ UNCHANGED <<backlog, client>> /\ server \in Servers
  BY BaseFacts DEF ServerReady, ServerPop, ServerSend, ServerReply, ServerToken, serverKeeps
<1>2. ASSUME server.pc \in {"pop", "send", "reply"} PROVE InHandshake => Waits
  BY <1>2 DEF Going, Handshake
<1>3. InHandshake /\ Waits => server.conn # client.conn /\ server.fd # client.conn
  BY Waiting
<1>4. CASE ServerReady
  <2>1. PICK y : ReadyFields(y)
    BY <1>4, ReadyStep
  <2>2. server.pc = "ready" /\ server'.pc = "pop"
    BY <1>1, <1>4, ReadyStep DEF Servers
  <2>3. Only(server.conn)
    BY <2>1, OnlySets DEF ReadyFields
  <2>4. InHandshake => Waits
    BY <2>1, <2>2 DEF Going, Handshake, ReadyFields
  <2> QED BY <1>1, <1>3, <2>2, <2>3, <2>4, ServerFar
<1>5. CASE ServerPop
  <2>1. server.pc = "pop" /\ server'.pc = "send" /\ UNCHANGED conn
    BY <1>1, <1>5, PopStep DEF Servers
  <2>2. Only(server.conn)
    BY <2>1, OnlyNone
  <2> QED BY <1>1, <1>2, <1>3, <2>1, <2>2, ServerFar
<1>6. CASE ServerSend
  <2>1. server.pc = "send" /\ server'.pc \in {"accept", "reply"}
    BY <1>1, <1>6, SendStep DEF Servers
  <2>2. Only(server.conn)
    <3>1. \E y : PipeFields(y) \/ SendFields(y)
      BY <1>6, SendStep
    <3>2. PICK y : PipeFields(y) \/ SendFields(y)
      BY <3>1
    <3>3. Sets(server.conn, y) /\ (conn[server.conn].s = "open" => y.s = "open")
      BY <3>2 DEF PipeFields, SendFields, AfterWrite
    <3> QED BY <3>3, OnlySets
  <2> QED BY <1>1, <1>2, <1>3, <2>1, <2>2, ServerFar
<1>7. CASE ServerReply
  <2>1. server.pc = "reply" /\ server'.pc \in {"accept", "data"}
    BY <1>1, <1>7, ReplyStep DEF Servers
  <2>2. Only(server.conn)
    <3>1. \E y, m : PipeFields(y) \/ ReplyFields(y, m)
      BY <1>7, ReplyStep
    <3>2. PICK y, m : PipeFields(y) \/ ReplyFields(y, m)
      BY <3>1
    <3>3. Sets(server.conn, y) /\ (conn[server.conn].s = "open" => y.s = "open")
      BY <3>2 DEF PipeFields, ReplyFields
    <3> QED BY <3>3, OnlySets
  <2> QED BY <1>1, <1>2, <1>3, <2>1, <2>2, ServerFar
<1>8. CASE ServerToken
  <2> DEFINE x == conn[server.fd]
  <2>1. server.pc = "token" /\ server.fd \in DOMAIN conn /\ x \in Connections
    BY <1>8, TokenStep, BaseFacts
  <2>2. x.toS # <<>> \/ x.s # "open"
    BY <1>8, TokenStep DEF TokenFields
  <2>3. x.kind = "data"
    <3>1. x.kind # "control"
      <4> SUFFICES ASSUME x.kind = "control" PROVE FALSE
        OBVIOUS
      <4>1. client.pc = "challenge" /\ client.conn = server.fd
        BY <2>1 DEF Going
      <4>2. Handshake
        BY <4>1 DEF Going, InHandshake
      <4>3. x.toS = <<>> /\ x.s = "open"
        BY <2>1, <4>1, <4>2 DEF Handshake
      <4> QED BY <2>2, <4>3
    <3> QED BY <2>1, <3>1 DEF Connections
  <2>4. x.s = "open"
    BY <2>1, <2>3 DEF Going
  <2>5. PICK y, m : /\ TokenFields(y, m)
                    /\ TokenEnds("pop") \/ TokenEnds("accept")
    <3>1. \E y, m : /\ TokenFields(y, m)
                    /\ TokenEnds("pop") \/ TokenEnds("accept")
      BY <1>8, <2>4, TokenStep
    <3> QED BY <3>1
  <2>6. Only(server.fd)
    BY <2>5, OnlySets DEF TokenFields
  <2>7. server'.pc \in {"pop", "accept"}
    BY <1>1, <2>5 DEF TokenEnds, Servers
  <2>8. InHandshake => client.conn # server.fd
    BY <2>3, ClientFacts DEF InHandshake
  <2>9. InHandshake => Waits
    BY <2>1, <2>8 DEF Going, Handshake
  <2> QED BY <1>1, <2>6, <2>7, <2>8, <2>9, ServerFar
<1> QED BY <1>4, <1>5, <1>6, <1>7, <1>8

\* The client dials a connection.
LEMMA GoingDials ==
  ASSUME Base, Going, ~quit, ClientConnect \/ ClientDial,
         faults'.handshake = faults.handshake, ~UNCHANGED conn
  PROVE  Going'
<1> DEFINE n == Len(conn) + 1
<1>1. client.pc \in {"connect", "dial"} /\ UNCHANGED server /\ client \in Clients
  BY BaseFacts DEF ClientConnect, ClientDial, clientKeeps
<1>2. server.pc # "dead"
  BY DEF Going
<1>3. PICK kind \in {"control", "data"}, r \in Nat :
         /\ Dials(kind, r) /\ backlog' = Append(backlog, n)
         /\ \/ kind = "control" /\ client'.pc = "challenge" /\ client'.conn = n
            \/ kind = "data" /\ client'.pc = "token"
  <2>1. n \in Nat
    BY ClientFacts
  <2>2. CASE ClientConnect
    <3>1. /\ Dials("control", 0) /\ backlog' = Append(backlog, n)
          /\ client'.pc = "challenge" /\ client'.conn = n
      <4>1. faults'.handshake # faults.handshake + 1
        BY BaseFacts DEF Counts
      <4> QED BY <1>1, <1>2, <2>1, <2>2, <4>1, ConnectStep DEF Clients
    <3> QED BY <3>1
  <2>3. CASE ClientDial
    <3>1. /\ Dials("data", client.req) /\ backlog' = Append(backlog, n)
          /\ client'.pc = "token"
      BY <1>1, <1>2, <2>1, <2>3, DialStep DEF Clients
    <3> QED BY <3>1, ClientFacts
  <2> QED BY <2>2, <2>3
<1>4. /\ DOMAIN conn' = DOMAIN conn \cup {n} /\ n \notin DOMAIN conn
      /\ \A j \in DOMAIN conn : conn'[j] = conn[j]
      /\ conn'[n].kind = kind /\ conn'[n].toS = <<>> /\ conn'[n].toC = <<>>
      /\ conn'[n].s = "open" /\ conn'[n].c = "open"
  BY <1>3 DEF Dials
<1>5. /\ Len(backlog) \in Nat /\ DOMAIN backlog' = DOMAIN backlog \cup {Len(backlog) + 1}
      /\ backlog'[Len(backlog) + 1] = n
      /\ \A j \in DOMAIN backlog : backlog'[j] = backlog[j] /\ backlog[j] \in DOMAIN conn
  <2>1. backlog \in Seq(Nat) /\ n \in Nat /\ \A j \in DOMAIN backlog : backlog[j] \in DOMAIN conn
    BY BaseFacts, ClientFacts
  <2> QED BY <1>3, <2>1, Appended
<1> HIDE DEF n
<1>6. \A j \in DOMAIN backlog : conn[backlog[j]].kind # "control"
  BY <1>1 DEF Going
<1>7. \A j \in DOMAIN conn' : conn'[j].kind = "data" => conn'[j].s = "open"
  BY <1>4 DEF Going
<1>8. \A j \in DOMAIN backlog' : conn'[backlog'[j]].kind = "control" =>
         client'.pc = "challenge" /\ client'.conn = backlog'[j]
  <2>1. \A j \in DOMAIN backlog : conn'[backlog'[j]].kind # "control"
    BY <1>4, <1>5, <1>6
  <2>2. conn'[n].kind = "control" => client'.pc = "challenge" /\ client'.conn = n
    BY <1>3, <1>4
  <2> QED BY <1>5, <2>1, <2>2
<1>9. /\ ~(server'.pc = "answer" /\ conn'[server'.conn].kind = "control")
      /\ ~(server'.pc = "token" /\ conn'[server'.fd].kind = "control")
  <2>1. /\ server.pc = "answer" => server.conn \in DOMAIN conn
        /\ server.pc = "token" => server.fd \in DOMAIN conn
    BY BaseFacts
  <2> QED BY <1>1, <1>4, <2>1 DEF Going, InHandshake
<1>10. ASSUME InHandshake' PROVE Handshake'
  <2>1. client'.pc = "challenge" /\ client'.conn = n
    BY <1>3, <1>10 DEF InHandshake
  <2>2. Waits'
    BY <1>5, <2>1 DEF Waits
  <2> QED BY <1>4, <2>1, <2>2 DEF Handshake
<1>11. server'.pc # "dead" /\ client'.pc \notin {"exited", "down", "leave"}
  BY <1>1, <1>2, <1>3
<1> QED BY <1>7, <1>8, <1>9, <1>10, <1>11 DEF Going

\* The client's half of a handshake.
LEMMA GoingGreets ==
  ASSUME Base, Order, Going, ClientChallenge \/ ClientResult
  PROVE  Going'
<1> DEFINE x == conn[client.conn]
<1>1. /\ InHandshake /\ client \in Clients /\ client.conn \in DOMAIN conn
      /\ UNCHANGED <<backlog, server>>
  BY BaseFacts, ClientFacts DEF ClientChallenge, ClientResult, clientKeeps, InHandshake
<1>2. Handshake /\ x.s = "open" /\ x.c = "open"
  BY <1>1 DEF Going, Handshake
<1>3. x.toC # <<>>
  <2>1. CASE ClientChallenge
    BY <1>2, <2>1, ChallengeStep DEF ClientRead0
  <2>2. CASE ClientResult
    BY <1>2, <2>2, ResultStep
  <2> QED BY <2>1, <2>2
<1>4. ~Waits
  BY <1>1, <1>3, Waiting
<1>5. \A j \in DOMAIN backlog : backlog[j] \in DOMAIN conn /\ conn[backlog[j]].kind # "control"
  BY <1>4, BaseFacts DEF Going, Waits, Connections
<1>6. CASE ClientChallenge
  <2>1. PICK y, v : /\ ClientRead0(y) /\ ClientWrites(y, <<"answer", v>>)
                    /\ v = IF x.toC # <<>> /\ x.toC[1] = <<"challenge", 0>> THEN 0 ELSE 1
    BY <1>6, ChallengeStep
  <2>2. /\ client.pc = "challenge" /\ client'.pc = "result" /\ client'.conn = client.conn
    BY <1>1, <1>6, ChallengeStep DEF Clients
  <2>3. /\ server.pc = "answer" /\ server.conn = client.conn
        /\ x.toS = <<>> /\ x.toC = <<<<"challenge", 0>>>>
    BY <1>2, <1>3, <2>2 DEF Handshake
  <2>4. v = 0 /\ Len(x.toC) = 1
    BY <2>1, <2>3
  <2>5. Append(x.toS, <<"answer", 0>>) = <<<<"answer", 0>>>>
    BY <2>3
  <2>6. /\ Sets(client.conn, y) /\ y.s = "open" /\ y.c = "open"
        /\ y.toS = <<<<"answer", 0>>>>
    BY <1>2, <2>1, <2>4, <2>5 DEF ClientWrites, AfterWrite
  <2>7. y.toC = <<>>
    BY <2>1, <2>4 DEF ClientRead0
  <2>8. conn'[client.conn] = y /\ Only(client.conn)
    BY <2>6, OnlySets DEF Sets
  <2>9. Handshake'
    BY <1>1, <2>2, <2>3, <2>6, <2>7, <2>8 DEF Handshake
  <2>10. \A j \in DOMAIN conn' : conn'[j].kind = "data" => conn'[j].s = "open"
    BY <2>8 DEF Going, Only
  <2>11. \A j \in DOMAIN backlog' : conn'[backlog'[j]].kind # "control"
    BY <1>1, <1>5, <2>8 DEF Only
  <2> QED BY <1>1, <2>2, <2>3, <2>9, <2>10, <2>11 DEF Going, InHandshake
<1>7. CASE ClientResult
  <2>1. client.pc = "result"
    BY <1>7, ResultStep
  <2>2. server.pc = "ready" /\ x.toC = <<<<"success", 0>>>>
    BY <1>2, <1>3, <2>1 DEF Handshake
  <2>3. x.toC[1] = <<"success", 0>>
    BY <2>2
  <2>4. PICK y : ClientRead0(y) /\ ClientWrites(y, <<"ready", 0>>)
    BY <1>7, <1>3, <2>3, ResultStep
  <2>5. client'.pc = "read"
    BY <1>1, <1>3, <1>7, <2>3, ResultStep DEF Clients
  <2>6. Only(client.conn)
    <3>1. Sets(client.conn, y) /\ y.s = x.s
      BY <2>4 DEF ClientWrites
    <3> QED BY <3>1, OnlySets
  <2>7. \A j \in DOMAIN conn' : conn'[j].kind = "data" => conn'[j].s = "open"
    BY <2>6 DEF Going, Only
  <2>8. \A j \in DOMAIN backlog' : conn'[backlog'[j]].kind # "control"
    BY <1>1, <1>5, <2>6 DEF Only
  <2> QED BY <1>1, <2>2, <2>5, <2>7, <2>8 DEF Going, InHandshake
<1> QED BY <1>6, <1>7

\* The other steps of the client.
LEMMA GoingReads ==
  ASSUME Base, Going, ~quit, ClientRead \/ ClientCheck \/ ClientToken
  PROVE  Going'
<1>1. /\ ~InHandshake /\ UNCHANGED <<backlog, server>> /\ client \in Clients
  BY BaseFacts DEF ClientRead, ClientCheck, ClientToken, clientKeeps, InHandshake
<1>2. conn[client.conn].kind = "control" /\ client.conn \in DOMAIN conn
  BY ClientFacts DEF ClientRead, ClientCheck, ClientToken
<1>3. CASE ClientRead
  <2>1. client'.pc \in {"connect", "check"}
    BY <1>1, <1>3, ReadStep DEF ReconnectFields, ReadFields, Clients
  <2>2. PICK y : Sets(client.conn, y)
    BY <1>3, ReadStep DEF ReconnectFields, ReadFields
  <2>3. Only(client.conn)
    BY <1>2, <2>2, OnlySets DEF Sets
  <2> QED BY <1>1, <2>1, <2>3, ClientFar
<1>4. CASE ClientCheck
  <2>1. client'.pc \in {"connect", "dial"}
    BY <1>1, <1>4, CheckStep DEF ReconnectFields, Clients
  <2>2. PICK y : Sets(client.conn, y)
    BY <1>4, CheckStep DEF ReconnectFields, ClientWrites
  <2>3. Only(client.conn)
    BY <1>2, <2>2, OnlySets DEF Sets
  <2> QED BY <1>1, <2>1, <2>3, ClientFar
<1>5. CASE ClientToken
  <2>1. client'.pc = "read"
    BY <1>1, <1>5, PushStep DEF Clients
  <2>2. Only(client.fd)
    <3>1. PICK y : Sets(client.fd, y) /\ y.s = conn[client.fd].s
      BY <1>5, PushStep
    <3> QED BY <3>1, OnlySets
  <2> QED BY <1>1, <2>1, <2>2, ClientFar
<1> QED BY <1>3, <1>4, <1>5

\* What goes wrong outside of a handshake, and the relay of the client process.
LEMMA GoingBreaks ==
  ASSUME Base, Going, Break \/ KeepAlive \/ (\E i \in DOMAIN conn : Payload(i)),
         Break => ~InHandshake
  PROVE  Going'
<1>1. CASE Break
  <2>1. /\ UNCHANGED <<backlog, server, client>>
        /\ client.conn \in DOMAIN conn /\ conn[client.conn].kind = "control"
    BY <1>1, BreakStep, ClientFacts
  <2>2. PICK y : Sets(client.conn, y)
    BY <1>1, BreakStep DEF BreakFields
  <2>3. Only(client.conn)
    BY <2>1, <2>2, OnlySets DEF Sets
  <2> QED BY <1>1, <2>1, <2>3, ClientFar
<1>2. CASE KeepAlive
  <2>1. PICK i \in DOMAIN conn : \E y :
           /\ conn[i].kind = "control" /\ {conn[i].s, conn[i].c} = {"open", "broken"}
           /\ Sets(i, y)
    BY <1>2, KeepAliveStep
  <2>2. Only(i)
    BY <2>1, OnlySets DEF Sets
  <2>3. InHandshake => i # client.conn
    BY <2>1 DEF Going, Handshake
  <2>4. UNCHANGED <<backlog, server, client>>
    BY <1>2, KeepAliveStep
  <2> QED BY <2>2, <2>3, <2>4, ClientFar
<1>3. CASE \E i \in DOMAIN conn : Payload(i)
  <2>1. PICK i \in DOMAIN conn : Payload(i)
    BY <1>3
  <2>2. /\ conn[i].kind = "data" /\ UNCHANGED <<backlog, server>>
        /\ client' = [client EXCEPT !.pushed = @ \ {i}] /\ client \in Clients
    BY <2>1, PayloadStep, BaseFacts
  <2>3. PICK y : Sets(i, y) /\ y.s = conn[i].s
    BY <2>1, PayloadStep
  <2>4. Only(i)
    BY <2>3, OnlySets
  <2>5. InHandshake => i # client.conn
    BY <2>2, ClientFacts DEF InHandshake
  <2>6. client'.pc = client.pc /\ client'.conn = client.conn
    BY <2>2 DEF Clients
  <2> QED BY <2>2, <2>4, <2>5, <2>6, ClientFar
<1> QED BY <1>1, <1>2, <1>3

\* A tunnel's connection fails: the client goes back to reading.
LEMMA GoingFails ==
  ASSUME Base, Going, ClientDial, UNCHANGED conn
  PROVE  Going'
<1>1. client.pc = "dial" /\ client \in Clients /\ client.conn # 0
  BY BaseFacts, ClientFacts DEF ClientDial
<1>2. client' = [client EXCEPT !.pc = "read", !.rand = @ + 1] /\ UNCHANGED <<backlog, server>>
  <2>1. ~Dials("data", client.req)
    <3>1. Len(conn) \in Nat /\ Len(conn) # Len(conn) + 1
      BY ClientFacts
    <3> QED BY <3>1 DEF Dials
  <2> QED BY <2>1, DialStep
<1>3. client'.pc = "read"
  BY <1>1, <1>2 DEF Clients
<1>4. Only(0)
  BY OnlyNone
<1> QED BY <1>1, <1>2, <1>3, <1>4, ClientFar DEF InHandshake

\* connect makes a connection, unless it fails.
LEMMA Connecting ==
  ASSUME Base, Going, ClientConnect, faults'.handshake = faults.handshake
  PROVE  ~UNCHANGED conn
<1>1. faults'.handshake # faults.handshake + 1
  BY BaseFacts DEF Counts
<1>2. Dials("control", 0)
  BY <1>1, ConnectStep DEF Going
<1>3. Len(conn) \in Nat /\ Len(conn) # Len(conn) + 1
  BY ClientFacts
<1> QED BY <1>2, <1>3 DEF Dials

\* Nothing that went wrong is forgotten.
LEMMA CalmBefore ==
  ASSUME Base, [Next]_vars, Calm'
  PROVE  /\ Calm /\ ~Crash /\ ~ServerCrash /\ ~Quit /\ ~Reset
         /\ Break => ~InHandshake
         /\ Client => faults'.handshake = faults.handshake
<1>1. faults \in Counts /\ faults.handshake \in Nat /\ faults.restart \in Nat
  BY BaseFacts DEF Counts
<1>2. ~Crash
  BY CrashStep DEF Calm, ProcessesStay
<1>3. ~ServerCrash
  BY <1>1 DEF ServerCrash, Calm, ProcessesStay, Counts
<1>4. ~Quit
  BY DEF Quit, Calm
<1>5. ~Reset
  BY ResetStep DEF Calm
<1>6. ASSUME Break PROVE ~InHandshake /\ Calm
  <2>1. /\ UNCHANGED quit /\ AsBefore
        /\ faults'.handshake = IF client.pc \in {"challenge", "result"}
                               THEN faults.handshake + 1 ELSE faults.handshake
    BY <1>6, BreakStep
  <2>2. ~InHandshake
    BY <1>1, <2>1 DEF Calm, InHandshake
  <2> QED BY <2>1, <2>2 DEF Calm, ProcessesStay, InHandshake, AsBefore
<1>7. CASE \E i \in DOMAIN conn : Payload(i)
  <2>1. /\ UNCHANGED quit /\ faults'.crash = faults.crash /\ faults'.reset = faults.reset
        /\ faults'.handshake = faults.handshake /\ faults'.restart = faults.restart
    BY <1>7, PayloadStep
  <2>2. Calm
    BY <2>1 DEF Calm, ProcessesStay
  <2> QED BY <1>2, <1>3, <1>4, <1>5, <1>6, <2>1, <2>2
<1>8. CASE UNCHANGED <<faults, quit>>
  BY <1>2, <1>3, <1>4, <1>5, <1>6, <1>8 DEF Calm, ProcessesStay
<1>9. CASE WakeFails
  <2>1. UNCHANGED quit /\ AsBefore /\ faults'.handshake = faults.handshake
    BY <1>9, WakeStep DEF WakeFails
  <2> QED BY <1>2, <1>3, <1>4, <1>5, <1>6, <2>1 DEF Calm, ProcessesStay, AsBefore
<1>10. CASE Ask \/ Restart \/ ServerRestart \/ KeepAlive \/ UNCHANGED vars
  BY <1>8, <1>10 DEF Ask, Restart, ServerRestart, KeepAlive, serverKeeps, vars
<1>11. CASE Server
  BY <1>8, <1>11 DEF Server, ServerAccept, ServerAnswer, ServerReady, ServerPop, ServerSend,
                    ServerReply, ServerData, ServerToken, serverKeeps
<1>12. CASE ClientConnect
  <2>1. ~(faults'.handshake = faults.handshake + 1)
    BY <1>1 DEF Calm
  <2>2. UNCHANGED <<faults, quit>>
    BY <1>12, <2>1, ConnectStep
  <2> QED BY <1>8, <2>2
<1>13. CASE ClientDial
  <2>1. UNCHANGED quit /\ (UNCHANGED faults \/ DialFailed)
    BY <1>13, DialStep
  <2>2. Calm /\ faults'.handshake = faults.handshake
    BY <2>1 DEF Calm, ProcessesStay, DialFailed
  <2> QED BY <1>2, <1>3, <1>4, <1>5, <1>6, <2>2
<1>14. CASE ClientChallenge \/ ClientResult \/ ClientRead \/ ClientCheck \/ ClientToken
            \/ ClientLeave
  BY <1>8, <1>14 DEF ClientChallenge, ClientResult, ClientRead, ClientCheck, ClientToken,
                     ClientLeave, clientKeeps
<1> QED BY <1>2, <1>3, <1>4, <1>5, <1>6, <1>7, <1>9, <1>10, <1>11, <1>12, <1>13, <1>14
        DEF Next, Client

\* Going is inductive while it is calm.
LEMMA NextGoing == Base /\ Order /\ (Calm => Going) /\ [Next]_vars => (Calm => Going)'
<1> SUFFICES ASSUME Base, Order, Calm => Going, [Next]_vars, Calm' PROVE Going'
  OBVIOUS
<1>1. /\ Calm /\ ~Crash /\ ~ServerCrash /\ ~Quit /\ ~Reset
      /\ Break => ~InHandshake
      /\ Client => faults'.handshake = faults.handshake
  BY CalmBefore
<1>2. Going /\ ~quit
  BY <1>1 DEF Calm
<1>3. CASE UNCHANGED <<conn, backlog, server, client>>
  <2>1. Only(0)
    BY <1>3, OnlyNone
  <2>2. InHandshake => 0 # client.conn
    BY ClientFacts DEF InHandshake
  <2> QED BY <1>2, <1>3, <2>1, <2>2, ClientFar
<1>4. CASE Ask \/ WakeFails \/ UNCHANGED vars
  BY <1>3, <1>4 DEF Ask, WakeFails, vars
<1>5. ~Restart /\ ~ServerRestart /\ ~ClientLeave
  BY <1>2 DEF Going, Restart, ServerRestart, ClientLeave
<1>6. CASE Server
  BY <1>2, <1>6, GoingAccepts, GoingAnswers, GoingServes DEF Server
<1>7. CASE Client
  BY <1>1, <1>2, <1>5, <1>7, GoingDials, GoingFails, Connecting, GoingGreets, GoingReads
     DEF Client
<1>8. CASE Break \/ KeepAlive \/ (\E i \in DOMAIN conn : Payload(i))
  BY <1>1, <1>2, <1>8, GoingBreaks
<1> QED BY <1>1, <1>4, <1>5, <1>6, <1>7, <1>8 DEF Next

\* Neither process has done anything.
LEMMA InitGoing == Init => Going
  BY DEF Init, Going, NewServer, NewClient, InHandshake

\* A control connection that breaks ends neither process, whenever it breaks after
\* its handshake, and neither does a tunnel that cannot be dialled: not by the
\* exception of a failed read in the server, not by what the client takes for a
\* refusal.  A reconnect that fails, and a tunnel's connection that is reset before
\* its token is read, end one, and are the statement's exceptions (Survives).
THEOREM NeitherEnds == Spec => []Survives
<1>1. Init => Base /\ Order /\ (Calm => Going)
  BY InitBase, InitOrder, InitGoing
<1>2. Base /\ Order /\ (Calm => Going) /\ [Next]_vars => Base' /\ Order' /\ (Calm => Going)'
  BY NextBase, NextOrder, NextGoing
<1>3. Base /\ Order /\ (Calm => Going) => Survives
  <2> SUFFICES ASSUME Base, Calm => Going PROVE Survives
    OBVIOUS
  <2>1. faults.handshake \in Nat /\ faults.reset \in Nat
    BY BaseFacts DEF Counts
  <2> QED BY <2>1 DEF Survives, Calm, Going
<1> QED BY <1>1, <1>2, <1>3, PTL DEF Spec

-----------------------------------------------------------------------------
(* Connections that nobody has accepted, or that the server has taken for a   *)
(* data connection, and the control connection of the client.                 *)

InLine(i) == \/ \E j \in DOMAIN backlog : backlog[j] = i
             \/ server.pc = "token" /\ i = server.fd

\* Nothing was written to them, and to data connections only by the client.
Untouched == \A i \in DOMAIN conn : InLine(i) =>
    LET x == conn[i] IN
    /\ x.toC = <<>> /\ (x.kind = "control" => x.toS = <<>>)
    /\ server.pc # "dead" =>
          /\ x.c \in {"open", "broken"}
          /\ i = client.conn /\ client.pc = "result" => x.c = "broken"

\* The client left the other control connections by closing them.  When the
\* server has answered the one it is on, that one was accepted, and so were all
\* that were dialled before.
Behind ==
    /\ \A i \in DOMAIN conn : conn[i].kind = "control" /\ i # client.conn =>
          conn[i].s # "open" \/ conn[i].c = "broken"
    /\ client.conn # 0 =>
          /\ conn[client.conn].s \in {"open", "broken"}
          /\ client.pc \in Served \/ conn[client.conn].toC # <<>> =>
                /\ server.conn = 0 \/ server.conn >= client.conn
                /\ \A i \in DOMAIN conn : InLine(i) => i > client.conn

\* A step of the server at the connection it is on.
LEMMA ServerAt ==
  ASSUME Base, Order, Untouched, Behind, NEW y, NEW i \in {server.conn, server.fd}, Sets(i, y),
         UNCHANGED <<backlog, client>>, server'.conn = server.conn,
         server'.pc \notin {"token", "dead"}, server.pc # "dead",
         server.pc = "token" => i = server.fd /\ y.toC = conn[i].toC,
         server.pc # "token" => i = server.conn,
         conn[i].s # "open" => y.s # "open",
         conn[i].s \in {"open", "broken"} => y.s \in {"open", "broken"},
         conn[i].c = "broken" => y.c = "broken"
  PROVE  Untouched' /\ Behind'
<1>1. /\ DOMAIN conn' = DOMAIN conn /\ i \in DOMAIN conn /\ conn'[i] = y
      /\ \A j \in DOMAIN conn : /\ conn'[j].kind = conn[j].kind
                                /\ j # i => conn'[j] = conn[j]
  BY DEF Sets
<1>2. /\ server.conn \in Nat /\ server.fd \in Nat /\ client.conn \in Nat
      /\ \A j \in DOMAIN backlog : backlog[j] \in Nat
  BY BaseFacts, ClientFacts DEF Servers
<1>3. \A j : InLine(j)' => InLine(j) /\ j # i /\ j > server.conn
  <2>1. \A j \in DOMAIN backlog : backlog[j] > server.conn /\ backlog[j] > server.fd
    BY <1>2 DEF Order
  <2>2. \A j \in DOMAIN backlog : backlog[j] # i
    BY <1>2, <2>1
  <2> QED BY <2>1, <2>2 DEF InLine
<1>4. Untouched'
  BY <1>1, <1>3 DEF Untouched
<1>5. \A j \in DOMAIN conn' : conn'[j].kind = "control" /\ j # client'.conn =>
         conn'[j].s # "open" \/ conn'[j].c = "broken"
  BY <1>1 DEF Behind
<1>6. ASSUME client.conn # 0
      PROVE  /\ conn'[client.conn].s \in {"open", "broken"}
             /\ client.pc \in Served \/ conn'[client.conn].toC # <<>> =>
                   /\ server.conn = 0 \/ server.conn >= client.conn
                   /\ \A j \in DOMAIN conn : InLine(j)' => j > client.conn
  <2>1. client.conn \in DOMAIN conn
    BY <1>6, ClientFacts
  <2>2. conn'[client.conn].s \in {"open", "broken"}
    BY <1>1, <1>6, <2>1 DEF Behind
  <2>3. CASE server.conn = client.conn
    BY <1>2, <1>3, <2>2, <2>3
  <2>4. CASE server.conn # client.conn
    <3>1. conn'[client.conn].toC = conn[client.conn].toC
      BY <1>1, <2>1, <2>4
    <3> QED BY <1>3, <1>6, <2>2, <3>1 DEF Behind
  <2> QED BY <2>3, <2>4
<1> QED BY <1>1, <1>4, <1>5, <1>6 DEF Behind

\* The server process ends.
LEMMA ServerGone ==
  ASSUME Base, Untouched, Behind, AllClosed(ServerClosed), UNCHANGED <<backlog, client>>,
         server'.pc = "dead", server'.conn = server.conn
  PROVE  Untouched' /\ Behind'
<1>1. /\ DOMAIN conn' = DOMAIN conn
      /\ \A j \in DOMAIN conn :
            /\ conn'[j].kind = conn[j].kind /\ conn'[j].toS = conn[j].toS
            /\ conn'[j].toC = conn[j].toC /\ conn'[j].s = conn[j].s
            /\ conn[j].c = "broken" => conn'[j].c = "broken"
  <2>1. \A j \in DOMAIN conn : conn[j] \in Connections
    BY BaseFacts
  <2> QED BY <2>1, ClosedFields DEF AllClosed, Left
<1>2. \A j : InLine(j)' => InLine(j)
  BY DEF InLine
<1>3. Untouched'
  BY <1>1, <1>2 DEF Untouched
<1>4. client.conn # 0 => client.conn \in DOMAIN conn
  BY ClientFacts
<1>5. Behind'
  BY <1>1, <1>2, <1>4 DEF Behind
<1> QED BY <1>3, <1>5

\* The server takes a connection.
LEMMA ServerTakes ==
  ASSUME Base, Order, Untouched, Behind, ServerAccept \/ ServerData
  PROVE  Untouched' /\ Behind'
<1> DEFINE b == backlog[1]
<1>1. /\ backlog # <<>> /\ backlog' = Tail(backlog) /\ b \in DOMAIN conn /\ UNCHANGED client
  <2>1. CASE ServerAccept
    <3>1. b \in DOMAIN conn
      BY <2>1, AcceptStep
    <3> QED BY <2>1, <3>1 DEF ServerAccept, serverKeeps
  <2>2. CASE ServerData
    BY <2>2, DataStep
  <2> QED BY <2>1, <2>2
<1>2. \A j \in DOMAIN backlog' : /\ j + 1 \in DOMAIN backlog /\ backlog'[j] = backlog[j + 1]
                                 /\ backlog'[j] > b
  <2>1. PICK n \in Nat : n = Len(backlog) /\ n # 0 /\ DOMAIN backlog = 1 .. n
    BY <1>1, BaseFacts
  <2>2. /\ DOMAIN backlog' = 1 .. n - 1
        /\ \A j \in 1 .. n - 1 : j + 1 \in 1 .. n /\ backlog'[j] = backlog[j + 1]
    BY <1>1, <2>1, BaseFacts
  <2>3. \A j \in 1 .. n - 1 : 1 < j + 1 /\ 1 \in 1 .. n
    BY <2>1
  <2>4. \A j \in 1 .. n : backlog[j] \in Nat
    BY <2>1, BaseFacts
  <2> QED BY <2>1, <2>2, <2>3, <2>4 DEF Order
<1>3. InLine(b) /\ b \in Nat /\ server.conn \in Nat /\ client.conn \in Nat /\ b > server.conn
  <2>1. 1 \in DOMAIN backlog
    BY <1>1, Tails, BaseFacts
  <2> QED BY <1>1, <2>1, BaseFacts, ClientFacts DEF InLine, Order, Servers
<1> HIDE DEF b
<1>4. CASE ServerAccept
  <2> DEFINE y == ServerWrote(conn[b], <<"challenge", 0>>)
  <2>1. /\ Sets(b, y) /\ server'.conn = b /\ server'.pc = "answer" /\ server.pc = "accept"
    BY <1>4, AcceptStep DEF b, ServerAccept
  <2>2. conn[b] \in Connections /\ <<"challenge", 0>> \in ToClient
    BY <1>1, BaseFacts, Sent
  <2>3. /\ y.s = AfterWrite(conn[b].s) /\ y.c = conn[b].c
    BY <2>2, ServerWroteFields
  <2> HIDE DEF y
  <2>4. \A j : InLine(j)' => InLine(j) /\ j > b
    BY <1>1, <1>2, <2>1 DEF InLine
  <2>5. Untouched'
    BY <1>1, <1>3, <2>1, <2>4 DEF Untouched, Sets
  <2>6. \A j \in DOMAIN conn' : conn'[j].kind = "control" /\ j # client'.conn =>
           conn'[j].s # "open" \/ conn'[j].c = "broken"
    BY <1>1, <2>1, <2>3 DEF Behind, Sets, AfterWrite
  <2>7. ASSUME client.conn # 0
        PROVE  /\ conn'[client.conn].s \in {"open", "broken"}
               /\ client.pc \in Served \/ conn'[client.conn].toC # <<>> =>
                     /\ server'.conn >= client.conn
                     /\ \A j \in DOMAIN conn' : InLine(j)' => j > client.conn
    <3>1. client.conn \in DOMAIN conn /\ DOMAIN conn' = DOMAIN conn
      BY <2>1, <2>7, ClientFacts DEF Sets
    <3>2. conn'[client.conn].s \in {"open", "broken"}
      BY <2>1, <2>3, <2>7, <3>1 DEF Behind, Sets, AfterWrite
    <3>3. CASE client.conn = b
      BY <1>3, <2>1, <2>4, <3>2, <3>3
    <3>4. CASE client.conn # b
      <4>1. conn'[client.conn] = conn[client.conn]
        BY <2>1, <3>1, <3>4 DEF Sets
      <4>2. client.pc \in Served \/ conn'[client.conn].toC # <<>> =>
               /\ b > client.conn
               /\ \A j \in DOMAIN conn : InLine(j)' => j > client.conn
        BY <1>1, <1>3, <2>4, <2>7, <4>1 DEF Behind
      <4> QED BY <1>3, <2>1, <3>1, <3>2, <4>2
    <3> QED BY <3>3, <3>4
  <2> QED BY <1>1, <2>5, <2>6, <2>7 DEF Behind
<1>5. CASE ServerData
  <2>1. /\ UNCHANGED conn /\ server'.conn = server.conn /\ server'.fd = b
        /\ server'.pc = "token" /\ server.pc = "data"
    BY <1>5, DataStep, BaseFacts DEF b, Servers
  <2>2. \A j : InLine(j)' => InLine(j)
    BY <1>2, <1>3, <2>1 DEF InLine
  <2>3. Untouched'
    BY <1>1, <2>1, <2>2 DEF Untouched
  <2>4. Behind'
    BY <1>1, <2>1, <2>2 DEF Behind
  <2> QED BY <2>3, <2>4
<1> QED BY <1>4, <1>5

\* The steps of the server.
LEMMA ServerQueues ==
  ASSUME Base, Order, Untouched, Behind, Server
  PROVE  Untouched' /\ Behind'
<1>1. server \in Servers
  BY BaseFacts
<1>2. CASE ServerAccept \/ ServerData
  BY <1>2, ServerTakes
<1>3. CASE ServerAnswer
  <2>1. /\ server.pc = "answer" /\ UNCHANGED <<backlog, client>>
    BY <1>3, AnswerFacts
  <2>2. CASE ServerDies
    <3>1. AllClosed(ServerClosed) /\ server'.pc = "dead" /\ server'.conn = server.conn
      BY <1>1, <2>2, AllEnd, BaseFacts DEF ServerDies, Servers
    <3> QED BY <2>1, <3>1, ServerGone
  <2>3. CASE \E y : AnswerFields(y)
    <3>1. PICK y : AnswerFields(y)
      BY <2>3
    <3>2. server'.conn = server.conn /\ server'.pc \in {"ready", "accept"}
      BY <1>1, <3>1 DEF AnswerFields, Servers
    <3>3. /\ Sets(server.conn, y)
          /\ y.s \in {conn[server.conn].s, AfterWrite(conn[server.conn].s)}
          /\ conn[server.conn].c = "broken" => y.c = "broken"
      BY <3>1 DEF AnswerFields, Left
    <3>4. /\ conn[server.conn].s # "open" => y.s # "open"
          /\ conn[server.conn].s \in {"open", "broken"} => y.s \in {"open", "broken"}
      BY <3>3 DEF AfterWrite
    <3> QED BY <2>1, <3>2, <3>3, <3>4, ServerAt
  <2> QED BY <1>3, <2>2, <2>3, AnswerFacts
<1>4. CASE ServerReady
  <2>1. /\ server.pc = "ready" /\ UNCHANGED <<backlog, client>>
        /\ server'.conn = server.conn /\ server'.pc = "pop"
    BY <1>1, <1>4, ReadyStep DEF Servers
  <2>2. PICK y : ReadyFields(y)
    BY <1>4, ReadyStep
  <2>3. Sets(server.conn, y) /\ y.s = conn[server.conn].s /\ y.c = conn[server.conn].c
    BY <2>2 DEF ReadyFields
  <2> QED BY <2>1, <2>3, ServerAt
<1>5. CASE ServerPop
  <2>1. /\ server.pc = "pop" /\ UNCHANGED <<conn, backlog, client>>
        /\ server'.conn = server.conn /\ server'.pc = "send"
    BY <1>1, <1>5, PopStep DEF Servers
  <2>2. Untouched'
    BY <2>1 DEF Untouched, InLine
  <2>3. Behind'
    BY <2>1 DEF Behind, InLine
  <2> QED BY <2>2, <2>3
<1>6. CASE ServerSend
  <2>1. /\ server.pc = "send" /\ UNCHANGED <<backlog, client>>
        /\ server'.conn = server.conn /\ server'.pc \in {"accept", "reply"}
    BY <1>1, <1>6, SendStep DEF Servers
  <2>2. \E y : PipeFields(y) \/ SendFields(y)
    BY <1>6, SendStep
  <2>3. PICK y : PipeFields(y) \/ SendFields(y)
    BY <2>2
  <2>4. /\ Sets(server.conn, y)
        /\ y.s \in {conn[server.conn].s, AfterWrite(conn[server.conn].s)}
        /\ conn[server.conn].c = "broken" => y.c = "broken"
    BY <2>3 DEF PipeFields, SendFields, Left
  <2>5. /\ conn[server.conn].s # "open" => y.s # "open"
        /\ conn[server.conn].s \in {"open", "broken"} => y.s \in {"open", "broken"}
    BY <2>4 DEF AfterWrite
  <2> QED BY <2>1, <2>4, <2>5, ServerAt
<1>7. CASE ServerReply
  <2>1. /\ server.pc = "reply" /\ UNCHANGED <<backlog, client>>
        /\ server'.conn = server.conn /\ server'.pc \in {"accept", "data"}
    BY <1>1, <1>7, ReplyStep DEF Servers
  <2>2. \E y, m : PipeFields(y) \/ ReplyFields(y, m)
    BY <1>7, ReplyStep
  <2>3. PICK y, m : PipeFields(y) \/ ReplyFields(y, m)
    BY <2>2
  <2>4. /\ Sets(server.conn, y) /\ y.s = conn[server.conn].s
        /\ conn[server.conn].c = "broken" => y.c = "broken"
    BY <2>3 DEF PipeFields, ReplyFields, Left
  <2> QED BY <2>1, <2>4, ServerAt
<1>8. CASE ServerToken
  <2>1. /\ server.pc = "token" /\ UNCHANGED <<backlog, client>>
    BY <1>8, TokenStep DEF ServerToken, serverKeeps
  <2>2. CASE ServerDies
    <3>1. AllClosed(ServerClosed) /\ server'.pc = "dead" /\ server'.conn = server.conn
      BY <1>1, <2>2, AllEnd, BaseFacts DEF ServerDies, Servers
    <3> QED BY <2>1, <3>1, ServerGone
  <2>3. CASE \E y, m : TokenFields(y, m) /\ (TokenEnds("pop") \/ TokenEnds("accept"))
    <3>1. PICK y, m : TokenFields(y, m) /\ (TokenEnds("pop") \/ TokenEnds("accept"))
      BY <2>3
    <3>2. server'.conn = server.conn /\ server'.pc \in {"pop", "accept"}
      BY <1>1, <3>1 DEF TokenEnds, Servers
    <3>3. /\ Sets(server.fd, y) /\ y.s = conn[server.fd].s /\ y.c = conn[server.fd].c
          /\ y.toC = conn[server.fd].toC
      BY <3>1 DEF TokenFields
    <3> QED BY <2>1, <3>2, <3>3, ServerAt
  <2>4. ServerDies \/ \E y, m : TokenFields(y, m) /\ (TokenEnds("pop") \/ TokenEnds("accept"))
    BY <1>8, TokenStep
  <2> QED BY <2>2, <2>3, <2>4
<1> QED BY <1>2, <1>3, <1>4, <1>5, <1>6, <1>7, <1>8 DEF Server

\* The client leaves its connection, with the end of its process or without.
LEMMA ClientGone ==
  ASSUME Base, Untouched, Behind, UNCHANGED <<backlog, server>>, client'.conn = 0,
         DOMAIN conn' = DOMAIN conn,
         \A j \in DOMAIN conn :
            /\ conn'[j].kind = conn[j].kind /\ conn'[j].toS = conn[j].toS
            /\ conn'[j].toC = conn[j].toC /\ conn'[j].c = conn[j].c
            /\ conn[j].s # "open" => conn'[j].s # "open",
         client.conn # 0 /\ conn[client.conn].s = "open" /\ conn[client.conn].c # "broken" =>
            conn'[client.conn].s # "open"
  PROVE  Untouched' /\ Behind'
<1>1. \A j \in DOMAIN conn : InLine(j)' => InLine(j)
  BY DEF InLine
<1>2. \A j \in DOMAIN conn : j # 0
  BY BaseFacts
<1>3. Untouched'
  BY <1>1, <1>2 DEF Untouched
<1>4. Behind'
  BY DEF Behind
<1> QED BY <1>3, <1>4

\* The end of the client process.
LEMMA ClientEnded ==
  ASSUME Base, Untouched, Behind, AllClosed(ClientClosed), UNCHANGED <<backlog, server>>,
         client'.conn = 0
  PROVE  Untouched' /\ Behind'
<1>1. \A j \in DOMAIN conn :
         /\ conn'[j].kind = conn[j].kind /\ conn'[j].toS = conn[j].toS
         /\ conn'[j].toC = conn[j].toC /\ conn'[j].c = conn[j].c
         /\ conn'[j].s = Left(conn[j].s, conn[j].c, conn[j].toC)
  <2>1. \A j \in DOMAIN conn : conn[j] \in Connections
    BY BaseFacts
  <2> QED BY <2>1, ClosedFields DEF AllClosed
<1>2. \A j \in DOMAIN conn :
         /\ conn[j].s # "open" => conn'[j].s # "open"
         /\ conn[j].s = "open" /\ conn[j].c # "broken" => conn'[j].s # "open"
  BY <1>1 DEF Left
<1>3. client.conn # 0 => client.conn \in DOMAIN conn
  BY ClientFacts
<1>4. DOMAIN conn' = DOMAIN conn
  BY DEF AllClosed
<1> QED BY <1>1, <1>2, <1>3, <1>4, ClientGone

\* The client closes its connection, to dial another.
LEMMA ClientReconnects ==
  ASSUME Base, Untouched, Behind, NEW y, ReconnectFields(y), UNCHANGED <<backlog, server>>
  PROVE  Untouched' /\ Behind'
<1>1. client'.conn = 0
  BY BaseFacts DEF ReconnectFields, Clients, NoConnection
<1>2. /\ DOMAIN conn' = DOMAIN conn /\ client.conn \in DOMAIN conn
      /\ \A j \in DOMAIN conn : /\ conn'[j].kind = conn[j].kind
                                /\ j # client.conn => conn'[j] = conn[j]
      /\ conn'[client.conn].toS = conn[client.conn].toS
      /\ conn'[client.conn].toC = conn[client.conn].toC
      /\ conn'[client.conn].c = conn[client.conn].c
      /\ conn'[client.conn].s = Left(conn[client.conn].s, conn[client.conn].c,
                                     conn[client.conn].toC)
  BY DEF ReconnectFields, Sets
<1>3. /\ conn[client.conn].s # "open" => conn'[client.conn].s # "open"
      /\ conn[client.conn].s = "open" /\ conn[client.conn].c # "broken" =>
            conn'[client.conn].s # "open"
  BY <1>2 DEF Left
<1>4. \A j \in DOMAIN conn :
            /\ conn'[j].kind = conn[j].kind /\ conn'[j].toS = conn[j].toS
            /\ conn'[j].toC = conn[j].toC /\ conn'[j].c = conn[j].c
            /\ conn[j].s # "open" => conn'[j].s # "open"
  BY <1>2, <1>3
<1> QED BY <1>1, <1>2, <1>3, <1>4, ClientGone

\* Something happens to one connection, but its end at the server stays as it is.
LEMMA ClientAt ==
  ASSUME Base, Untouched, Behind, NEW i, NEW y, Sets(i, y), UNCHANGED <<backlog, server>>,
         client'.conn = client.conn,
         client.conn # 0 /\ client'.pc \in Served => client.pc \in Served \/ conn[client.conn].toC # <<>>,
         conn[i].toC = <<>> => y.toC = <<>>,
         conn[i].s # "open" /\ conn[i].kind = "control" => y.s # "open",
         conn[i].c = "broken" => y.c = "broken",
         i = client.conn => y.s \in {"open", "broken"},
         InLine(i) =>
            /\ y.kind = "control" => y.toS = <<>>
            /\ server.pc # "dead" =>
                 /\ y.c \in {"open", "broken"}
                 /\ i = client.conn /\ client'.pc = "result" => y.c = "broken",
         client'.pc = "result" => client.pc = "result" \/ i = client.conn
  PROVE  Untouched' /\ Behind'
<1>1. /\ DOMAIN conn' = DOMAIN conn /\ i \in DOMAIN conn /\ conn'[i] = y
      /\ y.kind = conn[i].kind
      /\ \A j \in DOMAIN conn : j # i => conn'[j] = conn[j]
  BY DEF Sets
<1>2. \A j : InLine(j)' <=> InLine(j)
  BY DEF InLine
<1>3. Untouched'
  <2> SUFFICES ASSUME NEW j \in DOMAIN conn, InLine(j)
      PROVE  LET x == conn'[j] IN
             /\ x.toC = <<>> /\ (x.kind = "control" => x.toS = <<>>)
             /\ server.pc # "dead" =>
                   /\ x.c \in {"open", "broken"}
                   /\ j = client'.conn /\ client'.pc = "result" => x.c = "broken"
    BY <1>1, <1>2 DEF Untouched
  <2>1. CASE j = i
    BY <1>1, <2>1 DEF Untouched
  <2>2. CASE j # i
    BY <1>1, <2>2 DEF Untouched
  <2> QED BY <2>1, <2>2
<1>4. \A j \in DOMAIN conn' : conn'[j].kind = "control" /\ j # client'.conn =>
         conn'[j].s # "open" \/ conn'[j].c = "broken"
  BY <1>1 DEF Behind
<1>5. ASSUME client.conn # 0
      PROVE  /\ conn'[client.conn].s \in {"open", "broken"}
             /\ client'.pc \in Served \/ conn'[client.conn].toC # <<>> =>
                   /\ server.conn = 0 \/ server.conn >= client.conn
                   /\ \A j \in DOMAIN conn : InLine(j) => j > client.conn
  <2>1. client.conn \in DOMAIN conn
    BY <1>5, ClientFacts
  <2>2. client'.pc \in Served \/ conn'[client.conn].toC # <<>> =>
           client.pc \in Served \/ conn[client.conn].toC # <<>>
    BY <1>1, <1>5, <2>1
  <2> QED BY <1>1, <1>5, <2>1, <2>2 DEF Behind
<1> QED BY <1>1, <1>2, <1>3, <1>4, <1>5 DEF Behind

\* The client dials.
LEMMA ClientDials ==
  ASSUME Base, Order, Untouched, Behind, ClientConnect \/ ClientDial, backlog' # backlog
  PROVE  Untouched' /\ Behind'
<1> DEFINE n == Len(conn) + 1
<1>1. /\ client.pc \in {"connect", "dial"} /\ UNCHANGED server /\ client \in Clients
      /\ n \in Nat /\ n # 0
  BY BaseFacts, ClientFacts DEF ClientConnect, ClientDial, clientKeeps
<1>2. /\ \A j \in DOMAIN conn : j < n
      /\ client.conn < n /\ server.conn < n /\ server.conn \in Nat /\ client.conn \in Nat
  <2>1. conn \in Seq(Connections) /\ {server.conn, client.conn} \subseteq {0} \cup DOMAIN conn
    BY BaseFacts
  <2> QED BY <1>1, <2>1
<1>3. PICK kind \in {"control", "data"}, r \in Nat :
         /\ Dials(kind, r) /\ backlog' = Append(backlog, n)
         /\ \/ /\ kind = "control" /\ client'.pc = "challenge" /\ client'.conn = n
               /\ client.conn = 0
            \/ /\ kind = "data" /\ client'.pc = "token" /\ client.pc = "dial"
               /\ client'.conn = client.conn /\ client.conn # 0
  <2>1. CASE ClientConnect
    <3>1. /\ Dials("control", 0) /\ backlog' = Append(backlog, n)
          /\ client'.pc = "challenge" /\ client'.conn = n /\ client.conn = 0
      BY <1>1, <2>1, ConnectStep DEF Clients
    <3> QED BY <3>1
  <2>2. CASE ClientDial
    <3>1. /\ Dials("data", client.req) /\ backlog' = Append(backlog, n)
          /\ client'.pc = "token" /\ client.pc = "dial" /\ client'.conn = client.conn
      BY <1>1, <2>2, DialStep DEF Clients
    <3> QED BY <3>1, ClientFacts
  <2> QED BY <2>1, <2>2
<1>4. /\ DOMAIN conn' = DOMAIN conn \cup {n} /\ n \notin DOMAIN conn
      /\ \A j \in DOMAIN conn : conn'[j] = conn[j]
      /\ conn'[n].kind = kind /\ conn'[n].toS = <<>> /\ conn'[n].toC = <<>>
      /\ conn'[n].s = "open" /\ conn'[n].c = "open"
  BY <1>3 DEF Dials
<1>5. \A j \in DOMAIN conn' : InLine(j)' => InLine(j) \/ j = n
  <2>1. /\ DOMAIN backlog' = DOMAIN backlog \cup {Len(backlog) + 1}
        /\ backlog'[Len(backlog) + 1] = n
        /\ \A j \in DOMAIN backlog : backlog'[j] = backlog[j]
    BY <1>1, <1>3, Appended, BaseFacts, SMTT(30)
  <2>2. ASSUME NEW j \in DOMAIN conn', InLine(j)'
        PROVE  InLine(j) \/ j = n
    <3>1. CASE \E k \in DOMAIN backlog' : backlog'[k] = j
      <4>1. PICK k \in DOMAIN backlog' : backlog'[k] = j
        BY <3>1
      <4>2. CASE k \in DOMAIN backlog
        <5>1. backlog[k] = j
          BY <2>1, <4>1, <4>2
        <5> QED BY <4>2, <5>1 DEF InLine
      <4>3. CASE k = Len(backlog) + 1
        BY <2>1, <4>1, <4>3
      <4> QED BY <2>1, <4>2, <4>3
    <3>2. CASE server'.pc = "token" /\ j = server'.fd
      BY <1>1, <3>2 DEF InLine
    <3> QED BY <2>2, <3>1, <3>2 DEF InLine
  <2> QED BY <2>2
<1> HIDE DEF n
<1>6. Untouched'
  BY <1>1, <1>3, <1>4, <1>5 DEF Untouched
<1>7. \A j \in DOMAIN conn' : conn'[j].kind = "control" /\ j # client'.conn =>
         conn'[j].s # "open" \/ conn'[j].c = "broken"
  <2>1. \A j \in DOMAIN conn : j # 0
    BY BaseFacts
  <2> QED BY <1>3, <1>4, <2>1 DEF Behind
<1>8. /\ conn'[client'.conn].s \in {"open", "broken"}
      /\ client'.pc \in Served \/ conn'[client'.conn].toC # <<>> =>
            /\ server'.conn = 0 \/ server'.conn >= client'.conn
            /\ \A j \in DOMAIN conn' : InLine(j)' => j > client'.conn
  <2>1. CASE kind = "control"
    BY <1>3, <1>4, <2>1 DEF Served
  <2>2. CASE kind = "data"
    <3>1. client.conn \in DOMAIN conn /\ client.pc \in Served /\ client'.conn = client.conn
          /\ client.conn # 0
      BY <1>3, <2>2, ClientFacts DEF Served
    <3>2. n > client.conn
      BY <1>1, <1>2
    <3> QED BY <1>1, <1>4, <1>5, <3>1, <3>2 DEF Behind
  <2> QED BY <2>1, <2>2
<1> QED BY <1>6, <1>7, <1>8 DEF Behind

\* The steps of the client.
LEMMA ClientQueues ==
  ASSUME Base, Order, Untouched, Behind, Client
  PROVE  Untouched' /\ Behind'
<1>1. /\ client \in Clients /\ client.conn \in Nat
      /\ client.conn # 0 => client.conn \in DOMAIN conn
  BY BaseFacts, ClientFacts
<1>2. ASSUME client.conn # 0, client.pc \in Served \/ conn[client.conn].toC # <<>>
      PROVE  ~InLine(client.conn)
  <2>1. client.conn \in DOMAIN conn /\ ~(client.conn > client.conn)
    BY <1>1, <1>2
  <2> QED BY <1>2, <2>1 DEF Behind
<1>3. CASE ClientConnect
  <2>1. UNCHANGED server
    BY <1>3, ConnectStep
  <2>2. CASE AllClosed(ClientClosed) /\ UNCHANGED backlog /\ client'.conn = 0
    BY <1>3, <2>1, <2>2, ClientEnded
  <2>3. CASE backlog' # backlog
    BY <1>3, <2>3, ClientDials
  <2> QED BY <1>3, <2>2, <2>3, ConnectStep
<1>4. CASE ClientChallenge
  <2> DEFINE x == conn[client.conn]
  <2>1. /\ client.pc = "challenge" /\ client'.pc = "result" /\ client'.conn = client.conn
        /\ UNCHANGED <<backlog, server>> /\ client.conn \in DOMAIN conn /\ client.conn # 0
    BY <1>1, <1>4, ChallengeStep, ClientFacts DEF Clients
  <2>2. PICK y, v : ClientRead0(y) /\ ClientWrites(y, <<"answer", v>>)
    BY <1>4, ChallengeStep
  <2>3. /\ Sets(client.conn, y) /\ y.s = x.s /\ y.c = AfterWrite(x.c)
        /\ y.toS = x.toS \/ x.c = "open"
        /\ x.toC # <<>> \/ x.c # "open"
        /\ x.toC = <<>> => y.toC = <<>>
    BY <2>2 DEF ClientRead0, ClientWrites
  <2>4. x.s \in {"open", "broken"}
    BY <2>1 DEF Behind
  <2>5. InLine(client.conn) =>
            /\ y.kind = "control" => y.toS = <<>>
            /\ server.pc # "dead" =>
                 /\ y.c = "broken"
    <3> SUFFICES ASSUME InLine(client.conn)
        PROVE  /\ y.kind = "control" => y.toS = <<>>
               /\ server.pc # "dead" => y.c = "broken"
      OBVIOUS
    <3>1. x.toC = <<>> /\ x.kind = "control" /\ x.toS = <<>>
      BY <2>1, ClientFacts DEF Untouched
    <3>2. x.c # "open" /\ y.toS = <<>>
      BY <2>3, <3>1
    <3>3. server.pc # "dead" => x.c = "broken"
      BY <2>1, <3>2 DEF Untouched
    <3> QED BY <2>3, <3>1, <3>2, <3>3 DEF AfterWrite, Sets
  <2>6. x.c = "broken" => y.c = "broken"
    BY <2>3 DEF AfterWrite
  <2> HIDE DEF x
  <2> QED BY <2>1, <2>3, <2>4, <2>5, <2>6, ClientAt DEF x, Served
<1>5. CASE ClientResult
  <2> DEFINE x == conn[client.conn]
  <2>1. /\ client.pc = "result" /\ client.conn \in DOMAIN conn /\ client.conn # 0
        /\ UNCHANGED <<backlog, server>>
    BY <1>5, ResultStep, ClientFacts
  <2>2. CASE AllClosed(ClientClosed) /\ client'.conn = 0
    BY <2>1, <2>2, ClientEnded
  <2>3. CASE /\ x.toC # <<>> /\ client' = [client EXCEPT !.pc = "read", !.rand = @ + 1]
             /\ \E y : ClientRead0(y) /\ ClientWrites(y, <<"ready", 0>>)
    <3>1. PICK y : ClientRead0(y) /\ ClientWrites(y, <<"ready", 0>>)
      BY <2>3
    <3>2. /\ Sets(client.conn, y) /\ y.s = x.s /\ y.c = AfterWrite(x.c)
          /\ x.toC = <<>> => y.toC = <<>>
      BY <3>1 DEF ClientRead0, ClientWrites
    <3>3. x.s \in {"open", "broken"} /\ ~InLine(client.conn)
      BY <1>2, <2>1, <2>3 DEF Behind
    <3>4. client'.pc = "read" /\ client'.conn = client.conn
      BY <1>1, <2>3 DEF Clients
    <3>5. x.c = "broken" => y.c = "broken"
      BY <3>2 DEF AfterWrite
    <3> QED BY <2>1, <2>3, <3>2, <3>3, <3>4, <3>5, ClientAt
  <2> QED BY <1>5, <2>2, <2>3, ResultStep
<1>6. CASE ClientRead
  <2>1. client.pc = "read" /\ UNCHANGED <<backlog, server>> /\ client.conn # 0
    BY <1>6, ReadStep, ClientFacts
  <2>2. CASE \E y : ReconnectFields(y)
    BY <2>1, <2>2, ClientReconnects
  <2>3. CASE \E y, r : ReadFields(y, r)
    <3>1. PICK y, r : ReadFields(y, r)
      BY <2>3
    <3>2. /\ Sets(client.conn, y) /\ y.s = conn[client.conn].s /\ y.c = conn[client.conn].c
          /\ conn[client.conn].toC = <<>> => y.toC = <<>>
          /\ client'.pc = "check" /\ client'.conn = client.conn
      BY <1>1, <3>1 DEF ReadFields, Clients
    <3>3. conn[client.conn].s \in {"open", "broken"} /\ ~InLine(client.conn)
      BY <1>2, <2>1 DEF Behind, Served
    <3> QED BY <2>1, <3>2, <3>3, ClientAt DEF Served
  <2> QED BY <1>6, <2>2, <2>3, ReadStep
<1>7. CASE ClientCheck
  <2>1. client.pc = "check" /\ UNCHANGED <<backlog, server>> /\ client.conn # 0
    BY <1>7, CheckStep, ClientFacts
  <2>2. CASE \E y : ReconnectFields(y)
    BY <2>1, <2>2, ClientReconnects
  <2>3. CASE /\ client'.pc \in {"leave", "dial"} /\ client'.conn = client.conn
             /\ \E y, m : ClientWrites(y, m) /\ y.toC = conn[client.conn].toC
    <3>1. PICK y, m : ClientWrites(y, m) /\ y.toC = conn[client.conn].toC
      BY <2>3
    <3>2. /\ Sets(client.conn, y) /\ y.s = conn[client.conn].s
          /\ conn[client.conn].c = "broken" => y.c = "broken"
      BY <3>1 DEF ClientWrites, AfterWrite
    <3>3. conn[client.conn].s \in {"open", "broken"} /\ ~InLine(client.conn)
      BY <1>2, <2>1 DEF Behind, Served
    <3> QED BY <2>1, <2>3, <3>1, <3>2, <3>3, ClientAt DEF Served
  <2>4. \/ \E y : ReconnectFields(y)
        \/ /\ client' = [client EXCEPT !.pc = "leave"] \/ client' = [client EXCEPT !.pc = "dial"]
           /\ \E y, m : ClientWrites(y, m) /\ y.toC = conn[client.conn].toC
    BY <1>7, CheckStep
  <2>5. client' = [client EXCEPT !.pc = "leave"] \/ client' = [client EXCEPT !.pc = "dial"] =>
           client'.pc \in {"leave", "dial"} /\ client'.conn = client.conn
    BY <1>1 DEF Clients
  <2> QED BY <2>2, <2>3, <2>4, <2>5
<1>8. CASE ClientDial
  <2>1. CASE backlog' # backlog
    BY <1>8, <2>1, ClientDials
  <2>2. CASE UNCHANGED <<conn, backlog>> /\ client' = [client EXCEPT !.pc = "read", !.rand = @ + 1]
    <3>1. /\ UNCHANGED <<conn, backlog, server>> /\ client.pc = "dial"
          /\ client'.conn = client.conn /\ client'.pc = "read"
      BY <1>1, <1>8, <2>2, DialStep DEF Clients
    <3>2. Untouched'
      BY <3>1 DEF Untouched, InLine
    <3>3. Behind'
      BY <3>1 DEF Behind, InLine, Served
    <3> QED BY <3>2, <3>3
  <2>3. backlog' = Append(backlog, Len(conn) + 1) => backlog' # backlog
    BY Appended, BaseFacts
  <2> QED BY <1>8, <2>1, <2>2, <2>3, DialStep
<1>9. CASE ClientToken
  <2>1. /\ client.pc = "token" /\ client.fd \in DOMAIN conn /\ client.fd # client.conn
        /\ conn[client.fd].kind = "data" /\ UNCHANGED <<backlog, server>>
    BY <1>9, PushStep, ClientFacts
  <2>2. PICK y : /\ Sets(client.fd, y) /\ y.toC = conn[client.fd].toC
                 /\ y.s = conn[client.fd].s /\ y.c = AfterWrite(conn[client.fd].c)
    BY <1>9, PushStep
  <2>3. client'.pc = "read" /\ client'.conn = client.conn
    BY <1>1, <1>9, PushStep DEF Clients
  <2>4. InLine(client.fd) =>
            /\ y.kind = "control" => y.toS = <<>>
            /\ server.pc # "dead" => y.c \in {"open", "broken"}
    BY <2>1, <2>2 DEF Untouched, Sets, AfterWrite
  <2>5. conn[client.fd].c = "broken" => y.c = "broken"
    BY <2>2 DEF AfterWrite
  <2> QED BY <2>1, <2>2, <2>3, <2>4, <2>5, ClientAt DEF Served
<1>10. CASE ClientLeave
  BY <1>10, LeaveStep, ClientEnded
<1> QED BY <1>3, <1>4, <1>5, <1>6, <1>7, <1>8, <1>9, <1>10 DEF Client

\* What goes wrong, and the relay of the client process.
LEMMA OthersQueue ==
  ASSUME Base, Untouched, Behind,
         \/ Crash \/ Restart \/ ServerCrash \/ ServerRestart \/ Break \/ Reset \/ KeepAlive
         \/ \E i \in DOMAIN conn : Payload(i)
  PROVE  Untouched' /\ Behind'
<1>1. client \in Clients /\ server \in Servers
  BY BaseFacts
<1>2. CASE Crash
  BY <1>2, CrashStep, ClientEnded
<1>3. CASE Restart
  <2>1. UNCHANGED <<conn, backlog, server>> /\ client'.conn = 0 /\ client.conn = 0
    BY <1>3, RestartStep, ClientFacts DEF NewClient, NoConnection
  <2> QED BY <2>1, ClientGone
<1>4. CASE ServerCrash
  <2>1. UNCHANGED client
    BY <1>4 DEF ServerCrash
  <2> QED BY <1>4, <2>1, ServerCrashStep, ServerGone
<1>5. CASE ServerRestart
  <2>1. /\ backlog' = <<>> /\ server'.conn = 0 /\ server'.pc = "accept" /\ UNCHANGED <<conn, client>>
    BY <1>5 DEF ServerRestart, NewServer, NoConnection, serverKeeps
  <2>2. \A j : ~InLine(j)'
    BY <2>1 DEF InLine
  <2> QED BY <2>1, <2>2 DEF Untouched, Behind
<1>6. CASE Break \/ Reset
  <2>1. UNCHANGED <<backlog, server, client>>
    BY <1>6, BreakStep, ResetStep
  <2>2. PICK i \in DOMAIN conn : /\ \E y : BreakFields(i, y)
                                 /\ client.conn # i => conn[i].kind = "data"
    <3>1. CASE Break
      BY <3>1, BreakStep
    <3>2. CASE Reset
      BY <3>2, ResetStep
    <3> QED BY <1>6, <3>1, <3>2
  <2>3. PICK y : BreakFields(i, y)
    BY <2>2
  <2>4. /\ Sets(i, y) /\ conn[i].c = "open" /\ conn[i].s = "open"
        /\ y.s \in {"open", "broken"} /\ y.c \in {"open", "broken"}
        /\ y.toS \in {<<>>} \cup Prefixes(conn[i].toS)
        /\ y.toC \in {<<>>} \cup Prefixes(conn[i].toC)
    BY <2>3 DEF BreakFields
  <2>5. /\ conn[i].toC = <<>> => y.toC = <<>>
        /\ conn[i].toS = <<>> => y.toS = <<>>
    <3>1. conn[i].toS \in Seq(Messages) /\ conn[i].toC \in Seq(ToClient)
      BY <2>2, BaseFacts DEF Connections
    <3> QED BY <2>4, <3>1, PrefixOf
  <2>6. i = client.conn => client.conn # 0 /\ conn[i].kind = "control"
    BY <2>2, BaseFacts, ClientFacts
  <2>7. InLine(i) =>
            /\ y.kind = "control" => y.toS = <<>>
            /\ server.pc # "dead" =>
                 /\ y.c \in {"open", "broken"}
                 /\ i = client.conn /\ client'.pc = "result" => y.c = "broken"
    BY <2>1, <2>2, <2>4, <2>5 DEF Untouched, Sets
  <2>8. conn[i].s # "open" /\ conn[i].kind = "control" => y.s # "open"
    BY <2>4
  <2> QED BY <2>1, <2>2, <2>4, <2>5, <2>6, <2>7, <2>8, ClientAt
<1>7. CASE KeepAlive
  <2>1. PICK i \in DOMAIN conn : \E y :
           /\ conn[i].kind = "control"
           /\ Sets(i, y) /\ y.toS = conn[i].toS /\ y.toC = conn[i].toC
           /\ y.s = "broken" /\ y.c = "broken"
    BY <1>7, KeepAliveStep
  <2>2. PICK y :
           /\ conn[i].kind = "control"
           /\ Sets(i, y) /\ y.toS = conn[i].toS /\ y.toC = conn[i].toC
           /\ y.s = "broken" /\ y.c = "broken"
    BY <2>1
  <2>3. UNCHANGED <<backlog, server, client>>
    BY <1>7, KeepAliveStep
  <2>4. InLine(i) => (y.kind = "control" => y.toS = <<>>) /\ y.kind = "control"
    BY <2>2 DEF Untouched, Sets
  <2> QED BY <2>2, <2>3, <2>4, ClientAt
<1>8. CASE \E i \in DOMAIN conn : Payload(i)
  <2>1. PICK i \in DOMAIN conn : Payload(i)
    BY <1>8
  <2>2. /\ conn[i].kind = "data" /\ UNCHANGED <<backlog, server>>
        /\ client' = [client EXCEPT !.pushed = @ \ {i}]
    BY <2>1, PayloadStep
  <2>3. PICK y : Sets(i, y) /\ y.toC = conn[i].toC /\ y.s = conn[i].s
                 /\ y.c = AfterWrite(conn[i].c)
    BY <2>1, PayloadStep
  <2>4. client'.pc = client.pc /\ client'.conn = client.conn
    BY <1>1, <2>2 DEF Clients
  <2>5. i # client.conn
    BY <2>2, ClientFacts
  <2>6. InLine(i) =>
            /\ y.kind = "control" => y.toS = <<>>
            /\ server.pc # "dead" => y.c \in {"open", "broken"}
    BY <2>2, <2>3 DEF Untouched, Sets, AfterWrite
  <2>7. conn[i].c = "broken" => y.c = "broken"
    BY <2>3 DEF AfterWrite
  <2> QED BY <2>2, <2>3, <2>4, <2>5, <2>6, <2>7, ClientAt
<1> QED BY <1>2, <1>3, <1>4, <1>5, <1>6, <1>7, <1>8

\* Untouched and Behind are inductive, given Base and Order.
LEMMA NextQueues ==
  Base /\ Order /\ Untouched /\ Behind /\ [Next]_vars => Untouched' /\ Behind'
<1> SUFFICES ASSUME Base, Order, Untouched, Behind, [Next]_vars PROVE Untouched' /\ Behind'
  OBVIOUS
<1>1. CASE UNCHANGED <<conn, backlog, server, client>>
  BY <1>1 DEF Untouched, Behind, InLine
<1>2. CASE Ask \/ WakeFails \/ Quit \/ UNCHANGED vars
  BY <1>1, <1>2 DEF Ask, WakeFails, Quit, vars
<1> QED BY <1>2, ServerQueues, ClientQueues, OthersQueue DEF Next

LEMMA InitQueues == Init => Untouched /\ Behind
  BY DEF Init, Untouched, Behind, NewClient, NoConnection
-----------------------------------------------------------------------------
(* Where the two managers are together, on the server's control connection.   *)

Short(q) == q = <<>> \/ Len(q) = 1
IsToken(q) == Len(q) = 1 /\ q[1][1] = "token"
TokenNow == <<<<"token", client.rand>>>>
Ended(end) == end \in {"fin", "gone"}

\* The network failed the connection, and nothing arrives on it any more.
Cut(i) == /\ conn[i].toS = <<>> /\ conn[i].s \in {"open", "broken"}
          /\ "broken" \in {conn[i].s, conn[i].c}

\* A data connection for the request at hand, and the token that announced it.
Right(i) == conn[i].kind = "data" /\ conn[i].req = server.req
Matches(i, res) ==
    faults.crash = 0 /\ ~faults.spoke /\ IsToken(res) =>
       \/ conn[i].toS = res
       \/ client.pc = "token" /\ client.fd = i /\ res = TokenNow
       \/ Cut(i)

\* A control connection in whose handshake client and server wait for each other,
\* after a crash of the client, until it breaks.
Fresh(i) ==
    /\ conn[i].kind = "control" /\ conn[i].toS = <<>> /\ conn[i].toC = <<>>
    /\ conn[i].s \in {"open", "broken"} /\ conn[i].c \in {"open", "broken"}
    /\ \/ client.conn = i /\ client.pc = "challenge"
       \/ client.conn = i /\ client.pc = "result" /\ conn[i].c = "broken"
       \/ client.pc = "exited" /\ conn[i].c = "broken"

\* What the server accepts after the next k is such a connection.
Stuck(k) == faults.crash = 1 /\ \A j \in DOMAIN backlog : j = k + 1 => Fresh(backlog[j])

\* A control connection on which nothing will be read, at least before a crash.
Blank(i) == conn[i].kind = "control" /\ (faults.crash = 0 => Fresh(i))

\* The data connection that the token announced could not be dialled.
Lost == faults.dial > 0 /\ \A j \in DOMAIN backlog : j = 1 => Blank(backlog[j])

\* The server's connection, and whether one of its ends has given it up.
Own == conn[server.conn]
Half == Own.s = "broken" \/ Own.c = "broken"

\* The client is on the connection, by the place of the server.
OnAnswer ==
    /\ client.pc \in {"challenge", "result"}
    /\ Short(Own.toS) /\ Short(Own.toC)
    /\ client.pc = "challenge" => Own.toS = <<>>
    /\ client.pc = "result" => Own.toC = <<>>
OnReady ==
    /\ backlog = <<>>
    /\ \/ client.pc = "result" /\ Own.toS = <<>> /\ Short(Own.toC)
       \/ client.pc = "read" /\ Short(Own.toS) /\ Own.toC = <<>>
OnPop ==
    /\ backlog = <<>> /\ Own.toS = <<>>
    /\ \/ client.pc = "result" /\ Own.s = "broken" /\ Short(Own.toC)
       \/ client.pc = "read" /\ Own.toC = <<>>
Said(q) == Own.toS = q \/ (Own.toS = <<>> /\ Half)
OnReply ==
    \/ /\ client.pc = "read" /\ Own.toS = <<>> /\ backlog = <<>>
       /\ Own.toC \in {<<>>, <<<<"CONNECT", server.req>>>>}
    \/ /\ client.pc = "check" /\ client.req = server.req
       /\ Own.toS = <<>> /\ Own.toC = <<>> /\ backlog = <<>>
    \/ /\ client.pc = "leave" /\ Said(<<<<"logout", 0>>>>)
       /\ Own.toC = <<>> /\ backlog = <<>>
    \/ /\ client.pc = "dial" /\ client.req = server.req /\ Said(TokenNow)
       /\ Own.toC = <<>> /\ backlog = <<>>
    \/ /\ client.pc = "token" /\ Said(TokenNow)
       /\ Own.toC = <<>> /\ backlog = <<client.fd>> /\ Right(client.fd)
    \/ /\ client.pc = "read" /\ (IsToken(Own.toS) \/ (Own.toS = <<>> /\ Half))
       /\ Own.toC = <<>>
       /\ \/ Len(backlog) = 1 /\ Right(backlog[1]) /\ Matches(backlog[1], Own.toS)
          \/ backlog = <<>> /\ faults.dial > 0
OnData ==
    /\ Own.toS = <<>> /\ Own.toC = <<>> /\ IsToken(server.res)
    /\ \/ /\ client.pc = "dial" /\ client.req = server.req
          /\ backlog = <<>> /\ server.res = TokenNow
       \/ /\ client.pc = "token" /\ backlog = <<client.fd>> /\ Right(client.fd)
          /\ server.res = TokenNow
       \/ /\ client.pc = "read" /\ Len(backlog) = 1
          /\ Right(backlog[1]) /\ Matches(backlog[1], server.res)
       \/ client.pc = "read" /\ backlog = <<>> /\ faults.dial > 0
OnToken ==
    /\ Own.toS = <<>> /\ Own.toC = <<>> /\ IsToken(server.res) /\ backlog = <<>>
    /\ Right(server.fd)
    /\ \/ client.pc = "token" /\ client.fd = server.fd /\ server.res = TokenNow
       \/ client.pc = "read" /\ Matches(server.fd, server.res)
OnLine ==
    /\ server.pc = "answer" => OnAnswer
    /\ server.pc = "ready" => OnReady
    /\ server.pc \in {"pop", "send"} => OnPop
    /\ server.pc = "reply" => OnReply
    /\ server.pc = "data" => OnData
    /\ server.pc = "token" => OnToken

\* The client has left it.
OffAnswer == Short(Own.toS) /\ (Own.toS # <<>> /\ Ended(Own.s) => Stuck(0))
OffReady == Short(Own.toS) /\ (Ended(Own.s) => Stuck(0))
OffPop == Own.toS = <<>> /\ (Ended(Own.s) => Stuck(0))
\* The token res has arrived, and the connection it announced, or it never will.
Announced(res) ==
    \/ Stuck(0)
    \/ IsToken(res) /\ Lost
    \/ /\ res # <<>> /\ backlog # <<>> /\ Right(backlog[1]) /\ Matches(backlog[1], res)
       /\ Ended(Own.s) => Stuck(1)
OffReply ==
    \/ Own.toS = <<>> /\ (Ended(Own.s) => Stuck(0))
    \/ Own.toS = <<<<"logout", 0>>>> /\ (quit \/ faults.crash > 0)
    \/ IsToken(Own.toS) /\ Announced(Own.toS)
OffData == /\ Own.toS = <<>> /\ (server.res = <<>> \/ IsToken(server.res))
              /\ Announced(server.res)
OffToken ==
    /\ Own.toS = <<>> /\ (server.res = <<>> \/ IsToken(server.res))
    /\ \/ faults.crash = 1 /\ Fresh(server.fd)
       \/ IsToken(server.res) /\ faults.dial > 0 /\ Blank(server.fd)
       \/ /\ server.res # <<>> /\ Right(server.fd) /\ Matches(server.fd, server.res)
          /\ Ended(Own.s) => Stuck(0)
OffLine ==
    /\ server.pc = "answer" => OffAnswer
    /\ server.pc = "ready" => OffReady
    /\ server.pc \in {"pop", "send"} => OffPop
    /\ server.pc = "reply" => OffReply
    /\ server.pc = "data" => OffData
    /\ server.pc = "token" => OffToken

\* Only a connection on which somebody answered is a control connection for the
\* server, and it has not closed it.
Line ==
    faults.crash <= 1 /\ server.pc \in Talks \cup {"answer"} =>
       /\ Own.kind = "control" \/ server.pc = "answer"
       /\ Own.kind = "control" =>
             /\ Own.c \in {"open", "broken"}
             /\ client.conn = server.conn => OnLine
             /\ client.conn # server.conn => OffLine

LEMMA LineFacts ==
  ASSUME Base, Behind, Line, faults.crash <= 1, server.pc \in Talks \cup {"answer"}
  PROVE  /\ server.conn \in DOMAIN conn /\ server.conn # 0 /\ Own \in Connections
         /\ Own.kind = "control" \/ (server.pc = "answer" /\ Own.kind = "data")
         /\ client.conn = server.conn => Own.kind = "control"
         /\ Own.kind = "control" => Own.c \in {"open", "broken"}
         /\ client.conn = server.conn => OnLine /\ Own.s \in {"open", "broken"}
         /\ Own.kind = "control" /\ client.conn # server.conn =>
               OffLine /\ client.pc \notin Served
<1>1. server.conn \in DOMAIN conn /\ server.conn # 0 /\ Own \in Connections
  BY BaseFacts DEF Own
<1>2. Own.kind = "control" \/ (server.pc = "answer" /\ Own.kind = "data")
  BY <1>1 DEF Line, Connections
<1>3. client.conn = server.conn => Own.kind = "control"
  BY <1>1, ClientFacts DEF Own
<1>4. client.conn = server.conn => OnLine /\ Own.s \in {"open", "broken"}
  BY <1>1, <1>3 DEF Line, Behind, Own
<1>5. Own.kind = "control" /\ client.conn # server.conn => OffLine
  BY DEF Line
<1>6. Own.kind = "control" /\ client.conn # server.conn => client.pc \notin Served
  <2> SUFFICES ASSUME Own.kind = "control", client.conn # server.conn, client.pc \in Served
               PROVE  FALSE
    OBVIOUS
  <2>1. client.conn # 0 /\ server.conn <= client.conn
    BY <1>1, ClientFacts DEF Own, Served
  <2>2. server.conn >= client.conn
    BY <1>1, <2>1 DEF Behind
  <2>3. server.conn \in Nat /\ client.conn \in Nat
    BY <1>1, BaseFacts, ClientFacts
  <2> QED BY <2>1, <2>2, <2>3
<1> QED BY <1>1, <1>2, <1>3, <1>4, <1>5, <1>6 DEF Line

\* While the server is on the connection of a handshake, nobody is in line.
LEMMA NobodyWaits ==
  ASSUME Base, Order, client.pc \in {"challenge", "result"}, client.conn = server.conn
  PROVE  backlog = <<>>
<1> SUFFICES ASSUME backlog # <<>> PROVE FALSE
  OBVIOUS
<1>1. Len(backlog) \in DOMAIN backlog /\ backlog[Len(backlog)] = Len(conn)
  <2>1. backlog \in Seq(Nat)
    BY BaseFacts
  <2> QED BY <2>1 DEF Order
<1>2. server.conn < Len(conn) /\ server.conn = Len(conn) /\ Len(conn) \in Nat
  BY <1>1, ClientFacts DEF Order
<1> QED BY <1>2

\* The server is busy with its connection: those in line stay as they are.
LEMMA Beside ==
  ASSUME Base, Order, NEW y, NEW i \in {server.conn, server.fd}, Sets(i, y),
         UNCHANGED <<backlog, client, faults>>
  PROVE  /\ \A j \in DOMAIN backlog : backlog[j] \in DOMAIN conn
                                      /\ conn'[backlog[j]] = conn[backlog[j]]
         /\ \A k : Stuck(k) => Stuck(k)'
         /\ Lost => Lost'
<1>1. \A j \in DOMAIN backlog : backlog[j] \in DOMAIN conn /\ backlog[j] # i
  <2>1. \A j \in DOMAIN backlog : backlog[j] \in DOMAIN conn /\ backlog[j] \in Nat
    BY BaseFacts
  <2>2. server.conn \in Nat /\ server.fd \in Nat
    BY BaseFacts DEF Servers
  <2> QED BY <2>1, <2>2 DEF Order
<1>2. \A j \in DOMAIN backlog : conn'[backlog[j]] = conn[backlog[j]]
  BY <1>1 DEF Sets
<1>3. \A k : Stuck(k) => Stuck(k)'
  BY <1>2 DEF Stuck, Fresh
<1>4. Lost => Lost'
  BY <1>2 DEF Lost, Blank, Fresh
<1> QED BY <1>1, <1>2, <1>3, <1>4

\* A token is not an answer, and not a logout.
LEMMA FirstWords ==
  /\ \A q \in Seq(ToServer("data")) : q # <<>> => q[1] # <<"answer", 0>>
  /\ \A q : IsToken(q) => q # <<>> /\ q[1] # <<"logout", 0>>
  /\ IsToken(TokenNow) /\ TokenNow # <<>>
<1>1. ASSUME NEW q \in Seq(ToServer("data")), q # <<>> PROVE q[1] # <<"answer", 0>>
  <2>1. q[1] \in ToServer("data")
    BY <1>1
  <2> QED BY <2>1 DEF ToServer
<1>2. ASSUME NEW q, IsToken(q) PROVE q # <<>> /\ q[1] # <<"logout", 0>>
  BY <1>2 DEF IsToken
<1>3. IsToken(TokenNow) /\ TokenNow # <<>>
  BY DEF IsToken, TokenNow
<1> QED BY <1>1, <1>2, <1>3

\* The server accepts a control connection, or takes a data connection for one.
LEMMA LineAccepts ==
  ASSUME Base, Order, Untouched, Behind, ServerAccept
  PROVE  Line'
<1> DEFINE b == Head(backlog)
           y == ServerWrote(conn[b], <<"challenge", 0>>)
<1>1. /\ b \in DOMAIN conn /\ b = backlog[1] /\ Sets(b, y)
      /\ server'.conn = b /\ server'.pc = "answer" /\ UNCHANGED client
      /\ server.pc = "accept"
  BY AcceptStep DEF ServerAccept, serverKeeps
<1>2. conn[b] \in Connections /\ <<"challenge", 0>> \in ToClient
  BY <1>1, BaseFacts, Sent
<1>3. /\ y.kind = conn[b].kind /\ y.toS = conn[b].toS /\ y.c = conn[b].c
      /\ y.s = AfterWrite(conn[b].s)
      /\ y.toC = IF conn[b].s = "open" /\ conn[b].c # "broken"
                 THEN Append(conn[b].toC, <<"challenge", 0>>) ELSE conn[b].toC
  BY <1>2, ServerWroteFields
<1>4. InLine(b)
  <2>1. 1 \in DOMAIN backlog
    BY Tails, BaseFacts DEF ServerAccept
  <2> QED BY <1>1, <2>1 DEF InLine
<1>5. /\ conn[b].toC = <<>> /\ conn[b].c \in {"open", "broken"}
      /\ conn[b].kind = "control" => conn[b].toS = <<>>
      /\ b = client.conn /\ client.pc = "result" => conn[b].c = "broken"
  BY <1>1, <1>4 DEF Untouched
<1>6. b = client.conn => client.pc \in {"challenge", "result"}
  <2>1. b = client.conn => client.pc \notin Served
    <3>1. b \in Nat /\ b # 0
      BY <1>1, BaseFacts
    <3> QED BY <1>1, <1>4, <3>1 DEF Behind
  <2>2. b # 0
    BY <1>1, BaseFacts
  <2> QED BY <2>1, <2>2, ClientFacts
<1> HIDE DEF b, y
<1>7. Own' = y
  BY <1>1 DEF Own, Sets
<1>8. CASE y.kind = "control"
  <2>1. y.toS = <<>> /\ y.c \in {"open", "broken"}
    BY <1>3, <1>5, <1>8
  <2>2. y.toC = <<>> \/ y.toC = Append(<<>>, <<"challenge", 0>>)
    BY <1>3, <1>5
  <2>3. Short(y.toC) /\ Short(y.toS)
    <3>1. Append(<<>>, <<"challenge", 0>>) = <<<<"challenge", 0>>>>
      OBVIOUS
    <3>2. y.toC = <<>> \/ y.toC = <<<<"challenge", 0>>>>
      BY <2>2, <3>1, Zenon
    <3>3. Short(<<<<"challenge", 0>>>>) /\ Short(<<>>)
      BY DEF Short
    <3> QED BY <2>1, <3>2, <3>3, Zenon
  <2>4. b = client.conn => OnAnswer'
    BY <1>1, <1>3, <1>5, <1>6, <1>7, <2>1, <2>3 DEF OnAnswer
  <2>5. OffAnswer'
    BY <1>7, <2>1, <2>3 DEF OffAnswer
  <2> QED BY <1>1, <1>7, <2>1, <2>4, <2>5 DEF Line, OnLine, OffLine
<1>9. CASE y.kind # "control"
  BY <1>1, <1>7, <1>9 DEF Line
<1> QED BY <1>8, <1>9

\* The server reads an answer.
LEMMA LineAnswers ==
  ASSUME Base, Order, Behind, Line, faults.crash <= 1, ServerAnswer
  PROVE  Line'
<1>1. /\ server.pc = "answer" /\ UNCHANGED <<backlog, client, faults>> /\ server \in Servers
  BY AnswerFacts, BaseFacts
<1>2. CASE server'.pc \in {"dead", "accept"}
  BY <1>2 DEF Line, Talks
<1>3. CASE \E y : AnswerFields(y) /\ server' = [server EXCEPT !.pc = "ready"]
  <2>1. PICK y : AnswerFields(y) /\ server' = [server EXCEPT !.pc = "ready"]
    BY <1>3
  <2>2. server'.pc = "ready" /\ server'.conn = server.conn
    BY <1>1, <2>1 DEF Servers
  <2>3. server' # [server EXCEPT !.pc = "accept"]
    <3>1. [server EXCEPT !.pc = "accept"].pc = "accept"
      BY <1>1 DEF Servers
    <3> QED BY <2>2, <3>1
  <2>4. /\ Sets(server.conn, y) /\ Own.toS # <<>> /\ Own.toS[1] = <<"answer", 0>>
        /\ Short(Own.toS) => y.toS = <<>>
        /\ y.s = AfterWrite(Own.s) /\ y.c = Own.c
        /\ y.toC = IF Own.s = "open" /\ Own.c # "broken"
                   THEN Append(Own.toC, <<"success", 0>>) ELSE Own.toC
    BY <2>1, <2>3 DEF AnswerFields, Own, Short
  <2>5. Own' = y /\ y.kind = Own.kind
    BY <2>2, <2>4 DEF Own, Sets
  <2>6. Own.kind = "control"
    <3>1. Own.toS \in Seq(ToServer(Own.kind))
      BY <1>1, LineFacts DEF Connections
    <3> QED BY <1>1, <2>4, <3>1, LineFacts, FirstWords
  <2>7. Own.c \in {"open", "broken"}
    BY <1>1, <2>6, LineFacts
  <2>8. ASSUME client.conn = server.conn PROVE OnReady'
    <3>1. OnAnswer
      BY <1>1, <2>8, LineFacts DEF OnLine
    <3>2. client.pc = "result" /\ Own.toC = <<>> /\ y.toS = <<>>
      BY <2>4, <3>1 DEF OnAnswer
    <3>3. Short(y.toC)
      BY <2>4, <3>2 DEF Short
    <3>4. backlog = <<>>
      BY <2>8, <3>2, NobodyWaits
    <3> QED BY <1>1, <2>5, <3>2, <3>3, <3>4 DEF OnReady
  <2>9. ASSUME client.conn # server.conn PROVE OffReady'
    <3>1. OffAnswer
      BY <1>1, <2>6, <2>9, LineFacts DEF OffLine
    <3>2. y.toS = <<>> /\ (Ended(y.s) => Stuck(0))
      BY <2>4, <3>1 DEF OffAnswer, Ended, AfterWrite
    <3>3. Stuck(0) => Stuck(0)'
      BY <1>1, <2>4, Beside
    <3> QED BY <2>5, <3>2, <3>3 DEF OffReady, Short
  <2> QED BY <1>1, <2>2, <2>4, <2>5, <2>6, <2>7, <2>8, <2>9 DEF Line, OnLine, OffLine
<1>4. \/ server'.pc \in {"dead", "accept"}
      \/ \E y : AnswerFields(y) /\ server' = [server EXCEPT !.pc = "ready"]
  <2>1. CASE ServerDies
    BY <1>1, <2>1 DEF ServerDies, Servers
  <2>2. CASE \E y : AnswerFields(y)
    <3>1. PICK y : AnswerFields(y)
      BY <2>2
    <3>2. server' \in {[server EXCEPT !.pc = "ready"], [server EXCEPT !.pc = "accept"]}
      BY <3>1 DEF AnswerFields
    <3>3. [server EXCEPT !.pc = "accept"].pc = "accept"
      BY <1>1 DEF Servers
    <3> QED BY <3>1, <3>2, <3>3
  <2> QED BY <2>1, <2>2, AnswerFacts
<1> QED BY <1>2, <1>3, <1>4

\* The server waits for "ready", then for a request.
LEMMA LineReadies ==
  ASSUME Base, Order, Behind, Line, faults.crash <= 1, ServerReady
  PROVE  Line'
<1>1. /\ server.pc = "ready" /\ UNCHANGED <<backlog, client, faults>>
      /\ server'.pc = "pop" /\ server'.conn = server.conn
  BY ReadyStep, BaseFacts DEF Servers
<1>2. PICK y : ReadyFields(y)
  BY ReadyStep
<1>3. /\ Sets(server.conn, y) /\ (Own.toS # <<>> \/ Own.s # "open")
      /\ Short(Own.toS) => y.toS = <<>>
      /\ y.toC = Own.toC /\ y.s = Own.s /\ y.c = Own.c
  BY <1>2 DEF ReadyFields, Own, Short
<1>4. Own' = y /\ y.kind = Own.kind
  BY <1>1, <1>3 DEF Own, Sets
<1>5. Own.kind = "control" /\ Own.c \in {"open", "broken"}
  BY <1>1, LineFacts DEF Talks
<1>6. ASSUME client.conn = server.conn PROVE OnPop'
  <2>1. OnReady /\ Own.s \in {"open", "broken"}
    BY <1>1, <1>6, LineFacts DEF OnLine, Talks
  <2>2. y.toS = <<>> /\ (client.pc = "result" => y.s = "broken")
    BY <1>3, <2>1 DEF OnReady, Short
  <2> QED BY <1>1, <1>3, <1>4, <2>1, <2>2 DEF OnReady, OnPop
<1>7. ASSUME client.conn # server.conn PROVE OffPop'
  <2>1. OffReady
    BY <1>1, <1>5, <1>7, LineFacts DEF OffLine, Talks
  <2>2. Stuck(0) => Stuck(0)'
    BY <1>1, <1>3, Beside
  <2> QED BY <1>3, <1>4, <2>1, <2>2 DEF OffReady, OffPop
<1> QED BY <1>1, <1>3, <1>4, <1>5, <1>6, <1>7 DEF Line, OnLine, OffLine

LEMMA LinePops ==
  ASSUME Base, Order, Behind, Line, faults.crash <= 1, ServerPop
  PROVE  Line'
<1>1. /\ server.pc = "pop" /\ UNCHANGED <<conn, backlog, client, faults>>
      /\ server'.pc = "send" /\ server'.conn = server.conn
  BY PopStep, BaseFacts DEF Servers
<1>2. Own' = Own
  BY <1>1 DEF Own
<1>3. Own.kind = "control" /\ Own.c \in {"open", "broken"}
  BY <1>1, LineFacts DEF Talks
<1>4. client.conn = server.conn => OnPop /\ OnPop'
  BY <1>1, <1>2, LineFacts DEF OnLine, Talks, OnPop
<1>5. client.conn # server.conn => OffPop /\ OffPop'
  <2>1. Stuck(0) => Stuck(0)'
    BY <1>1 DEF Stuck, Fresh
  <2>2. client.conn # server.conn => OffPop
    BY <1>1, <1>3, LineFacts DEF OffLine, Talks
  <2> QED BY <1>2, <2>1, <2>2 DEF OffPop
<1> QED BY <1>1, <1>2, <1>3, <1>4, <1>5 DEF Line, OnLine, OffLine

\* The server passes a request on.
LEMMA LineSends ==
  ASSUME Base, Order, Behind, Line, faults.crash <= 1, ServerSend
  PROVE  Line'
<1>1. /\ server.pc = "send" /\ UNCHANGED <<backlog, client, faults>> /\ server \in Servers
  BY SendStep, BaseFacts
<1>2. CASE server'.pc = "accept"
  BY <1>2 DEF Line, Talks
<1>3. CASE /\ ~Fails(Own.s) /\ \E y : SendFields(y)
           /\ server' = [server EXCEPT !.pc = "reply"]
  <2>1. PICK y : SendFields(y)
    BY <1>3
  <2>2. server'.pc = "reply" /\ server'.conn = server.conn /\ server'.req = server.req
    BY <1>1, <1>3 DEF Servers
  <2>3. /\ Sets(server.conn, y)
        /\ y.toS = Own.toS /\ y.s = AfterWrite(Own.s) /\ y.c = Own.c
        /\ y.toC = IF Own.s = "open" /\ Own.c # "broken"
                   THEN Append(Own.toC, <<"CONNECT", server.req>>) ELSE Own.toC
    BY <2>1 DEF SendFields, Own
  <2>4. Own' = y /\ y.kind = Own.kind
    BY <2>2, <2>3 DEF Own, Sets
  <2>5. Own.kind = "control" /\ Own.c \in {"open", "broken"}
    BY <1>1, LineFacts DEF Talks
  <2>6. ASSUME client.conn = server.conn PROVE OnReply'
    <3>1. OnPop
      BY <1>1, <2>6, LineFacts DEF OnLine, Talks
    <3>2. client.pc = "read" /\ Own.toC = <<>> /\ Own.toS = <<>> /\ backlog = <<>>
      BY <1>3, <3>1 DEF OnPop, Fails
    <3>3. y.toC \in {<<>>, <<<<"CONNECT", server.req>>>>}
      BY <2>3, <3>2
    <3> QED BY <1>1, <2>2, <2>3, <2>4, <3>2, <3>3 DEF OnReply
  <2>7. ASSUME client.conn # server.conn PROVE OffReply'
    <3>1. OffPop
      BY <1>1, <2>5, <2>7, LineFacts DEF OffLine, Talks
    <3>2. Stuck(0) => Stuck(0)'
      BY <1>1, <2>3, Beside
    <3>3. Ended(y.s) => Ended(Own.s)
      BY <2>3 DEF Ended, AfterWrite
    <3> QED BY <2>3, <2>4, <3>1, <3>2, <3>3 DEF OffPop, OffReply
  <2> QED BY <1>1, <2>2, <2>3, <2>4, <2>5, <2>6, <2>7 DEF Line, OnLine, OffLine
<1>4. [server EXCEPT !.pc = "accept", !.req = 0].pc = "accept"
  BY <1>1 DEF Servers
<1> QED BY <1>2, <1>3, <1>4, SendStep DEF Own

\* The server reads the reply.
LEMMA LineReplies ==
  ASSUME Base, Order, Behind, Line, faults.crash <= 1, ServerReply
  PROVE  Line'
<1>1. /\ server.pc = "reply" /\ UNCHANGED <<backlog, client, faults>> /\ server \in Servers
  BY ReplyStep, BaseFacts
<1>2. CASE server'.pc = "accept"
  BY <1>2 DEF Line, Talks
<1>3. CASE \E y, m : /\ ReplyFields(y, m) /\ (m = <<>> \/ m[1] # <<"logout", 0>>)
                     /\ server' = [server EXCEPT !.pc = "data", !.res = m]
  <2>1. PICK y, m : /\ ReplyFields(y, m) /\ (m = <<>> \/ m[1] # <<"logout", 0>>)
                    /\ server' = [server EXCEPT !.pc = "data", !.res = m]
    BY <1>3
  <2>2. /\ server'.pc = "data" /\ server'.conn = server.conn /\ server'.req = server.req
        /\ server'.res = m
    BY <1>1, <2>1 DEF Servers
  <2>3. /\ Sets(server.conn, y) /\ ~(Own.toS = <<>> /\ Own.s \in {"open", "broken"})
        /\ Own.toS = <<>> => m = <<>>
        /\ Own.toS # <<>> => m # <<>> /\ m[1] = Own.toS[1]
        /\ Len(Own.toS) = 1 => m = Own.toS /\ y.toS = <<>>
        /\ Own.toS = <<>> => y.toS = <<>>
        /\ y.toC = Own.toC /\ y.s = Own.s /\ y.c = Own.c
    BY <2>1 DEF ReplyFields, Own
  <2>4. Own' = y /\ y.kind = Own.kind
    BY <2>2, <2>3 DEF Own, Sets
  <2>5. Own.kind = "control" /\ Own.c \in {"open", "broken"} /\ Own.s \in EndStates
    BY <1>1, LineFacts DEF Talks, Connections
  <2>6. /\ \A j \in DOMAIN backlog : conn'[backlog[j]] = conn[backlog[j]]
        /\ \A k : Stuck(k) => Stuck(k)'
        /\ Lost => Lost'
    BY <1>1, <2>3, Beside
  <2>7. backlog # <<>> => 1 \in DOMAIN backlog
    BY Tails, BaseFacts
  <2>8. backlog # <<>> => /\ Right(backlog[1]) => Right(backlog[1])'
                          /\ \A q : Matches(backlog[1], q) => Matches(backlog[1], q)'
    BY <1>1, <2>2, <2>6, <2>7 DEF Right, Matches, TokenNow, Cut
  <2>9. ASSUME client.conn = server.conn PROVE OnData'
    <3>1. OnReply /\ Own.toS # <<>>
      BY <1>1, <2>3, <2>9, LineFacts DEF OnLine, Talks
    <3>2. CASE client.pc = "leave" /\ Said(<<<<"logout", 0>>>>)
      <4>1. Own.toS[1] = <<"logout", 0>>
        BY <3>1, <3>2 DEF Said
      <4> QED BY <2>1, <2>3, <3>1, <4>1
    <3>3. CASE /\ client.pc = "dial" /\ client.req = server.req /\ Said(TokenNow)
               /\ Own.toC = <<>> /\ backlog = <<>>
      <4>1. Own.toS = TokenNow /\ IsToken(Own.toS)
        BY <3>1, <3>3, FirstWords DEF Said
      <4>2. m = TokenNow /\ y.toS = <<>> /\ IsToken(m)
        BY <2>3, <4>1 DEF IsToken
      <4>3. TokenNow' = TokenNow
        BY <1>1 DEF TokenNow
      <4> QED BY <1>1, <2>2, <2>3, <2>4, <3>3, <4>2, <4>3 DEF OnData
    <3>4. CASE /\ client.pc = "token" /\ Said(TokenNow)
               /\ Own.toC = <<>> /\ backlog = <<client.fd>> /\ Right(client.fd)
      <4>1. Own.toS = TokenNow /\ IsToken(Own.toS)
        BY <3>1, <3>4, FirstWords DEF Said
      <4>2. m = TokenNow /\ y.toS = <<>> /\ IsToken(m)
        BY <2>3, <4>1 DEF IsToken
      <4>3. TokenNow' = TokenNow
        BY <1>1 DEF TokenNow
      <4>4. backlog # <<>> /\ backlog[1] = client.fd
        BY <3>4
      <4>5. Right(client.fd)'
        BY <1>1, <2>8, <3>4, <4>4 DEF Right
      <4> QED BY <1>1, <2>2, <2>3, <2>4, <3>4, <4>2, <4>3, <4>5 DEF OnData
    <3>5. CASE /\ client.pc = "read" /\ IsToken(Own.toS) /\ Own.toC = <<>>
               /\ Len(backlog) = 1 /\ Right(backlog[1]) /\ Matches(backlog[1], Own.toS)
      <4>1. m = Own.toS /\ y.toS = <<>>
        BY <2>3, <3>5 DEF IsToken
      <4>2. Right(backlog[1])' /\ Matches(backlog[1], m)'
        <5>1. backlog # <<>>
          <6>1. Len(backlog) = 1 /\ backlog \in Seq(Nat)
            BY <3>5, BaseFacts
          <6>2. Len(<<>>) = 0
            OBVIOUS
          <6>3. backlog = <<>> => Len(backlog) = 0
            BY <6>2, Zenon
          <6> QED BY <6>1, <6>3
        <5> QED BY <2>8, <3>5, <4>1, <5>1
      <4>3. Matches(backlog[1], server.res)'
        BY <2>2, <4>2 DEF Matches
      <4> QED BY <1>1, <2>2, <2>3, <2>4, <3>5, <4>1, <4>2, <4>3 DEF OnData
    <3>6. CASE /\ client.pc = "read" /\ IsToken(Own.toS) /\ Own.toC = <<>>
               /\ backlog = <<>> /\ faults.dial > 0
      <4>1. m = Own.toS /\ y.toS = <<>>
        BY <2>3, <3>6 DEF IsToken
      <4> QED BY <1>1, <2>2, <2>3, <2>4, <3>6, <4>1 DEF OnData
    <3> QED BY <3>1, <3>2, <3>3, <3>4, <3>5, <3>6 DEF OnReply
  <2>10. ASSUME client.conn # server.conn PROVE OffData'
    <3>1. OffReply
      BY <1>1, <2>5, <2>10, LineFacts DEF OffLine, Talks
    <3>2. CASE Own.toS = <<>> /\ (Ended(Own.s) => Stuck(0))
      <4>1. Ended(Own.s) /\ m = <<>> /\ y.toS = <<>>
        BY <2>3, <2>5, <3>2 DEF Ended, EndStates
      <4> QED BY <2>2, <2>4, <2>6, <3>2, <4>1 DEF OffData, Announced
    <3>3. CASE Own.toS = <<<<"logout", 0>>>>
      <4>1. Own.toS # <<>> /\ Own.toS[1] = <<"logout", 0>>
        BY <3>3
      <4> QED BY <2>1, <2>3, <4>1
    <3>4. CASE IsToken(Own.toS) /\ Announced(Own.toS)
      <4>1. m = Own.toS /\ y.toS = <<>> /\ IsToken(m)
        BY <2>3, <3>4 DEF IsToken
      <4>2. Announced(m)
        BY <3>4, <4>1
      <4>3. Announced(m)'
        BY <1>1, <2>3, <2>4, <2>6, <2>8, <4>2 DEF Announced, IsToken
      <4>4. Announced(server.res)'
        BY <2>2, <4>3 DEF Announced, Matches, IsToken, TokenNow, Cut
      <4> QED BY <2>2, <2>4, <4>1, <4>4 DEF OffData
    <3> QED BY <3>1, <3>2, <3>3, <3>4 DEF OffReply
  <2> QED BY <1>1, <2>2, <2>3, <2>4, <2>5, <2>9, <2>10 DEF Line, OnLine, OffLine
<1>4. [server EXCEPT !.pc = "accept", !.req = 0].pc = "accept"
  BY <1>1 DEF Servers
<1> QED BY <1>2, <1>3, <1>4, ReplyStep

\* The server takes the next connection for the data connection.
LEMMA LineTakes ==
  ASSUME Base, Order, Behind, Line, faults.crash <= 1, ServerData
  PROVE  Line'
<1> DEFINE b == backlog[1]
<1>1. /\ server.pc = "data" /\ backlog # <<>> /\ backlog' = Tail(backlog)
      /\ UNCHANGED <<conn, client, faults>>
      /\ server'.pc = "token" /\ server'.conn = server.conn /\ server'.fd = b
      /\ server'.req = server.req /\ server'.res = server.res
  BY DataStep, BaseFacts DEF Servers
<1>2. /\ 1 \in DOMAIN backlog /\ Len(Tail(backlog)) = Len(backlog) - 1
      /\ backlog' \in Seq(Nat)
      /\ \A j \in DOMAIN backlog' : /\ j \in Nat /\ j + 1 \in DOMAIN backlog
                                    /\ backlog'[j] = backlog[j + 1]
  BY <1>1, Tails, BaseFacts
<1>3. Own' = Own
  BY <1>1 DEF Own
<1>4. Own.kind = "control" /\ Own.c \in {"open", "broken"}
  BY <1>1, LineFacts DEF Talks
<1>5. Len(backlog) = 1 => backlog' = <<>>
  BY <1>1, <1>2
<1>6. ASSUME client.conn = server.conn PROVE OnToken'
  <2>1. OnData
    BY <1>1, <1>6, LineFacts DEF OnLine, Talks
  <2>2. CASE client.pc = "dial" /\ backlog = <<>>
    BY <1>1, <2>2
  <2>3. CASE /\ client.pc = "token" /\ backlog = <<client.fd>> /\ Right(client.fd)
             /\ server.res = TokenNow
    <3>1. b = client.fd /\ Len(backlog) = 1
      BY <2>3
    <3> QED BY <1>1, <1>3, <1>5, <2>1, <2>3, <3>1 DEF OnData, OnToken, Right, TokenNow
  <2>4. CASE /\ client.pc = "read" /\ Len(backlog) = 1
             /\ Right(backlog[1]) /\ Matches(backlog[1], server.res)
    BY <1>1, <1>3, <1>5, <2>1, <2>4 DEF OnData, OnToken, Right, Matches, TokenNow, Cut
  <2> QED BY <1>1, <2>1, <2>2, <2>3, <2>4 DEF OnData
<1>7. ASSUME client.conn # server.conn PROVE OffToken'
  <2>1. OffData
    BY <1>1, <1>4, <1>7, LineFacts DEF OffLine, Talks
  <2>2. CASE Stuck(0)
    <3>1. faults.crash = 1 /\ Fresh(b)
      BY <1>2, <2>2 DEF Stuck
    <3> QED BY <1>1, <1>3, <2>1, <3>1 DEF OffData, OffToken, Fresh
  <2>3. CASE /\ server.res # <<>> /\ Right(b) /\ Matches(b, server.res)
             /\ Ended(Own.s) => Stuck(1)
    <3>1. Stuck(1) => Stuck(0)'
      BY <1>1, <1>2 DEF Stuck, Fresh
    <3> QED BY <1>1, <1>3, <2>1, <2>3, <3>1 DEF OffData, OffToken, Right, Matches, TokenNow,
                                               Cut
  <2>4. CASE IsToken(server.res) /\ Lost
    <3>1. faults.dial > 0 /\ Blank(b)
      BY <1>2, <2>4 DEF Lost
    <3> QED BY <1>1, <1>3, <2>1, <2>4, <3>1 DEF OffData, OffToken, Blank, Fresh, IsToken
  <2> QED BY <2>1, <2>2, <2>3, <2>4 DEF OffData, Announced
<1> QED BY <1>1, <1>3, <1>4, <1>6, <1>7 DEF Line, OnLine, OffLine

\* The server reads a token, and this was the right one.
LEMMA LineTokens ==
  ASSUME Base, Order, Untouched, Behind, Line, faults.crash <= 1, ServerToken
  PROVE  Line'
<1>1. /\ server.pc = "token" /\ UNCHANGED <<backlog, client, faults>> /\ server \in Servers
      /\ server.fd \in DOMAIN conn
  BY TokenStep, BaseFacts DEF ServerToken, serverKeeps
<1>2. CASE server'.pc \in {"accept", "dead"}
  BY <1>2 DEF Line, Talks
<1>3. CASE \E y, m : TokenFields(y, m) /\ m = server.res /\ TokenEnds("pop")
  <2>1. PICK y, m : TokenFields(y, m) /\ m = server.res /\ TokenEnds("pop")
    BY <1>3
  <2>2. server'.pc = "pop" /\ server'.conn = server.conn
    BY <1>1, <2>1 DEF TokenEnds, Servers
  <2>3. /\ Sets(server.fd, y)
        /\ conn[server.fd].toS # <<>> \/ conn[server.fd].s \in {"fin", "gone"}
    BY <2>1 DEF TokenFields
  <2>4. Own.kind = "control" /\ Own.c \in {"open", "broken"} /\ server.conn \in DOMAIN conn
    BY <1>1, LineFacts DEF Talks
  <2>5. conn[server.fd].kind = "data" => Own' = Own
    BY <2>2, <2>3, <2>4 DEF Sets, Own
  <2>6. \A k : Stuck(k) => Stuck(k)'
    BY <1>1, <2>3, Beside
  <2>7. ASSUME client.conn = server.conn PROVE OnPop' /\ Own' = Own
    <3>1. OnToken
      BY <1>1, <2>7, LineFacts DEF OnLine, Talks
    <3>2. client.pc # "token"
      BY <2>3, <3>1, ClientFacts DEF OnToken
    <3>3. Own' = Own
      BY <2>5, <3>1 DEF OnToken, Right
    <3> QED BY <1>1, <3>1, <3>2, <3>3 DEF OnToken, OnPop
  <2>8. ASSUME client.conn # server.conn PROVE OffPop' /\ Own' = Own
    <3>1. OffToken
      BY <1>1, <2>4, <2>8, LineFacts DEF OffLine, Talks
    <3>2. ~Fresh(server.fd) /\ ~(IsToken(server.res) /\ Blank(server.fd))
      <4>1. conn[server.fd].kind = "control" => conn[server.fd].toS = <<>>
        BY <1>1 DEF Untouched, InLine
      <4>2. conn[server.fd].toS = <<>> => server.res = <<>>
        BY <2>1 DEF TokenFields
      <4> QED BY <2>3, <4>1, <4>2, FirstWords DEF Fresh, Blank
    <3>3. Own' = Own
      BY <2>5, <3>1, <3>2 DEF OffToken, Right
    <3> QED BY <2>6, <3>1, <3>2, <3>3 DEF OffToken, OffPop
  <2> QED BY <1>1, <2>2, <2>4, <2>7, <2>8 DEF Line, OnLine, OffLine
<1>4. \/ server'.pc \in {"accept", "dead"}
      \/ \E y, m : TokenFields(y, m) /\ m = server.res /\ TokenEnds("pop")
  BY <1>1, TokenStep DEF ServerDies, TokenEnds, Servers
<1> QED BY <1>2, <1>3, <1>4

\* Connections stay what they are.
SameKinds == \A i \in DOMAIN conn : /\ i \in DOMAIN conn' /\ conn'[i].kind = conn[i].kind
                                    /\ conn'[i].req = conn[i].req

LEMMA KindsStay ==
  ASSUME Base
  PROVE  /\ \A i, y : Sets(i, y) => SameKinds
         /\ AllClosed(ServerClosed) \/ AllClosed(ClientClosed) => SameKinds
         /\ \A kind, r : Dials(kind, r) => SameKinds
         /\ UNCHANGED conn => SameKinds
<1>1. \A i, y : Sets(i, y) => SameKinds
  BY DEF Sets, SameKinds
<1>2. AllClosed(ServerClosed) \/ AllClosed(ClientClosed) => SameKinds
  <2>1. \A j \in DOMAIN conn : conn[j] \in Connections
    BY BaseFacts
  <2> QED BY <2>1, ClosedFields DEF AllClosed, SameKinds
<1>3. \A kind, r : Dials(kind, r) => SameKinds
  BY DEF Dials, SameKinds
<1>4. UNCHANGED conn => SameKinds
  BY DEF SameKinds
<1> QED BY <1>1, <1>2, <1>3, <1>4

\* What arrived at the server's end of a connection stays there, unless the network
\* fails it.
Intact(i) == /\ Len(conn[i].toS) = 1 => conn'[i].toS = conn[i].toS \/ Cut(i)'
             /\ Cut(i) => Cut(i)'
TokensStay == \A i \in DOMAIN conn :
                 conn[i].kind = "data" => Intact(i) \/ faults'.spoke \/ faults'.crash > 0

LEMMA TokensKept ==
  ASSUME Base
  PROVE  /\ AllClosed(ClientClosed) => TokensStay
         /\ \A kind, r : Dials(kind, r) => TokensStay
         /\ UNCHANGED conn => TokensStay
         /\ \A i, y : /\ Sets(i, y)
                      /\ \/ conn[i].kind # "data"
                         \/ y.toS = conn[i].toS /\ y.s = conn[i].s /\ y.c = conn[i].c
                         \/ BreakFields(i, y)
                      => TokensStay
<1>1. ASSUME AllClosed(ClientClosed) PROVE TokensStay
  <2>1. \A j \in DOMAIN conn : conn[j] \in Connections
    BY BaseFacts
  <2>2. \A j \in DOMAIN conn :
           /\ conn'[j].toS = conn[j].toS /\ conn'[j].c = conn[j].c
           /\ conn'[j].s = Left(conn[j].s, conn[j].c, conn[j].toC)
    BY <1>1, <2>1, ClosedFields DEF AllClosed
  <2> QED BY <2>2 DEF TokensStay, Intact, Cut, Left
<1>2. ASSUME NEW kind, NEW r, Dials(kind, r) PROVE TokensStay
  BY <1>2 DEF Dials, TokensStay, Intact, Cut
<1>3. UNCHANGED conn => TokensStay
  BY DEF TokensStay, Intact, Cut
<1>4. ASSUME NEW i, NEW y, Sets(i, y),
             conn[i].kind # "data" \/ (y.toS = conn[i].toS /\ y.s = conn[i].s /\ y.c = conn[i].c)
      PROVE  TokensStay
  BY <1>4 DEF Sets, TokensStay, Intact, Cut
<1>5. ASSUME NEW i, NEW y, Sets(i, y), BreakFields(i, y) PROVE TokensStay
  <2>1. i \in DOMAIN conn /\ conn[i].toS \in Seq(Messages)
    BY <1>5, BaseFacts DEF Sets, Connections
  <2>2. /\ y.toS \in {<<>>} \cup Prefixes(conn[i].toS)
        /\ conn[i].s = "open" /\ conn[i].c = "open"
        /\ \/ y.s = "broken" /\ y.c = "open"
           \/ y.s = "open" /\ y.c = "broken"
    BY <1>5 DEF BreakFields
  <2>3. Len(conn[i].toS) = 1 => y.toS = <<>> \/ y.toS = conn[i].toS
    BY <2>1, <2>2, PrefixOf
  <2>4. conn'[i] = y /\ \A j \in DOMAIN conn : j # i => conn'[j] = conn[j]
    BY <1>5 DEF Sets
  <2>5. Intact(i)
    BY <2>2, <2>3, <2>4 DEF Intact, Cut
  <2>6. \A j \in DOMAIN conn : j # i => Intact(j)
    BY <2>4 DEF Intact, Cut
  <2> QED BY <2>5, <2>6 DEF TokensStay
<1> QED BY <1>1, <1>2, <1>3, <1>4, <1>5

\* Nothing happens to connections and managers.
LEMMA LineRests ==
  ASSUME Line, UNCHANGED <<conn, backlog, server, client>>, quit => quit',
         faults'.crash = faults.crash, faults'.spoke = faults.spoke, faults'.dial = faults.dial
  PROVE  Line'
<1>1. /\ Own' = Own /\ \A k : Stuck(k)' <=> Stuck(k)
      /\ Lost' <=> Lost
      /\ \A i : Cut(i)' <=> Cut(i)
  BY DEF Own, Stuck, Fresh, Lost, Blank, Cut
<1>2. \A i, q : (Right(i)' <=> Right(i)) /\ (Matches(i, q)' <=> Matches(i, q))
  BY DEF Right, Matches, TokenNow, Cut
<1>3. OnLine => OnLine'
  <2>1. OnAnswer' <=> OnAnswer
    BY <1>1 DEF OnAnswer
  <2>2. OnReady' <=> OnReady
    BY <1>1 DEF OnReady
  <2>3. OnPop' <=> OnPop
    BY <1>1 DEF OnPop
  <2>4. OnReply => OnReply'
    BY <1>1 DEF OnReply, Said, Half, Right, Matches, TokenNow, Cut, IsToken
  <2>5. OnData => OnData'
    BY <1>1 DEF OnData, Right, Matches, TokenNow, Cut
  <2>6. OnToken => OnToken'
    BY <1>1 DEF OnToken, Right, Matches, TokenNow, Cut
  <2> QED BY <2>1, <2>2, <2>3, <2>4, <2>5, <2>6 DEF OnLine
<1>4. OffLine => OffLine'
  <2>1. OffAnswer' <=> OffAnswer
    BY <1>1 DEF OffAnswer
  <2>2. OffReady' <=> OffReady
    BY <1>1 DEF OffReady
  <2>3. OffPop' <=> OffPop
    BY <1>1 DEF OffPop
  <2>4. OffReply => OffReply'
    BY <1>1 DEF OffReply, Announced, Right, Matches, TokenNow, Cut, IsToken
  <2>5. OffData => OffData'
    BY <1>1 DEF OffData, Announced, Right, Matches, TokenNow, Cut
  <2>6. OffToken => OffToken'
    BY <1>1 DEF OffToken, Right, Matches, TokenNow, Fresh, Blank, Cut
  <2> QED BY <2>1, <2>2, <2>3, <2>4, <2>5, <2>6 DEF OffLine
<1> QED BY <1>1, <1>3, <1>4 DEF Line

\* What a step of others may do while the client is not on the server's connection.
LEMMA OffStays ==
  ASSUME Base, Behind, Line, faults.crash <= 1, server.pc \in Talks \cup {"answer"},
         faults.crash <= faults'.crash, faults'.crash <= 1, faults.spoke => faults'.spoke,
         faults'.crash \in Nat,
         UNCHANGED server, client.conn # server.conn, client'.conn # server.conn,
         SameKinds, Own'.toS = Own.toS, Own.c = Own'.c \/ Own'.c = "broken",
         Ended(Own'.s) => Ended(Own.s),
         TokensStay, faults.dial > 0 => faults'.dial > 0,
         \/ UNCHANGED backlog
         \/ \E n \in Nat : backlog' = Append(backlog, n) /\ Fresh(n)',
         faults'.crash = faults.crash => \A i \in DOMAIN conn : Fresh(i) => Fresh(i)',
         quit \/ faults.crash > 0 => quit' \/ faults'.crash > 0
  PROVE  Line'
<1>1. /\ server.conn \in DOMAIN conn /\ Own \in Connections
      /\ Own.kind = "control" \/ (server.pc = "answer" /\ Own.kind = "data")
      /\ Own.kind = "control" => Own.c \in {"open", "broken"}
      /\ Own.kind = "control" => OffLine /\ client.pc \notin Served
      /\ faults.crash \in Nat
  BY LineFacts, BaseFacts DEF Counts
<1>2. Own'.kind = Own.kind
  BY <1>1 DEF SameKinds, Own
<1>3. CASE Own.kind = "data"
  BY <1>1, <1>2, <1>3 DEF Line
<1>4. CASE Own.kind = "control"
  <2>1. Own'.c \in {"open", "broken"}
    BY <1>1, <1>4
  <2>2. \A j \in DOMAIN backlog : /\ j \in DOMAIN backlog' /\ backlog'[j] = backlog[j]
                                  /\ backlog[j] \in DOMAIN conn
    <3>1. \A n \in Nat : \A j \in DOMAIN backlog :
             j \in DOMAIN Append(backlog, n) /\ Append(backlog, n)[j] = backlog[j]
      BY Appended, BaseFacts
    <3>2. \A j \in DOMAIN backlog : backlog[j] \in DOMAIN conn
      BY BaseFacts
    <3> QED BY <3>1, <3>2
  <2>3. \A k : Stuck(k) => Stuck(k)'
    <3> SUFFICES ASSUME NEW k, Stuck(k) PROVE Stuck(k)'
      OBVIOUS
    <3>1. faults.crash = 1 /\ faults'.crash = 1
      BY <1>1 DEF Stuck
    <3>2. ASSUME NEW j \in DOMAIN backlog', j = k + 1
          PROVE  \E i : i = backlog'[j] /\ Fresh(i)'
      <4>1. CASE j \in DOMAIN backlog
        <5>1. PICK i : i = backlog[j]
          OBVIOUS
        <5>2. Fresh(i) /\ i \in DOMAIN conn /\ i = backlog'[j]
          BY <2>2, <3>2, <4>1, <5>1 DEF Stuck
        <5> QED BY <3>1, <5>2
      <4>2. CASE j \notin DOMAIN backlog
        <5>1. PICK n \in Nat : backlog' = Append(backlog, n) /\ Fresh(n)'
          BY <3>1, <3>2, <4>2
        <5>2. backlog'[j] = n
          BY <3>2, <4>2, <5>1, Appended, BaseFacts
        <5> QED BY <5>1, <5>2
      <4> QED BY <4>1, <4>2
    <3> QED BY <3>1, <3>2 DEF Stuck, Fresh
  <2>4. \A i \in DOMAIN conn : Right(i) =>
           /\ Right(i)'
           /\ \A q : Matches(i, q) => Matches(i, q)'
    BY <1>1, <1>4 DEF Right, SameKinds, Matches, Served, TokensStay, Intact, IsToken
  <2>4a. \A i \in DOMAIN conn : Blank(i) => Blank(i)'
    BY <1>1 DEF Blank, SameKinds
  <2>4b. Lost => Lost'
    <3> SUFFICES ASSUME Lost PROVE Lost'
      OBVIOUS
    <3>1. ASSUME NEW j \in DOMAIN backlog', j = 1
          PROVE  \E i : i = backlog'[j] /\ Blank(i)'
      <4>1. CASE j \in DOMAIN backlog
        <5>1. PICK i : i = backlog[j]
          OBVIOUS
        <5>2. Blank(i) /\ i \in DOMAIN conn /\ i = backlog'[j]
          BY <2>2, <3>1, <4>1, <5>1 DEF Lost
        <5> QED BY <2>4a, <5>2
      <4>2. CASE j \notin DOMAIN backlog
        <5>1. PICK n \in Nat : backlog' = Append(backlog, n) /\ Fresh(n)'
          BY <3>1, <4>2
        <5>2. backlog'[j] = n
          BY <3>1, <4>2, <5>1, Appended, BaseFacts
        <5> QED BY <5>1, <5>2 DEF Blank, Fresh
      <4> QED BY <4>1, <4>2
    <3> QED BY <3>1 DEF Lost, Blank, Fresh
  <2>5. OffAnswer => OffAnswer'
    BY <2>3 DEF OffAnswer
  <2>6. OffReady => OffReady'
    BY <2>3 DEF OffReady
  <2>7. OffPop => OffPop'
    BY <2>3 DEF OffPop
  <2>8. \A q : Announced(q) => Announced(q)'
    <3> SUFFICES ASSUME NEW q, Announced(q) PROVE Announced(q)'
      BY DEF Announced, Matches, IsToken, TokenNow, Cut
    <3>1. CASE Stuck(0) \/ (IsToken(q) /\ Lost)
      BY <2>3, <2>4b, <3>1 DEF Announced, IsToken
    <3>2. CASE ~Stuck(0) /\ ~(IsToken(q) /\ Lost)
      <4>1. /\ q # <<>> /\ backlog # <<>> /\ Right(backlog[1]) /\ Matches(backlog[1], q)
            /\ Ended(Own.s) => Stuck(1)
        BY <3>2 DEF Announced
      <4>2. 1 \in DOMAIN backlog
        BY <4>1, Tails, BaseFacts
      <4>3. PICK i : i = backlog[1]
        OBVIOUS
      <4>4. backlog'[1] = i /\ i \in DOMAIN conn /\ 1 \in DOMAIN backlog'
        BY <2>2, <4>2, <4>3
      <4>5. Right(i)' /\ Matches(i, q)' /\ backlog' # <<>>
        BY <2>4, <4>1, <4>3, <4>4
      <4>6. Ended(Own'.s) => Stuck(1)'
        BY <2>3, <4>1
      <4> QED BY <4>1, <4>4, <4>5, <4>6 DEF Announced, Right, Matches, TokenNow, Cut
    <3> QED BY <3>1, <3>2
  <2>9. OffReply => OffReply'
    BY <2>3, <2>8 DEF OffReply, Announced, Matches, IsToken, TokenNow, Cut
  <2>10. OffData => OffData'
    BY <2>8 DEF OffData, Announced, Matches, IsToken, TokenNow, Cut
  <2>11. server.pc = "token" /\ OffToken => OffToken'
    <3> SUFFICES ASSUME server.pc = "token", OffToken PROVE OffToken'
      OBVIOUS
    <3>1. server.fd \in DOMAIN conn
      BY BaseFacts
    <3>2. CASE faults.crash = 1 /\ Fresh(server.fd)
      <4>1. Fresh(server.fd)'
        BY <3>1, <3>2 DEF Fresh
      <4> QED BY <1>1, <3>2, <4>1 DEF OffToken, Fresh
    <3>2a. CASE IsToken(server.res) /\ faults.dial > 0 /\ Blank(server.fd)
      <4>1. PICK i : i = server.fd
        OBVIOUS
      <4>2. Blank(i)' /\ i = server'.fd
        BY <2>4a, <3>1, <3>2a, <4>1
      <4>3. Blank(server.fd)'
        BY <4>2 DEF Blank, Fresh
      <4> QED BY <3>2a, <4>3 DEF OffToken, IsToken
    <3>3. CASE /\ server.res # <<>> /\ Right(server.fd) /\ Matches(server.fd, server.res)
               /\ Ended(Own.s) => Stuck(0)
      <4>1. PICK i, q : i = server.fd /\ q = server.res
        OBVIOUS
      <4>2. i \in DOMAIN conn /\ Right(i) /\ Matches(i, q)
        BY <3>1, <3>3, <4>1
      <4>3. Right(i)' /\ Matches(i, q)'
        BY <2>4, <4>2
      <4>4. i = server'.fd /\ q = server'.res
        BY <1>1, <4>1
      <4>5. Right(server.fd)' /\ Matches(server.fd, server.res)'
        BY <4>3, <4>4 DEF Right, Matches, Cut, IsToken, TokenNow
      <4> QED BY <2>3, <3>3, <4>5 DEF OffToken
    <3> QED BY <3>2, <3>2a, <3>3 DEF OffToken
  <2> QED BY <1>1, <1>2, <1>4, <2>1, <2>5, <2>6, <2>7, <2>9, <2>10, <2>11 DEF Line, OffLine
<1> QED BY <1>1, <1>3, <1>4

\* What may happen, to its connection too, while the client is on the server's
\* connection and stays where it is.
LEMMA OnStays ==
  ASSUME Base, Behind, Line, faults.crash <= 1, server.pc \in Talks \cup {"answer"},
         UNCHANGED <<backlog, server>>, client.conn = server.conn,
         client'.pc = client.pc, client'.conn = client.conn, client'.fd = client.fd,
         client'.req = client.req, client'.rand = client.rand,
         faults'.crash = faults.crash, faults.spoke => faults'.spoke, SameKinds,
         Own'.c \in {"open", "broken"},
         Short(Own.toS) => Own'.toS = Own.toS \/ (Own'.toS = <<>> /\ Half'),
         Short(Own.toC) => Own'.toC \in {Own.toC, <<>>},
         Own.s = "broken" => Own'.s = "broken", Half => Half',
         TokensStay, faults.dial > 0 => faults'.dial > 0
  PROVE  Line'
<1>1. /\ server.conn \in DOMAIN conn /\ Own \in Connections /\ Own.kind = "control" /\ OnLine
  BY LineFacts
<1>2. Own'.kind = "control" /\ server'.conn = client'.conn
  BY <1>1 DEF SameKinds, Own
<1>3. TokenNow' = TokenNow
  BY DEF TokenNow
<1>4. \A i \in DOMAIN conn : Right(i) =>
         Right(i)' /\ \A q : Matches(i, q) => Matches(i, q)'
  BY <1>3 DEF Right, SameKinds, Matches, TokensStay, Intact, IsToken
<1>5. /\ \A q : Len(q) = 1 => Short(q)
      /\ Short(<<>>)
      /\ Short(TokenNow) /\ Short(<<<<"logout", 0>>>>)
      /\ \A q : IsToken(q) => Short(q)
      /\ \A v : Short(<<<<"CONNECT", v>>>>)
  BY DEF Short, TokenNow, IsToken
<1>6. server.pc = "answer" => OnAnswer'
  BY <1>1, <1>5 DEF OnLine, OnAnswer
<1>7. server.pc = "ready" => OnReady'
  BY <1>1, <1>5 DEF OnLine, OnReady
<1>8. server.pc \in {"pop", "send"} => OnPop'
  BY <1>1, <1>5 DEF OnLine, OnPop
<1>9. \A j \in DOMAIN backlog : backlog[j] \in DOMAIN conn
  BY BaseFacts
<1>10. Len(backlog) = 1 => 1 \in DOMAIN backlog
  BY BaseFacts
<1>11. ASSUME server.pc = "reply" PROVE OnReply'
  <2>1. OnReply
    BY <1>1, <1>11 DEF OnLine
  <2>2. \A q : Said(q) /\ Short(q) => Said(q)'
    BY <1>5 DEF Said
  <2>3. CASE /\ client.pc = "read" /\ Own.toS = <<>> /\ backlog = <<>>
             /\ Own.toC \in {<<>>, <<<<"CONNECT", server.req>>>>}
    BY <1>5, <2>3 DEF OnReply
  <2>4. CASE /\ client.pc = "check" /\ client.req = server.req
             /\ Own.toS = <<>> /\ Own.toC = <<>> /\ backlog = <<>>
    BY <1>5, <2>4 DEF OnReply
  <2>5. CASE /\ client.pc = "leave" /\ Said(<<<<"logout", 0>>>>)
             /\ Own.toC = <<>> /\ backlog = <<>>
    BY <1>5, <2>2, <2>5 DEF OnReply, Said
  <2>6. CASE /\ client.pc = "dial" /\ client.req = server.req /\ Said(TokenNow)
             /\ Own.toC = <<>> /\ backlog = <<>>
    <3>1. Own'.toS = TokenNow \/ (Own'.toS = <<>> /\ Half')
      BY <1>5, <2>6 DEF Said
    <3> QED BY <1>3, <1>5, <2>6, <3>1 DEF OnReply, Said
  <2>7. CASE /\ client.pc = "token" /\ Said(TokenNow)
             /\ Own.toC = <<>> /\ backlog = <<client.fd>> /\ Right(client.fd)
    <3>1. Own'.toS = TokenNow \/ (Own'.toS = <<>> /\ Half')
      BY <1>5, <2>7 DEF Said
    <3>2. client.fd \in DOMAIN conn
      BY <2>7, ClientFacts
    <3>3. Right(client.fd)'
      BY <2>7, <3>2 DEF Right, SameKinds
    <3> QED BY <1>3, <1>5, <2>7, <3>1, <3>3 DEF OnReply, Said
  <2>8. CASE /\ client.pc = "read" /\ (IsToken(Own.toS) \/ (Own.toS = <<>> /\ Half))
             /\ Own.toC = <<>> /\ Len(backlog) = 1
             /\ Right(backlog[1]) /\ Matches(backlog[1], Own.toS)
    <3>1. PICK i : i = backlog[1] /\ i \in DOMAIN conn
      BY <1>9, <1>10, <2>8
    <3>2. Right(i)' /\ (Matches(i, Own.toS)' \/ Own'.toS = <<>>)
      BY <1>4, <1>5, <2>8, <3>1 DEF Matches, TokenNow, IsToken, Cut
    <3>3. Right(backlog[1])' /\ Matches(backlog[1], Own.toS)'
      BY <1>5, <3>1, <3>2 DEF Right, Matches, IsToken, Cut, TokenNow
    <3> QED BY <1>5, <2>8, <3>3 DEF OnReply
  <2>9. CASE /\ client.pc = "read" /\ (IsToken(Own.toS) \/ (Own.toS = <<>> /\ Half))
             /\ Own.toC = <<>> /\ backlog = <<>> /\ faults.dial > 0
    BY <1>5, <2>9 DEF OnReply
  <2> QED BY <2>1, <2>3, <2>4, <2>5, <2>6, <2>7, <2>8, <2>9 DEF OnReply
<1>12. ASSUME server.pc = "data" PROVE OnData'
  <2>1. OnData
    BY <1>1, <1>12 DEF OnLine
  <2>2. Own'.toS = <<>> /\ Own'.toC = <<>>
    BY <1>5, <2>1 DEF OnData
  <2>3. CASE client.pc = "dial"
    BY <1>3, <2>1, <2>2, <2>3 DEF OnData
  <2>4. CASE client.pc = "token"
    <3>1. client.fd \in DOMAIN conn
      BY <2>4, ClientFacts
    <3>2. Right(client.fd)'
      BY <2>1, <2>4, <3>1 DEF Right, SameKinds, OnData
    <3> QED BY <1>3, <2>1, <2>2, <2>4, <3>2 DEF OnData
  <2>6. CASE client.pc = "read" /\ backlog = <<>> /\ faults.dial > 0
    BY <2>1, <2>2, <2>6 DEF OnData
  <2>5. CASE client.pc = "read" /\ ~(backlog = <<>> /\ faults.dial > 0)
    <3>1. /\ Len(backlog) = 1 /\ Right(backlog[1]) /\ Matches(backlog[1], server.res)
      BY <2>1, <2>5 DEF OnData
    <3>2. PICK i : i = backlog[1] /\ i \in DOMAIN conn
      BY <1>9, <1>10, <3>1
    <3>3. Right(i)' /\ Matches(i, server.res)'
      BY <1>4, <3>1, <3>2 DEF Matches, IsToken, Cut, TokenNow
    <3>4. Right(backlog[1])' /\ Matches(backlog[1], server.res)'
      BY <3>2, <3>3 DEF Right, Matches, IsToken, Cut, TokenNow
    <3> QED BY <2>1, <2>2, <2>5, <3>1, <3>4 DEF OnData
  <2> QED BY <2>1, <2>3, <2>4, <2>5, <2>6 DEF OnData
<1>13. ASSUME server.pc = "token" PROVE OnToken'
  <2>1. OnToken /\ server.fd \in DOMAIN conn
    BY <1>1, <1>13, BaseFacts DEF OnLine
  <2>2. Own'.toS = <<>> /\ Own'.toC = <<>>
    BY <1>5, <2>1 DEF OnToken
  <2>3. Right(server.fd)' /\ (Matches(server.fd, server.res) => Matches(server.fd, server.res)')
    BY <1>4, <2>1 DEF OnToken, Right, Matches, IsToken, Cut, TokenNow
  <2> QED BY <1>3, <2>1, <2>2, <2>3 DEF OnToken
<1> QED BY <1>2, <1>6, <1>7, <1>8, <1>11, <1>12, <1>13 DEF Line, OnLine

\* The client leaves the connection.
LEMMA OnLeaves ==
  ASSUME Base, Order, Behind, Line, faults.crash <= 1, server.pc \in Talks \cup {"answer"},
         UNCHANGED <<backlog, server>>, client.conn = server.conn, client'.conn = 0,
         SameKinds, \A j \in DOMAIN conn : conn'[j].toS = conn[j].toS,
         TokensStay, faults.dial > 0 => faults'.dial > 0,
         Own'.c = Own.c, Own'.s = Left(Own.s, Own.c, Own.toC),
         \/ faults'.crash = 1
         \/ /\ faults'.crash = faults.crash /\ faults'.spoke = faults.spoke
            /\ \/ client.pc \in {"read", "check", "result"} /\ ~Ended(Own'.s)
               \/ client.pc = "leave" /\ quit'
  PROVE  Line'
<1>1. /\ server.conn \in DOMAIN conn /\ server.conn # 0 /\ Own \in Connections
      /\ Own.kind = "control" /\ OnLine /\ Own.c \in {"open", "broken"}
      /\ Own.s \in {"open", "broken"} /\ faults.crash \in Nat
  BY LineFacts, BaseFacts DEF Counts
<1>2. /\ Own'.kind = "control" /\ Own'.c = Own.c /\ Own'.toS = Own.toS
      /\ client'.conn # server'.conn
  BY <1>1 DEF SameKinds, Own
<1>3. Half => ~Ended(Own'.s)
  BY <1>1 DEF Half, Left, Ended
<1>4. \A k \in {0, 1} : faults'.crash = 1 /\ (k = 0 => backlog = <<>>) /\ Len(backlog) <= 1
         => Stuck(k)'
  <2>1. backlog \in Seq(Nat)
    BY BaseFacts
  <2>2. \A k \in {0, 1} : (k = 0 => backlog = <<>>) /\ Len(backlog) <= 1 => k + 1 \notin DOMAIN backlog
    BY <2>1
  <2> QED BY <2>2 DEF Stuck
<1>5. /\ Len(<<>>) = 0
      /\ \A a : <<a>> # <<>> /\ Len(<<a>>) = 1 /\ <<a>>[1] = a
      /\ \A q : Len(q) = 1 => q # <<>>
  <2>1. Len(<<>>) = 0
    OBVIOUS
  <2>2. \A q : Len(q) = 1 => q # <<>>
    <3>1. \A q : q = <<>> => Len(q) = 0
      BY <2>1, Zenon
    <3>2. 0 # 1
      OBVIOUS
    <3> QED BY <3>1, <3>2, Zenon
  <2>3. \A a : <<a>> # <<>> /\ Len(<<a>>) = 1 /\ <<a>>[1] = a
    OBVIOUS
  <2> QED BY <2>1, <2>2, <2>3
<1>6. ASSUME server.pc = "answer" PROVE OffAnswer'
  <2>1. OnAnswer
    BY <1>1, <1>6 DEF OnLine
  <2>2. backlog = <<>>
    BY <2>1, NobodyWaits DEF OnAnswer
  <2>3. Ended(Own'.s) => Stuck(0)'
    BY <1>4, <1>5, <2>1, <2>2 DEF OnAnswer
  <2> QED BY <1>2, <2>1, <2>3 DEF OnAnswer, OffAnswer
<1>7. ASSUME server.pc = "ready" PROVE OffReady'
  <2>1. OnReady
    BY <1>1, <1>7 DEF OnLine
  <2>2. Ended(Own'.s) => Stuck(0)'
    BY <1>4, <1>5, <2>1 DEF OnReady
  <2> QED BY <1>2, <2>1, <2>2 DEF OnReady, OffReady, Short
<1>8. ASSUME server.pc \in {"pop", "send"} PROVE OffPop'
  <2>1. OnPop
    BY <1>1, <1>8 DEF OnLine
  <2>2. Ended(Own'.s) => Stuck(0)'
    BY <1>4, <1>5, <2>1 DEF OnPop
  <2> QED BY <1>2, <2>1, <2>2 DEF OnPop, OffPop
<1>9. \A i \in DOMAIN conn : \A q :
         Right(i) /\ ((Matches(i, q) /\ client.pc # "token") \/ faults'.crash = 1)
         => Right(i)' /\ Matches(i, q)'
  BY <1>1 DEF Right, SameKinds, Matches, TokensStay, Intact, IsToken
<1>9a. faults.dial > 0 /\ backlog = <<>> => Lost'
  <2>1. 1 \notin DOMAIN <<>>
    OBVIOUS
  <2> QED BY <2>1 DEF Lost
<1>10. ASSUME NEW q, IsToken(q), Len(backlog) = 1, Right(backlog[1]),
              client.pc \in {"token", "read"}, client.pc = "read" => Matches(backlog[1], q)
       PROVE  Announced(q)'
  <2>1. 1 \in DOMAIN backlog /\ backlog # <<>>
    BY <1>5, <1>10, BaseFacts
  <2>2. PICK i : i = backlog[1] /\ i \in DOMAIN conn
    BY <2>1, BaseFacts
  <2>3. Right(i)' /\ Matches(i, q)'
    BY <1>9, <1>10, <2>2
  <2>4. q # <<>>
    BY <1>10, FirstWords
  <2>5. Ended(Own'.s) => Stuck(1)'
    BY <1>4, <1>10
  <2> QED BY <2>1, <2>2, <2>3, <2>4, <2>5 DEF Announced, Right, Matches, TokenNow, Cut
<1>11. ASSUME server.pc = "reply" PROVE OffReply'
  <2>1. OnReply
    BY <1>1, <1>11 DEF OnLine
  <2>2. CASE Own.toS = <<>> /\ (Half \/ backlog = <<>>) /\ client.pc # "leave"
    <3>1. Ended(Own'.s) => Stuck(0)'
      BY <1>3, <1>4, <1>5, <2>1, <2>2 DEF OnReply
    <3> QED BY <1>2, <2>2, <3>1 DEF OffReply
  <2>3. CASE client.pc = "leave"
    <3>1. Own.toS = <<<<"logout", 0>>>> \/ (Own.toS = <<>> /\ Half)
      BY <2>1, <2>3 DEF OnReply, Said
    <3>2. quit' \/ faults'.crash > 0
      BY <2>3
    <3> QED BY <1>2, <1>3, <3>1, <3>2 DEF OffReply
  <2>4. CASE client.pc = "dial" /\ Own.toS = TokenNow /\ backlog = <<>>
    <3>1. Stuck(0)'
      BY <1>4, <1>5, <2>4
    <3>2. IsToken(Own'.toS)
      BY <1>2, <2>4, FirstWords
    <3> QED BY <3>1, <3>2 DEF OffReply, Announced
  <2>5. CASE client.pc = "token" /\ Own.toS = TokenNow
    <3>1. Len(backlog) = 1 /\ Right(backlog[1])
      BY <1>5, <2>1, <2>5 DEF OnReply
    <3>2. IsToken(Own.toS)
      BY <2>5, FirstWords
    <3>3. PICK q : q = Own.toS
      OBVIOUS
    <3>4. Announced(q)'
      BY <1>10, <2>5, <3>1, <3>2, <3>3
    <3> QED BY <1>2, <3>2, <3>3, <3>4 DEF OffReply, Announced, Matches, IsToken, TokenNow, Cut
  <2>7. CASE client.pc = "read" /\ IsToken(Own.toS) /\ backlog = <<>> /\ faults.dial > 0
    BY <1>2, <1>9a, <2>7 DEF OffReply, Announced, IsToken
  <2>6. CASE client.pc = "read" /\ IsToken(Own.toS) /\ ~(backlog = <<>> /\ faults.dial > 0)
    <3>1. Len(backlog) = 1 /\ Right(backlog[1]) /\ Matches(backlog[1], Own.toS)
      BY <2>1, <2>6, FirstWords DEF OnReply
    <3>2. PICK q : q = Own.toS
      OBVIOUS
    <3>3. Announced(q)'
      BY <1>10, <2>6, <3>1, <3>2
    <3> QED BY <1>2, <2>6, <3>2, <3>3 DEF OffReply, Announced, Matches, IsToken, TokenNow, Cut
  <2> QED BY <2>1, <2>2, <2>3, <2>4, <2>5, <2>6, <2>7 DEF OnReply, Said
<1>12. ASSUME server.pc = "data" PROVE OffData'
  <2>1. OnData
    BY <1>1, <1>12 DEF OnLine
  <2>2. PICK q : q = server.res
    OBVIOUS
  <2>3. Announced(q)'
    <3>1. CASE client.pc = "dial" /\ backlog = <<>>
      <4>1. Stuck(0)'
        BY <1>4, <1>5, <3>1
      <4> QED BY <4>1 DEF Announced
    <3>2. CASE client.pc = "token" /\ backlog = <<client.fd>> /\ Right(client.fd)
      BY <1>5, <1>10, <2>1, <2>2, <3>2 DEF OnData
    <3>3. CASE /\ client.pc = "read" /\ Len(backlog) = 1
               /\ Right(backlog[1]) /\ Matches(backlog[1], server.res)
      BY <1>10, <2>1, <2>2, <3>3 DEF OnData
    <3>4. CASE client.pc = "read" /\ backlog = <<>> /\ faults.dial > 0
      BY <1>9a, <2>1, <2>2, <3>4 DEF Announced, IsToken, OnData
    <3> QED BY <2>1, <3>1, <3>2, <3>3, <3>4 DEF OnData
  <2> QED BY <1>2, <2>1, <2>2, <2>3 DEF OnData, OffData, Announced, Matches, IsToken, TokenNow,
                                        Cut
<1>13. ASSUME server.pc = "token" PROVE OffToken'
  <2>1. OnToken /\ server.fd \in DOMAIN conn
    BY <1>1, <1>13, BaseFacts DEF OnLine
  <2>2. Right(server.fd)' /\ Matches(server.fd, server.res)'
    <3>1. PICK i, q : i = server.fd /\ q = server.res
      OBVIOUS
    <3>2. Right(i)' /\ Matches(i, q)'
      BY <1>9, <2>1, <3>1 DEF OnToken
    <3> QED BY <3>1, <3>2 DEF Right, Matches, IsToken, TokenNow, Cut
  <2>3. Ended(Own'.s) => Stuck(0)'
    BY <1>4, <1>5, <2>1 DEF OnToken
  <2>4. server.res # <<>>
    BY <2>1, FirstWords DEF OnToken
  <2> QED BY <1>2, <2>1, <2>2, <2>3, <2>4 DEF OnToken, OffToken
<1> QED BY <1>1, <1>2, <1>6, <1>7, <1>8, <1>11, <1>12, <1>13 DEF Line, OffLine

\* The client dials its control connection.
LEMMA LineConnects ==
  ASSUME Base, Behind, Line, faults.crash <= 1, server.pc \in Talks \cup {"answer"},
         ClientConnect, backlog' # backlog
  PROVE  Line'
<1>0. Len(conn) + 1 \in Nat
  BY ClientFacts
<1>0a. PICK n \in Nat : n = Len(conn) + 1
  BY <1>0
<1>1. /\ client.pc = "connect" /\ client.conn = 0 /\ server.pc # "dead"
      /\ Dials("control", 0) /\ backlog' = Append(backlog, n)
      /\ client' = [client EXCEPT !.pc = "challenge", !.conn = n]
      /\ UNCHANGED <<server, quit, faults>>
  BY <1>0a, ConnectStep DEF Talks
<1>2. client'.pc = "challenge" /\ client'.conn = n
  BY <1>1, BaseFacts DEF Clients
<1>3. /\ n \notin DOMAIN conn /\ \A i \in DOMAIN conn : conn'[i] = conn[i]
      /\ conn'[n].kind = "control" /\ conn'[n].toS = <<>> /\ conn'[n].toC = <<>>
      /\ conn'[n].s = "open" /\ conn'[n].c = "open"
  BY <1>0a, <1>1 DEF Dials
<1>4. server.conn \in DOMAIN conn /\ server.conn # 0 /\ faults.crash \in Nat
  BY LineFacts, BaseFacts DEF Counts
<1>5. Fresh(n)'
  BY <1>1, <1>2, <1>3 DEF Fresh
<1>6. \A i \in DOMAIN conn : ~Fresh(i)
  <2>1. \A i \in DOMAIN conn : i # 0
    BY BaseFacts
  <2> QED BY <1>1, <2>1 DEF Fresh
<1>7. SameKinds /\ TokensStay
  BY <1>1, KindsStay, TokensKept
<1>8. Own' = Own
  BY <1>1, <1>3, <1>4 DEF Own
<1> QED BY <1>1, <1>2, <1>3, <1>4, <1>5, <1>6, <1>7, <1>8, OffStays

\* The client answers what it takes for the challenge.
LEMMA LineChallenged ==
  ASSUME Base, Behind, Line, faults.crash <= 1, server.pc \in Talks \cup {"answer"},
         ClientChallenge
  PROVE  Line'
<1>1. /\ client.pc = "challenge" /\ client.conn \in DOMAIN conn
      /\ client'.pc = "result" /\ client'.conn = client.conn
      /\ UNCHANGED <<backlog, server, quit, faults>>
  BY ChallengeStep, BaseFacts DEF Clients
<1>2. PICK y, v : ClientRead0(y) /\ ClientWrites(y, <<"answer", v>>)
  BY ChallengeStep
<1>3. LET x == conn[client.conn] IN
      /\ Sets(client.conn, y) /\ y.s = x.s /\ y.c = AfterWrite(x.c)
      /\ x.toC # <<>> \/ x.c # "open"
      /\ x.toC = <<>> \/ Len(x.toC) = 1 => y.toC = <<>>
      /\ y.toS = IF x.c = "open" /\ x.s # "broken" THEN Append(x.toS, <<"answer", v>>)
                 ELSE x.toS
  BY <1>2 DEF ClientRead0, ClientWrites
<1>4. SameKinds
  BY <1>3, KindsStay
<1>5. /\ server.conn \in DOMAIN conn /\ faults.crash \in Nat
      /\ client.conn = server.conn => /\ OnLine /\ Own.kind = "control"
                                      /\ Own.c \in {"open", "broken"}
  BY LineFacts, BaseFacts DEF Counts
<1>6. CASE client.conn = server.conn
  <2>1. Own' = y /\ Own = conn[client.conn]
    BY <1>1, <1>3, <1>6 DEF Sets, Own
  <2>2. OnAnswer /\ server.pc = "answer"
    BY <1>1, <1>5, <1>6 DEF OnLine, OnAnswer, OnReady, OnPop, OnReply, OnData, OnToken, Talks
  <2>3. y.toC = <<>>
    BY <1>3, <2>1, <2>2 DEF OnAnswer, Short
  <2>4. y.toS = <<>> \/ y.toS = <<<<"answer", v>>>>
    <3>1. Append(<<>>, <<"answer", v>>) = <<<<"answer", v>>>>
      OBVIOUS
    <3>2. Own.toS = <<>>
      BY <1>1, <2>2 DEF OnAnswer
    <3> QED BY <1>3, <2>1, <3>1, <3>2
  <2>5. Short(y.toS) /\ Short(y.toC)
    <3>1. Short(<<<<"answer", v>>>>) /\ Short(<<>>)
      BY DEF Short
    <3> QED BY <2>3, <2>4, <3>1, Zenon
  <2>6. OnAnswer'
    BY <1>1, <2>1, <2>3, <2>5 DEF OnAnswer
  <2>7. y.kind = "control" /\ y.c \in {"open", "broken"}
    BY <1>3, <1>5, <1>6, <2>1 DEF Sets, AfterWrite
  <2> QED BY <1>1, <1>6, <2>1, <2>2, <2>6, <2>7 DEF Line, OnLine
<1>7. CASE client.conn # server.conn
  <2>1. Own' = Own
    BY <1>1, <1>3, <1>5, <1>7 DEF Sets, Own
  <2>2. \A i \in DOMAIN conn : Fresh(i) => Fresh(i)'
    <3> SUFFICES ASSUME NEW i \in DOMAIN conn, Fresh(i) PROVE Fresh(i)'
      OBVIOUS
    <3>1. client.conn = i
      BY <1>1 DEF Fresh
    <3>2. /\ conn[i].toC = <<>> /\ conn[i].toS = <<>> /\ conn[i].kind = "control"
          /\ conn[i].c = "broken" /\ conn[i].s \in {"open", "broken"}
      BY <1>3, <3>1 DEF Fresh
    <3>3. /\ conn'[i] = y /\ y.toC = <<>> /\ y.toS = <<>> /\ y.c = "broken"
          /\ y.s = conn[i].s /\ y.kind = "control"
      BY <1>3, <3>1, <3>2 DEF Sets, AfterWrite
    <3> QED BY <1>1, <3>1, <3>2, <3>3 DEF Fresh
  <2>3. TokensStay
    <3>1. conn[client.conn].kind = "control"
      BY <1>1, ClientFacts
    <3> QED BY <1>3, <3>1, TokensKept
  <2> QED BY <1>1, <1>4, <1>5, <1>7, <2>1, <2>2, <2>3, OffStays
<1> QED BY <1>6, <1>7

\* The client ends its process, with what that leaves at the server's end.
LEMMA LineEnds ==
  ASSUME Base, Order, Behind, Line, faults.crash <= 1, server.pc \in Talks \cup {"answer"},
         AllClosed(ClientClosed), client'.conn = 0, UNCHANGED <<backlog, server>>,
         faults'.spoke = faults.spoke, faults'.dial = faults.dial,
         \/ faults'.crash = faults.crash + 1 /\ client.pc \notin {"down", "exited"}
         \/ faults'.crash = faults.crash /\ UNCHANGED quit /\ client.pc = "connect"
         \/ /\ UNCHANGED <<faults, quit>> /\ client.pc = "leave" /\ quit
         \/ /\ UNCHANGED <<faults, quit>> /\ client.pc = "result" /\ client'.pc = "exited"
            /\ LET x == conn[client.conn] IN x.toC # <<>> \/ x.c # "open"
  PROVE  Line'
<1>1. /\ server.conn \in DOMAIN conn /\ server.conn # 0 /\ Own \in Connections
      /\ Own.kind = "control" \/ (server.pc = "answer" /\ Own.kind = "data")
      /\ client.conn = server.conn => /\ Own.kind = "control" /\ OnLine
                                      /\ Own.s \in {"open", "broken"}
      /\ Own.kind = "control" => Own.c \in {"open", "broken"}
      /\ Own.kind = "control" /\ client.conn # server.conn => client.pc \notin Served
      /\ faults.crash \in Nat
  BY LineFacts, BaseFacts DEF Counts
<1>2. /\ DOMAIN conn' = DOMAIN conn
      /\ \A j \in DOMAIN conn :
         /\ conn'[j].kind = conn[j].kind /\ conn'[j].toS = conn[j].toS
         /\ conn'[j].toC = conn[j].toC /\ conn'[j].c = conn[j].c
         /\ conn'[j].s = Left(conn[j].s, conn[j].c, conn[j].toC)
  <2>1. \A j \in DOMAIN conn : conn[j] \in Connections
    BY BaseFacts
  <2> QED BY <2>1, ClosedFields DEF AllClosed
<1>3. SameKinds /\ TokensStay
  BY KindsStay, TokensKept
<1>4. /\ Own'.toS = Own.toS /\ Own'.c = Own.c /\ Own'.s = Left(Own.s, Own.c, Own.toC)
      /\ Own'.kind = Own.kind
  BY <1>1, <1>2 DEF Own
<1>5. CASE faults'.crash > 1
  BY <1>1, <1>5 DEF Line
<1>6. CASE faults'.crash <= 1 /\ client.conn = server.conn
  <2>1. CASE faults'.crash = faults.crash + 1
    <3>1. faults'.crash = 1
      BY <1>1, <1>6, <2>1
    <3> QED BY <1>2, <1>3, <1>4, <1>6, <3>1, OnLeaves
  <2>2. CASE UNCHANGED <<faults, quit>> /\ client.pc = "leave" /\ quit
    BY <1>2, <1>3, <1>4, <1>6, <2>2, OnLeaves
  <2>3. CASE /\ UNCHANGED <<faults, quit>> /\ client.pc = "result"
             /\ LET x == conn[client.conn] IN x.toC # <<>> \/ x.c # "open"
    <3>1. Own.toC # <<>> \/ Own.c # "open"
      BY <1>6, <2>3 DEF Own
    <3>2. Left(Own.s, Own.c, Own.toC) \in {"open", "broken"}
      BY <1>1, <1>6, <3>1 DEF Left
    <3>3. ~Ended(Own'.s)
      BY <1>4, <3>2 DEF Ended
    <3> QED BY <1>2, <1>3, <1>4, <1>6, <2>3, <3>3, OnLeaves
  <2>4. client.pc # "connect"
    BY <1>1, <1>6, ClientFacts
  <2> QED BY <2>1, <2>2, <2>3, <2>4
<1>7. CASE faults'.crash <= 1 /\ client.conn # server.conn
  <2>1. CASE Own.kind = "data"
    BY <1>1, <1>4, <2>1 DEF Line
  <2>2. CASE Own.kind = "control"
    <3>1. client.pc \notin Served
      BY <1>1, <1>7, <2>2
    <3>2. Own.s # "open" \/ Own.c = "broken"
      BY <1>1, <1>7, <2>2 DEF Behind, Own
    <3>3. Own'.s = Own.s
      BY <1>4, <3>2 DEF Left
    <3>4. CASE faults'.crash = faults.crash + 1
      <4>1. faults.crash = 0 /\ faults'.crash = 1
        BY <1>1, <1>7, <3>4
      <4> QED BY <1>1, <1>2, <1>3, <1>4, <1>7, <3>3, <4>1, OffStays
    <3>5. CASE /\ UNCHANGED <<faults, quit>> /\ client.pc = "result" /\ client'.pc = "exited"
      <4>1. \A i \in DOMAIN conn : Fresh(i) => Fresh(i)'
        <5> SUFFICES ASSUME NEW i \in DOMAIN conn, Fresh(i) PROVE Fresh(i)'
          OBVIOUS
        <5>1. conn[i].c = "broken"
          BY <3>5 DEF Fresh
        <5>2. conn'[i].s = conn[i].s
          BY <1>2, <5>1 DEF Left
        <5> QED BY <1>2, <3>5, <5>1, <5>2 DEF Fresh
      <4> QED BY <1>1, <1>2, <1>3, <1>4, <1>7, <3>3, <3>5, <4>1, OffStays
    <3>6. CASE faults'.crash = faults.crash /\ UNCHANGED quit /\ client.pc = "connect"
      <4>1. \A i \in DOMAIN conn : ~Fresh(i)
        <5>1. \A i \in DOMAIN conn : i # 0
          BY BaseFacts
        <5> QED BY <3>6, <5>1, ClientFacts DEF Fresh
      <4> QED BY <1>1, <1>2, <1>3, <1>4, <1>7, <3>3, <3>6, <4>1, OffStays
    <3> QED BY <3>1, <3>4, <3>5, <3>6 DEF Served
  <2> QED BY <1>1, <2>1, <2>2
<1>8. faults'.crash \in Nat
  BY <1>1
<1> QED BY <1>5, <1>6, <1>7, <1>8

\* Past the handshake, the client is on the connection of the server, or the server
\* on a data connection.
LEMMA Together ==
  ASSUME Base, Behind, Line, faults.crash <= 1, server.pc \in Talks \cup {"answer"},
         client.pc \in Served, UNCHANGED server, SameKinds, faults'.crash = faults.crash
  PROVE  \/ Line'
         \/ /\ client.conn = server.conn /\ OnLine /\ server.conn \in DOMAIN conn
            /\ Own = conn[client.conn] /\ Own.kind = "control" /\ Own'.kind = "control"
            /\ Own.c \in {"open", "broken"} /\ Own.s \in {"open", "broken"}
            /\ server.pc # "answer"
<1>1. /\ server.conn \in DOMAIN conn /\ server.conn # 0
      /\ Own.kind = "control" \/ (server.pc = "answer" /\ Own.kind = "data")
      /\ client.conn = server.conn => Own.kind = "control" /\ OnLine /\ Own.s \in {"open", "broken"}
      /\ Own.kind = "control" => Own.c \in {"open", "broken"} /\ client.conn = server.conn
  BY LineFacts
<1>2. Own'.kind = Own.kind
  BY <1>1 DEF SameKinds, Own
<1>3. CASE Own.kind = "data"
  BY <1>1, <1>2, <1>3 DEF Line
<1>4. CASE Own.kind = "control"
  <2>1. client.conn = server.conn /\ Own = conn[client.conn]
    BY <1>1, <1>4 DEF Own
  <2>2. server.pc # "answer"
    BY <1>1, <2>1 DEF OnLine, OnAnswer, Served
  <2> QED BY <1>1, <1>2, <1>4, <2>1, <2>2
<1> QED BY <1>1, <1>3, <1>4

\* The client reconnects.
LEMMA LineReconnects ==
  ASSUME Base, Order, Behind, Line, faults.crash <= 1, server.pc \in Talks \cup {"answer"},
         client.pc \in {"read", "check"}, NEW y, ReconnectFields(y),
         conn[client.conn].c # "open", UNCHANGED <<backlog, server, quit, faults>>
  PROVE  Line'
<1>1. /\ Sets(client.conn, y) /\ client'.conn = 0
      /\ LET x == conn[client.conn] IN
         y.toC = x.toC /\ y.toS = x.toS /\ y.c = x.c /\ y.s = Left(x.s, x.c, x.toC)
  BY BaseFacts DEF ReconnectFields, Clients, NoConnection
<1>2. SameKinds /\ TokensStay
  <2>1. conn[client.conn].kind # "data"
    BY ClientFacts
  <2> QED BY <1>1, <2>1, KindsStay, TokensKept
<1>3. client.pc \in Served
  BY DEF Served
<1>4. CASE /\ client.conn = server.conn /\ server.conn \in DOMAIN conn
           /\ Own = conn[client.conn] /\ Own.kind = "control"
           /\ Own.c \in {"open", "broken"} /\ Own.s \in {"open", "broken"}
  <2>1. Own' = y
    BY <1>1, <1>4 DEF Sets, Own
  <2>2. ~Ended(Own'.s)
    BY <1>1, <1>4, <2>1 DEF Left, Ended
  <2>3. \A j \in DOMAIN conn : conn'[j].toS = conn[j].toS
    BY <1>1 DEF Sets
  <2> QED BY <1>1, <1>2, <1>4, <2>1, <2>2, <2>3, OnLeaves
<1> QED BY <1>2, <1>3, <1>4, Together

\* The client learns of its success, or ends.
LEMMA LineResults ==
  ASSUME Base, Order, Behind, Line, faults.crash <= 1, server.pc \in Talks \cup {"answer"},
         ClientResult
  PROVE  Line'
<1>1. /\ client.pc = "result" /\ client.conn \in DOMAIN conn /\ client \in Clients
      /\ UNCHANGED <<backlog, server, quit, faults>>
  BY ResultStep, BaseFacts
<1>2. CASE LET x == conn[client.conn] IN
           /\ x.toC # <<>> \/ x.c # "open"
           /\ AllClosed(ClientClosed) /\ client'.pc = "exited" /\ client'.conn = 0
  BY <1>1, <1>2, LineEnds
<1>3. CASE LET x == conn[client.conn] IN
           /\ x.toC # <<>> /\ x.toC[1] = <<"success", 0>>
           /\ client' = [client EXCEPT !.pc = "read", !.rand = @ + 1]
           /\ \E y : ClientRead0(y) /\ ClientWrites(y, <<"ready", 0>>)
  <2>1. PICK y : ClientRead0(y) /\ ClientWrites(y, <<"ready", 0>>)
    BY <1>3
  <2>2. LET x == conn[client.conn] IN
        /\ Sets(client.conn, y) /\ y.s = x.s /\ y.c = AfterWrite(x.c)
        /\ x.toC = <<>> \/ Len(x.toC) = 1 => y.toC = <<>>
        /\ y.toS = IF x.c = "open" /\ x.s # "broken" THEN Append(x.toS, <<"ready", 0>>)
                   ELSE x.toS
    BY <2>1 DEF ClientRead0, ClientWrites
  <2>3. client'.pc = "read" /\ client'.conn = client.conn
    BY <1>1, <1>3 DEF Clients
  <2>4. SameKinds
    BY <2>2, KindsStay
  <2>5. /\ server.conn \in DOMAIN conn
        /\ client.conn = server.conn => /\ OnLine /\ Own.kind = "control"
                                        /\ Own.c \in {"open", "broken"}
        /\ Own.kind = "control" \/ (server.pc = "answer" /\ Own.kind = "data")
        /\ faults.crash \in Nat
    BY LineFacts, BaseFacts DEF Counts
  <2>6. CASE client.conn = server.conn
    <3>1. Own' = y /\ Own = conn[client.conn] /\ y.kind = "control" /\ y.c \in {"open", "broken"}
      BY <1>1, <2>2, <2>5, <2>6 DEF Sets, Own, AfterWrite
    <3>2. server.pc \in {"ready", "pop", "send"}
      BY <1>1, <1>3, <2>5, <2>6, <3>1 DEF OnLine, OnAnswer, OnReply, OnData, OnToken, Talks
    <3>3. CASE server.pc = "ready"
      <4>1. OnReady /\ Own.toS = <<>> /\ Short(Own.toC) /\ backlog = <<>>
        BY <1>1, <2>5, <2>6, <3>3 DEF OnLine, OnReady
      <4>2. y.toC = <<>>
        BY <2>2, <3>1, <4>1 DEF Short
      <4>3. y.toS = <<>> \/ y.toS = <<<<"ready", 0>>>>
        <5>1. Append(<<>>, <<"ready", 0>>) = <<<<"ready", 0>>>>
          OBVIOUS
        <5> QED BY <2>2, <3>1, <4>1, <5>1
      <4>4. Short(y.toS)
        <5>1. Short(<<<<"ready", 0>>>>) /\ Short(<<>>)
          BY DEF Short
        <5> QED BY <4>3, <5>1, Zenon
      <4>5. OnReady'
        BY <1>1, <2>3, <3>1, <4>1, <4>2, <4>4 DEF OnReady
      <4> QED BY <1>1, <2>3, <2>6, <3>1, <3>3, <4>5 DEF Line, OnLine
    <3>4. CASE server.pc \in {"pop", "send"}
      <4>1. OnPop /\ Own.toS = <<>> /\ Short(Own.toC) /\ backlog = <<>> /\ Own.s = "broken"
        BY <1>1, <2>5, <2>6, <3>4 DEF OnLine, OnPop
      <4>2. y.toC = <<>> /\ y.toS = <<>>
        BY <2>2, <3>1, <4>1 DEF Short
      <4>3. OnPop'
        BY <1>1, <2>3, <3>1, <4>1, <4>2 DEF OnPop
      <4> QED BY <1>1, <2>3, <2>6, <3>1, <3>4, <4>3 DEF Line, OnLine
    <3> QED BY <3>2, <3>3, <3>4
  <2>7. CASE client.conn # server.conn
    <3>1. Own' = Own
      BY <1>1, <2>2, <2>5, <2>7 DEF Sets, Own
    <3>2. CASE Own.kind = "data"
      BY <1>1, <2>5, <3>1, <3>2 DEF Line
    <3>3. CASE Own.kind = "control"
      \* The server answered this connection and has not gone on to it.
      <4>1. client.conn # 0 /\ server.conn < client.conn
        <5>1. /\ client.conn # 0 /\ server.conn <= client.conn
              /\ server.conn \in Nat /\ client.conn \in Nat
          BY <1>1, <2>5, <3>3, ClientFacts, BaseFacts DEF Own
        <5> QED BY <2>7, <5>1
      <4>2. server.conn = 0 \/ server.conn >= client.conn
        BY <1>3, <4>1 DEF Behind
      <4>3. server.conn \in Nat /\ server.conn # 0 /\ client.conn \in Nat
        BY <2>5, BaseFacts, ClientFacts
      <4> QED BY <4>1, <4>2, <4>3
    <3> QED BY <2>5, <3>2, <3>3
  <2> QED BY <2>6, <2>7
<1> QED BY <1>2, <1>3, ResultStep

\* The client reads a CONNECT.
LEMMA LineReads ==
  ASSUME Base, Order, Behind, Line, faults.crash <= 1, server.pc \in Talks \cup {"answer"},
         ClientRead
  PROVE  Line'
<1>1. /\ client.pc = "read" /\ client.conn \in DOMAIN conn /\ client \in Clients
      /\ UNCHANGED <<backlog, server, quit, faults>>
  BY ReadStep, BaseFacts
<1>2. CASE conn[client.conn].c = "broken" /\ \E y : ReconnectFields(y)
  <2>1. PICK y : ReconnectFields(y)
    BY <1>2
  <2> QED BY <1>1, <1>2, <2>1, LineReconnects
<1>3. CASE \E y, r : ReadFields(y, r)
  <2>1. PICK y, r : ReadFields(y, r)
    BY <1>3
  <2>2. LET x == conn[client.conn] IN
        /\ Sets(client.conn, y) /\ ~(x.toC = <<>> /\ x.c \in {"open", "broken"})
        /\ x.toC = <<>> \/ Len(x.toC) = 1 => y.toC = <<>>
        /\ y.toS = x.toS /\ y.s = x.s /\ y.c = x.c
        /\ r = IF x.toC = <<>> THEN 0 ELSE x.toC[1][2]
    BY <2>1 DEF ReadFields
  <2>3. r \in Nat
    <3>1. conn[client.conn].toC \in Seq(ToClient)
      BY <1>1, BaseFacts DEF Connections
    <3>2. conn[client.conn].toC # <<>> => conn[client.conn].toC[1] \in ToClient
      BY <3>1
    <3> QED BY <2>2, <3>2, Sent
  <2>4. client'.pc = "check" /\ client'.conn = client.conn /\ client'.req = r
    BY <1>1, <2>1, <2>3 DEF ReadFields, Clients
  <2>5. SameKinds
    BY <2>2, KindsStay
  <2>6. client.pc \in Served
    BY <1>1 DEF Served
  <2>7. CASE /\ client.conn = server.conn /\ OnLine /\ server.conn \in DOMAIN conn
             /\ Own = conn[client.conn] /\ Own.kind = "control" /\ Own'.kind = "control"
             /\ Own.c \in {"open", "broken"} /\ server.pc # "answer"
    <3>1. Own' = y /\ Own.toC # <<>>
      BY <1>1, <2>2, <2>7 DEF Sets, Own
    <3>2. server.pc = "reply" /\ OnReply
      BY <1>1, <2>7, <3>1 DEF OnLine, OnReady, OnPop, OnData, OnToken, Talks
    <3>3. Own.toC = <<<<"CONNECT", server.req>>>> /\ Own.toS = <<>> /\ backlog = <<>>
      BY <1>1, <3>1, <3>2 DEF OnReply
    <3>4. r = server.req /\ y.toC = <<>> /\ y.toS = <<>>
      <4>1. Len(Own.toC) = 1 /\ Own.toC[1][2] = server.req
        BY <3>3
      <4> QED BY <2>2, <2>7, <3>1, <3>3, <4>1
    <3>5. OnReply'
      BY <1>1, <2>4, <3>1, <3>3, <3>4 DEF OnReply
    <3> QED BY <1>1, <2>2, <2>4, <2>7, <3>1, <3>2, <3>5 DEF Line, OnLine
  <2> QED BY <1>1, <2>5, <2>6, <2>7, Together
<1> QED BY <1>2, <1>3, ReadStep

\* The client logs out, sends its token, or reconnects.
LEMMA LineChecks ==
  ASSUME Base, Order, Behind, Line, faults.crash <= 1, server.pc \in Talks \cup {"answer"},
         ClientCheck
  PROVE  Line'
<1>1. /\ client.pc = "check" /\ client.conn \in DOMAIN conn /\ client \in Clients
      /\ UNCHANGED <<backlog, server, quit, faults>>
  BY CheckStep, BaseFacts
<1>2. CASE Fails(conn[client.conn].c) /\ \E y : ReconnectFields(y)
  <2>1. PICK y : ReconnectFields(y)
    BY <1>2
  <2>2. conn[client.conn].c # "open"
    BY <1>2 DEF Fails
  <2> QED BY <1>1, <1>2, <2>1, <2>2, LineReconnects
<1>3. ASSUME NEW p \in {"leave", "dial"}, NEW m, NEW y,
             client' = [client EXCEPT !.pc = p], ClientWrites(y, m),
             y.toC = conn[client.conn].toC,
             p = "leave" => m = <<"logout", 0>>, p = "dial" => m = <<"token", client.rand>>
      PROVE  Line'
  <2>1. LET x == conn[client.conn] IN
        /\ Sets(client.conn, y) /\ y.s = x.s /\ y.c = AfterWrite(x.c) /\ y.toC = x.toC
        /\ y.toS = IF x.c = "open" /\ x.s # "broken" THEN Append(x.toS, m) ELSE x.toS
    BY <1>3 DEF ClientWrites
  <2>2. /\ client'.pc = p /\ client'.conn = client.conn /\ client'.req = client.req
        /\ client'.rand = client.rand
    BY <1>1, <1>3 DEF Clients
  <2>3. SameKinds
    BY <2>1, KindsStay
  <2>4. client.pc \in Served
    BY <1>1 DEF Served
  <2>5. CASE /\ client.conn = server.conn /\ OnLine /\ server.conn \in DOMAIN conn
             /\ Own = conn[client.conn] /\ Own.kind = "control" /\ Own'.kind = "control"
             /\ Own.c \in {"open", "broken"} /\ Own.s \in {"open", "broken"}
             /\ server.pc # "answer"
    <3>1. Own' = y
      BY <1>1, <2>1, <2>5 DEF Sets, Own
    <3>2. server.pc = "reply" /\ OnReply
      BY <1>1, <2>5 DEF OnLine, OnReady, OnPop, OnData, OnToken, Talks
    <3>3. client.req = server.req /\ Own.toS = <<>> /\ Own.toC = <<>> /\ backlog = <<>>
      BY <1>1, <3>2 DEF OnReply
    <3>4. Said(<<m>>)'
      <4>1. Append(<<>>, m) = <<m>>
        OBVIOUS
      <4>2. y.toS = <<m>> \/ (y.toS = <<>> /\ (y.s = "broken" \/ y.c = "broken"))
        BY <2>1, <2>5, <3>3, <4>1 DEF AfterWrite
      <4> QED BY <3>1, <4>2 DEF Said, Half
    <3>5. TokenNow' = <<<<"token", client.rand>>>>
      BY <2>2 DEF TokenNow
    <3>6. OnReply'
      <4>1. CASE p = "leave"
        <5>1. Said(<<<<"logout", 0>>>>)'
          BY <1>3, <3>4, <4>1 DEF Said
        <5> QED BY <1>1, <2>1, <2>2, <2>5, <3>1, <3>3, <4>1, <5>1 DEF OnReply
      <4>2. CASE p = "dial"
        <5>1. Said(TokenNow)'
          BY <1>3, <3>4, <3>5, <4>2 DEF Said
        <5> QED BY <1>1, <2>1, <2>2, <2>5, <3>1, <3>3, <4>2, <5>1 DEF OnReply
      <4> QED BY <4>1, <4>2
    <3>7. y.c \in {"open", "broken"}
      BY <2>1, <2>5 DEF AfterWrite
    <3> QED BY <1>1, <2>2, <2>5, <3>1, <3>2, <3>6, <3>7 DEF Line, OnLine
  <2> QED BY <1>1, <2>3, <2>4, <2>5, Together
<1>4. CASE /\ client' = [client EXCEPT !.pc = "leave"]
           /\ \E y : ClientWrites(y, <<"logout", 0>>) /\ y.toC = conn[client.conn].toC
  <2>1. "leave" # "dial"
    OBVIOUS
  <2> QED BY <1>3, <1>4, <2>1
<1>5. CASE /\ client' = [client EXCEPT !.pc = "dial"]
           /\ \E y : ClientWrites(y, <<"token", client.rand>>) /\ y.toC = conn[client.conn].toC
  <2>1. "leave" # "dial"
    OBVIOUS
  <2> QED BY <1>3, <1>5, <2>1
<1> QED BY <1>2, <1>4, <1>5, CheckStep

\* The client dials the data connection.
LEMMA LineDialled ==
  ASSUME Base, Order, Behind, Line, faults.crash <= 1, server.pc \in Talks \cup {"answer"},
         ClientDial, backlog' # backlog
  PROVE  Line'
<1>1. /\ client.pc = "dial" /\ client \in Clients /\ server.pc # "dead"
      /\ Dials("data", client.req) /\ backlog' = Append(backlog, Len(conn) + 1)
      /\ client' = [client EXCEPT !.pc = "token", !.fd = Len(conn) + 1]
      /\ UNCHANGED <<server, quit, faults>>
  BY DialStep, BaseFacts DEF Talks
<1>2. PICK n \in Nat : n = Len(conn) + 1
  BY ClientFacts
<1>3. /\ client'.pc = "token" /\ client'.conn = client.conn /\ client'.fd = n
      /\ client'.rand = client.rand /\ client'.req = client.req
  BY <1>1, <1>2 DEF Clients
<1>4. /\ n \notin DOMAIN conn /\ \A i \in DOMAIN conn : conn'[i] = conn[i]
      /\ conn'[n].kind = "data" /\ conn'[n].req = client.req
  BY <1>1, <1>2 DEF Dials
<1>5. SameKinds
  BY <1>1, KindsStay
<1>6. client.pc \in Served
  BY <1>1 DEF Served
<1>7. CASE /\ client.conn = server.conn /\ OnLine /\ server.conn \in DOMAIN conn
           /\ Own = conn[client.conn] /\ Own.kind = "control" /\ Own'.kind = "control"
           /\ Own.c \in {"open", "broken"} /\ server.pc # "answer"
  <2>1. Own' = Own
    BY <1>1, <1>4, <1>7 DEF Own
  <2>2. TokenNow' = TokenNow
    BY <1>3 DEF TokenNow
  <2>3. backlog = <<>> => backlog' = <<n>>
    BY <1>1, <1>2
  <2>4. CASE server.pc = "reply"
    <3>1. /\ client.req = server.req /\ Said(TokenNow) /\ Own.toC = <<>> /\ backlog = <<>>
      BY <1>1, <1>7, <2>4 DEF OnLine, OnReply
    <3>2. Right(n)' /\ Said(TokenNow)'
      BY <1>1, <1>4, <2>1, <2>2, <3>1 DEF Right, Said, Half
    <3>3. Right(client.fd)'
      BY <1>3, <3>2 DEF Right
    <3>4. OnReply'
      BY <1>3, <2>1, <2>3, <3>1, <3>2, <3>3 DEF OnReply
    <3> QED BY <1>1, <1>3, <1>7, <2>1, <2>4, <3>4 DEF Line, OnLine
  <2>5. CASE server.pc = "data"
    <3>1. /\ client.req = server.req /\ Own.toC = <<>> /\ Own.toS = <<>> /\ backlog = <<>>
          /\ IsToken(server.res) /\ server.res = TokenNow
      BY <1>1, <1>7, <2>5 DEF OnLine, OnData
    <3>2. Right(client.fd)'
      BY <1>1, <1>3, <1>4, <3>1 DEF Right
    <3>3. OnData'
      BY <1>1, <1>3, <2>1, <2>2, <2>3, <3>1, <3>2 DEF OnData
    <3> QED BY <1>1, <1>3, <1>7, <2>1, <2>5, <3>3 DEF Line, OnLine
  <2>6. server.pc \in {"reply", "data"}
    BY <1>1, <1>7 DEF OnLine, OnReady, OnPop, OnToken, Talks
  <2> QED BY <2>4, <2>5, <2>6
<1> QED BY <1>1, <1>5, <1>6, <1>7, Together

\* The network lets the data connection fail: the client reads again, and the server,
\* which has the token, is not told.
LEMMA LineUndialled ==
  ASSUME Base, Order, Behind, Line, faults.crash <= 1, server.pc \in Talks \cup {"answer"},
         ClientDial, UNCHANGED backlog
  PROVE  Line'
<1>1. /\ client.pc = "dial" /\ client \in Clients /\ UNCHANGED <<conn, backlog, server, quit>>
      /\ client' = [client EXCEPT !.pc = "read", !.rand = @ + 1] /\ DialFailed
  <2>1. backlog # Append(backlog, Len(conn) + 1)
    BY Appended, BaseFacts
  <2> QED BY <2>1, DialStep, BaseFacts DEF Talks
<1>2. client'.pc = "read" /\ client'.conn = client.conn
  BY <1>1 DEF Clients
<1>3. SameKinds
  BY <1>1, KindsStay
<1>4. client.pc \in Served
  BY <1>1 DEF Served
<1>5. /\ faults'.crash = faults.crash /\ faults'.dial > 0
  BY <1>1 DEF DialFailed
<1>6. CASE /\ client.conn = server.conn /\ OnLine /\ server.conn \in DOMAIN conn
           /\ Own = conn[client.conn] /\ Own.kind = "control" /\ Own'.kind = "control"
           /\ Own.c \in {"open", "broken"} /\ server.pc # "answer"
  <2>1. Own' = Own /\ (Half' <=> Half)
    BY <1>1 DEF Own, Half
  <2>2. CASE server.pc = "reply"
    <3>1. Said(TokenNow) /\ Own.toC = <<>> /\ backlog = <<>>
      BY <1>1, <1>6, <2>2 DEF OnLine, OnReply
    <3>2. IsToken(Own.toS) \/ (Own.toS = <<>> /\ Half)
      BY <3>1, FirstWords DEF Said
    <3>3. OnReply'
      BY <1>1, <1>2, <1>5, <2>1, <3>1, <3>2 DEF OnReply
    <3> QED BY <1>1, <1>2, <1>6, <2>1, <2>2, <3>3 DEF Line, OnLine
  <2>3. CASE server.pc = "data"
    <3>1. /\ Own.toC = <<>> /\ Own.toS = <<>> /\ backlog = <<>> /\ IsToken(server.res)
      BY <1>1, <1>6, <2>3 DEF OnLine, OnData
    <3>2. OnData'
      BY <1>1, <1>2, <1>5, <2>1, <3>1 DEF OnData
    <3> QED BY <1>1, <1>2, <1>6, <2>1, <2>3, <3>2 DEF Line, OnLine
  <2>4. server.pc \in {"reply", "data"}
    BY <1>1, <1>6 DEF OnLine, OnReady, OnPop, OnToken, Talks
  <2> QED BY <2>2, <2>3, <2>4
<1> QED BY <1>1, <1>3, <1>4, <1>5, <1>6, Together

\* The client sends the token on it.
LEMMA LinePushes ==
  ASSUME Base, Order, Untouched, Behind, Line, faults.crash <= 1,
         server.pc \in Talks \cup {"answer"}, ClientToken
  PROVE  Line'
<1>1. /\ client.pc = "token" /\ client.fd \in DOMAIN conn /\ client \in Clients
      /\ client.fd # client.conn /\ conn[client.fd].toS = <<>> /\ conn[client.fd].s \in {"open", "broken"}
      /\ conn[client.fd].kind = "data"
      /\ UNCHANGED <<backlog, server, quit, faults>>
  BY PushStep, BaseFacts, ClientFacts
<1>2. PICK y : LET x == conn[client.fd] IN
               /\ Sets(client.fd, y) /\ y.toC = x.toC /\ y.s = x.s /\ y.c = AfterWrite(x.c)
               /\ y.toS = IF x.c = "open" /\ x.s # "broken"
                          THEN Append(x.toS, <<"token", client.rand>>) ELSE x.toS
  BY PushStep
<1>3. client'.pc = "read" /\ client'.conn = client.conn
  BY <1>1, PushStep DEF Clients
<1>4. SameKinds
  BY <1>2, KindsStay
<1>5. client.pc \in Served
  BY <1>1 DEF Served
<1>6. CASE /\ client.conn = server.conn /\ OnLine /\ server.conn \in DOMAIN conn
           /\ Own = conn[client.conn] /\ Own.kind = "control" /\ Own'.kind = "control"
           /\ Own.c \in {"open", "broken"} /\ server.pc # "answer"
  <2>1. Own' = Own
    BY <1>1, <1>2, <1>6 DEF Own, Sets
  <2>2. PICK f, t : f = client.fd /\ t = TokenNow
    OBVIOUS
  <2>3. ASSUME InLine(f) PROVE y.toS = t \/ Cut(f)'
    <3>1. conn[f].c \in {"open", "broken"}
      BY <1>1, <2>2, <2>3, <1>6 DEF Untouched, Talks
    <3>2. Append(<<>>, <<"token", client.rand>>) = <<<<"token", client.rand>>>>
      OBVIOUS
    <3>3. conn'[f] = y
      BY <1>2, <2>2 DEF Sets
    <3> QED BY <1>1, <1>2, <2>2, <3>1, <3>2, <3>3 DEF TokenNow, Cut, AfterWrite
  <2>4. InLine(f) => Matches(f, t)'
    <3>1. InLine(f) => conn'[f].toS = t \/ Cut(f)'
      BY <1>2, <2>2, <2>3 DEF Sets
    <3>2. PICK q : q = t
      OBVIOUS
    <3>3. InLine(f) => Matches(f, q)'
      BY <3>1, <3>2 DEF Matches
    <3> QED BY <3>2, <3>3 DEF Matches
  <2>5. Right(f) => Right(f)'
    BY <1>1, <1>4, <2>2 DEF Right, SameKinds
  <2>6. \A a : Len(<<a>>) = 1 /\ <<a>>[1] = a /\ 1 \in DOMAIN <<a>>
    OBVIOUS
  <2>7. backlog = <<f>> => InLine(f) /\ Len(backlog) = 1 /\ backlog[1] = f
    BY <2>6 DEF InLine
  <2>8. CASE server.pc = "reply"
    <3>1. /\ Said(t) /\ Own.toC = <<>> /\ backlog = <<f>> /\ Right(f) /\ IsToken(t)
      BY <1>1, <1>6, <2>2, <2>8, FirstWords DEF OnLine, OnReply
    <3>2. IsToken(Own.toS) \/ (Own.toS = <<>> /\ Half)
      BY <3>1 DEF Said
    <3>3. Matches(f, Own.toS)'
      BY <2>1, <2>4, <2>7, <3>1 DEF Said, Matches, IsToken
    <3>4. Right(backlog[1])' /\ Matches(backlog[1], Own.toS)'
      BY <1>1, <2>5, <2>7, <3>1, <3>3 DEF Right, Matches, Cut
    <3>5. Half' <=> Half
      BY <2>1 DEF Half
    <3>6. OnReply'
      BY <1>1, <1>3, <2>1, <2>7, <3>1, <3>2, <3>4, <3>5 DEF OnReply
    <3> QED BY <1>1, <1>3, <1>6, <2>1, <2>8, <3>6 DEF Line, OnLine
  <2>9. CASE server.pc = "data"
    <3>1. /\ Own.toS = <<>> /\ Own.toC = <<>> /\ IsToken(server.res)
          /\ backlog = <<f>> /\ Right(f) /\ server.res = t
      BY <1>1, <1>6, <2>2, <2>9 DEF OnLine, OnData
    <3>2. Right(backlog[1])' /\ Matches(backlog[1], server.res)'
      BY <1>1, <2>4, <2>5, <2>7, <3>1 DEF Right, Matches, Cut
    <3>3. OnData'
      BY <1>1, <1>3, <2>1, <2>7, <3>1, <3>2 DEF OnData
    <3> QED BY <1>1, <1>3, <1>6, <2>1, <2>9, <3>3 DEF Line, OnLine
  <2>10. CASE server.pc = "token"
    <3>1. /\ Own.toS = <<>> /\ Own.toC = <<>> /\ IsToken(server.res) /\ backlog = <<>>
          /\ server.fd = f /\ Right(f) /\ server.res = t
      BY <1>1, <1>6, <2>2, <2>10 DEF OnLine, OnToken
    <3>2. InLine(f)
      BY <2>10, <3>1 DEF InLine
    <3>3. Right(server.fd)' /\ Matches(server.fd, server.res)'
      BY <1>1, <2>4, <2>5, <3>1, <3>2 DEF Right, Matches, Cut
    <3>4. OnToken'
      BY <1>1, <1>3, <2>1, <3>1, <3>3 DEF OnToken
    <3> QED BY <1>1, <1>3, <1>6, <2>1, <2>10, <3>4 DEF Line, OnLine
  <2>11. server.pc \in {"reply", "data", "token"}
    BY <1>1, <1>6 DEF OnLine, OnReady, OnPop, Talks
  <2> QED BY <2>8, <2>9, <2>10, <2>11
<1> QED BY <1>1, <1>4, <1>5, <1>6, Together

\* The network breaks a control connection, or finds it broken; the relay forwards
\* what the service said first.
LEMMA LineBreaks ==
  ASSUME Base, Behind, Line, faults.crash <= 1, server.pc \in Talks \cup {"answer"},
         Break
  PROVE  Line'
<1>1. /\ client.conn # 0 /\ client.conn \in DOMAIN conn /\ client.pc \notin {"down", "exited"}
      /\ faults'.spoke = faults.spoke /\ faults'.crash = faults.crash
      /\ faults'.dial = faults.dial
      /\ UNCHANGED <<backlog, server, client, quit>>
  BY BreakStep, ClientFacts DEF AsBefore
<1>2. PICK y : BreakFields(client.conn, y)
  BY BreakStep
<1>3. LET x == conn[client.conn] IN
      /\ Sets(client.conn, y) /\ x.s = "open" /\ x.c = "open"
      /\ \/ y.s = "broken" /\ y.c = "open"
         \/ y.s = "open" /\ y.c = "broken"
      /\ y.toS \in {<<>>} \cup Prefixes(x.toS) /\ y.toC \in {<<>>} \cup Prefixes(x.toC)
  BY <1>2 DEF BreakFields
<1>4. LET x == conn[client.conn] IN
      /\ x.toS = <<>> => y.toS = <<>>
      /\ x.toC = <<>> => y.toC = <<>>
      /\ Len(x.toS) = 1 => y.toS \in {<<>>, x.toS}
      /\ Len(x.toC) = 1 => y.toC \in {<<>>, x.toC}
  <2>1. /\ conn[client.conn].toS \in Seq(Messages) /\ conn[client.conn].toC \in Seq(ToClient)
    BY <1>1, BaseFacts DEF Connections
  <2> QED BY <1>3, <2>1, PrefixOf
<1>5. SameKinds
  BY <1>3, KindsStay
<1>6. /\ server.conn \in DOMAIN conn /\ faults.crash \in Nat
      /\ conn[client.conn].kind = "control"
  BY <1>1, LineFacts, BaseFacts, ClientFacts DEF Counts
<1>7. TokensStay
  BY <1>3, <1>6, TokensKept
<1>8. CASE client.conn = server.conn
  <2>1. Own' = y /\ Own = conn[client.conn]
    BY <1>1, <1>3, <1>8 DEF Sets, Own
  <2>2. Half' /\ ~Half /\ Own'.c \in {"open", "broken"} /\ Own.s # "broken"
    BY <1>3, <2>1 DEF Half
  <2>3. /\ Short(Own.toS) => Own'.toS = Own.toS \/ (Own'.toS = <<>> /\ Half')
        /\ Short(Own.toC) => Own'.toC \in {Own.toC, <<>>}
    BY <1>4, <2>1, <2>2 DEF Short
  <2> QED BY <1>1, <1>5, <1>7, <1>8, <2>2, <2>3, OnStays
<1>9. CASE client.conn # server.conn
  <2>1. Own' = Own
    BY <1>1, <1>3, <1>6, <1>9 DEF Sets, Own
  <2>2. \A i \in DOMAIN conn : Fresh(i) => Fresh(i)'
    <3> SUFFICES ASSUME NEW i \in DOMAIN conn, Fresh(i) PROVE Fresh(i)'
      OBVIOUS
    <3>1. client.conn = i /\ client.pc = "challenge"
      BY <1>1, <1>3 DEF Fresh
    <3>2. /\ conn'[i] = y /\ y.kind = "control" /\ y.toS = <<>> /\ y.toC = <<>>
          /\ y.s \in {"open", "broken"} /\ y.c \in {"open", "broken"}
      BY <1>3, <1>4, <1>6, <3>1 DEF Fresh, Sets
    <3> QED BY <1>1, <3>1, <3>2 DEF Fresh
  <2> QED BY <1>1, <1>5, <1>6, <1>7, <1>9, <2>1, <2>2, OffStays
<1> QED BY <1>8, <1>9

\* The network fails a tunnel's connection.
LEMMA LineResets ==
  ASSUME Base, Behind, Line, faults.crash <= 1, server.pc \in Talks \cup {"answer"},
         Reset
  PROVE  Line'
<1>1. /\ faults'.spoke = faults.spoke /\ faults'.crash = faults.crash
      /\ faults'.dial = faults.dial
      /\ UNCHANGED <<backlog, server, client, quit>>
  BY ResetStep
<1>2. PICK i \in DOMAIN conn : conn[i].kind = "data" /\ \E y : BreakFields(i, y)
  BY ResetStep
<1>3. PICK y : BreakFields(i, y)
  BY <1>2
<1>4. Sets(i, y)
  BY <1>3 DEF BreakFields
<1>5. SameKinds /\ TokensStay
  BY <1>3, <1>4, KindsStay, TokensKept
<1>6. /\ server.conn \in DOMAIN conn /\ faults.crash \in Nat
      /\ Own.kind = "control" \/ (server.pc = "answer" /\ Own.kind = "data")
      /\ client.conn = server.conn => Own.kind = "control"
      /\ Own.kind = "control" => Own.c \in {"open", "broken"}
  BY LineFacts, BaseFacts DEF Counts
<1>7. CASE Own.kind = "data"
  <2>1. Own'.kind = "data"
    BY <1>1, <1>5, <1>6, <1>7 DEF SameKinds, Own
  <2> QED BY <1>1, <1>6, <1>7, <2>1 DEF Line
<1>8. CASE Own.kind = "control"
  <2>1. Own' = Own
    BY <1>1, <1>2, <1>4, <1>6, <1>8 DEF Sets, Own
  <2>2. CASE client.conn = server.conn
    <3>1. Half' <=> Half
      BY <2>1 DEF Half
    <3> QED BY <1>1, <1>5, <1>6, <1>8, <2>1, <2>2, <3>1, OnStays
  <2>3. CASE client.conn # server.conn
    <3>1. \A j \in DOMAIN conn : Fresh(j) => Fresh(j)'
      BY <1>1, <1>2, <1>4 DEF Fresh, Sets
    <3> QED BY <1>1, <1>5, <1>6, <2>1, <2>3, <3>1, OffStays
  <2> QED BY <2>2, <2>3
<1> QED BY <1>6, <1>7, <1>8

LEMMA LineKeptAlive ==
  ASSUME Base, Behind, Line, faults.crash <= 1, server.pc \in Talks \cup {"answer"},
         KeepAlive
  PROVE  Line'
<1>1. UNCHANGED <<backlog, server, client, quit, faults>>
  BY KeepAliveStep
<1>2. PICK i \in DOMAIN conn : \E y :
         /\ conn[i].kind = "control" /\ {conn[i].s, conn[i].c} = {"open", "broken"}
         /\ Sets(i, y) /\ y.toS = conn[i].toS /\ y.toC = conn[i].toC
         /\ y.s = "broken" /\ y.c = "broken"
  BY KeepAliveStep
<1>3. PICK y : /\ conn[i].kind = "control" /\ {conn[i].s, conn[i].c} = {"open", "broken"}
               /\ Sets(i, y) /\ y.toS = conn[i].toS /\ y.toC = conn[i].toC
               /\ y.s = "broken" /\ y.c = "broken"
  BY <1>2
<1>4. SameKinds /\ TokensStay
  BY <1>3, KindsStay, TokensKept
<1>5. /\ server.conn \in DOMAIN conn /\ faults.crash \in Nat
      /\ client.conn = server.conn => Own.c \in {"open", "broken"}
  BY LineFacts, BaseFacts DEF Counts
<1>6. /\ \A j \in DOMAIN conn : conn'[j].toS = conn[j].toS /\ conn'[j].toC = conn[j].toC
      /\ \A j \in DOMAIN conn : conn'[j] = conn[j] \/ (conn'[j].s = "broken" /\ conn'[j].c = "broken")
  BY <1>3 DEF Sets
<1>7. /\ Own'.toS = Own.toS /\ Own'.toC = Own.toC
      /\ Own' = Own \/ (Own'.s = "broken" /\ Own'.c = "broken")
  BY <1>1, <1>5, <1>6 DEF Own
<1>8. CASE client.conn = server.conn
  <2>1. /\ Half => Half'
        /\ Own.s = "broken" => Own'.s = "broken"
        /\ Own'.c \in {"open", "broken"}
    BY <1>5, <1>7, <1>8 DEF Half
  <2> QED BY <1>1, <1>4, <1>6, <1>7, <1>8, <2>1, OnStays
<1>9. CASE client.conn # server.conn
  <2>1. \A j \in DOMAIN conn : Fresh(j) => Fresh(j)'
    BY <1>1, <1>4, <1>6 DEF Fresh, SameKinds
  <2>2. /\ Own.c = Own'.c \/ Own'.c = "broken"
        /\ Ended(Own'.s) => Ended(Own.s)
    BY <1>7 DEF Ended
  <2> QED BY <1>1, <1>4, <1>5, <1>6, <1>7, <1>9, <2>1, <2>2, OffStays
<1> QED BY <1>8, <1>9

LEMMA LinePays ==
  ASSUME Base, Behind, Line, faults.crash <= 1, server.pc \in Talks \cup {"answer"},
         NEW i, Payload(i)
  PROVE  Line'
<1>1. /\ i \in DOMAIN conn /\ conn[i].kind = "data" /\ faults'.spoke
      /\ faults'.crash = faults.crash /\ faults'.dial = faults.dial
      /\ UNCHANGED <<backlog, server, quit>>
  BY PayloadStep
<1>2. /\ client'.pc = client.pc /\ client'.conn = client.conn /\ client'.fd = client.fd
      /\ client'.req = client.req /\ client'.rand = client.rand
  BY PayloadStep, BaseFacts DEF Clients
<1>3. PICK y : Sets(i, y) /\ y.toC = conn[i].toC /\ y.s = conn[i].s
               /\ y.c = AfterWrite(conn[i].c)
  BY PayloadStep
<1>4. SameKinds /\ TokensStay
  BY <1>1, <1>3, KindsStay DEF TokensStay
<1>5. /\ server.conn \in DOMAIN conn /\ faults.crash \in Nat
      /\ Own.kind = "control" \/ (server.pc = "answer" /\ Own.kind = "data")
      /\ client.conn = server.conn => Own.kind = "control"
      /\ Own.kind = "control" => Own.c \in {"open", "broken"}
  BY LineFacts, BaseFacts DEF Counts
<1>6. CASE Own.kind = "data"
  <2>1. Own'.kind = "data"
    BY <1>1, <1>4, <1>5, <1>6 DEF SameKinds, Own
  <2> QED BY <1>1, <1>5, <1>6, <2>1 DEF Line
<1>7. CASE Own.kind = "control"
  <2>1. Own' = Own
    BY <1>1, <1>3, <1>5, <1>7 DEF Sets, Own
  <2>2. CASE client.conn = server.conn
    <3>1. Half' <=> Half
      BY <2>1 DEF Half
    <3> QED BY <1>1, <1>2, <1>4, <1>5, <1>7, <2>1, <2>2, <3>1, OnStays
  <2>3. CASE client.conn # server.conn
    <3>1. \A j \in DOMAIN conn : Fresh(j) => Fresh(j)'
      BY <1>1, <1>2, <1>3 DEF Fresh, Sets
    <3> QED BY <1>1, <1>2, <1>4, <1>5, <2>1, <2>3, <3>1, OffStays
  <2> QED BY <2>2, <2>3
<1> QED BY <1>5, <1>6, <1>7

\* The client process is started again.
LEMMA LineRestarts ==
  ASSUME Base, Behind, Line, faults.crash <= 1, server.pc \in Talks \cup {"answer"},
         Restart
  PROVE  Line'
<1>1. /\ client.pc = "down" /\ client.conn = 0 /\ client'.conn = 0
      /\ UNCHANGED <<conn, backlog, server, quit, faults>>
  BY RestartStep, ClientFacts DEF NewClient, NoConnection
<1>2. /\ server.conn \in DOMAIN conn /\ server.conn # 0 /\ faults.crash \in Nat
  BY LineFacts, BaseFacts DEF Counts
<1>3. \A i \in DOMAIN conn : ~Fresh(i)
  <2>1. \A i \in DOMAIN conn : i # 0
    BY BaseFacts
  <2> QED BY <1>1, <2>1 DEF Fresh
<1>4. SameKinds /\ TokensStay
  BY <1>1, KindsStay, TokensKept
<1>5. Own' = Own
  BY <1>1 DEF Own
<1> QED BY <1>1, <1>2, <1>3, <1>4, <1>5, OffStays

\* The client process crashes again, and a service that spoke has spoken.
LEMMA Counted ==
  ASSUME Base, [Next]_vars
  PROVE  /\ faults.crash \in Nat /\ faults'.crash \in Nat /\ faults'.crash >= faults.crash
         /\ faults.spoke => faults'.spoke
         /\ quit => quit' \/ faults'.crash > 0
<1>1. faults.crash \in Nat
  BY BaseFacts DEF Counts
<1>2. CASE UNCHANGED <<faults, quit>>
  BY <1>1, <1>2
<1>3. CASE Ask \/ WakeFails \/ Quit \/ UNCHANGED vars
  <2>1. faults'.crash = faults.crash /\ faults'.spoke = faults.spoke /\ (quit => quit')
    <3>1. CASE Ask
      BY <3>1 DEF Ask
    <3>2. CASE WakeFails \/ Quit
      BY <3>2, WakeStep DEF AsBefore
    <3>3. CASE UNCHANGED vars
      BY <3>3 DEF vars
    <3> QED BY <1>3, <3>1, <3>2, <3>3
  <2> QED BY <1>1, <2>1
<1>4. CASE Server
  BY <1>2, <1>4 DEF Server, ServerAccept, ServerAnswer, ServerReady, ServerPop, ServerSend,
                    ServerReply, ServerData, ServerToken, serverKeeps
<1>5. CASE Client
  <2>1. CASE ClientConnect \/ ClientDial
    <3>1. faults'.crash = faults.crash /\ faults'.spoke = faults.spoke /\ UNCHANGED quit
      BY <2>1, ConnectStep, DialStep DEF AsBefore, DialFailed
    <3> QED BY <1>1, <3>1
  <2>2. CASE ClientChallenge \/ ClientResult \/ ClientRead \/ ClientCheck \/ ClientToken
             \/ ClientLeave
    BY <1>2, <2>2 DEF ClientChallenge, ClientResult, ClientRead, ClientCheck, ClientToken,
                      ClientLeave, clientKeeps
  <2> QED BY <1>5, <2>1, <2>2 DEF Client
<1>6. CASE Crash
  BY <1>6, CrashStep
<1>7. CASE Restart \/ KeepAlive \/ ServerRestart
  BY <1>2, <1>7 DEF Restart, KeepAlive, ServerRestart, serverKeeps
<1>8. CASE Break \/ Reset
  <2>1. faults'.spoke = faults.spoke /\ faults'.crash = faults.crash /\ UNCHANGED quit
    BY <1>8, BreakStep, ResetStep DEF AsBefore
  <2> QED BY <1>1, <2>1
<1>9. CASE \E i \in DOMAIN conn : Payload(i)
  <2>1. faults'.spoke /\ faults'.crash = faults.crash /\ UNCHANGED quit
    BY <1>9, PayloadStep
  <2> QED BY <1>1, <2>1
<1>10. CASE ServerCrash
  <2>1. /\ faults'.spoke = faults.spoke /\ faults'.crash = faults.crash /\ UNCHANGED quit
    BY <1>10, BaseFacts DEF ServerCrash
  <2> QED BY <1>1, <2>1
<1> QED BY <1>3, <1>4, <1>5, <1>6, <1>7, <1>8, <1>9, <1>10 DEF Next

\* Line is inductive, given what is proved above.
LEMMA NextLine ==
  Base /\ Order /\ Untouched /\ Behind /\ Line /\ [Next]_vars => Line'
<1> SUFFICES ASSUME Base, Order, Untouched, Behind, Line, [Next]_vars PROVE Line'
  OBVIOUS
<1>1. faults.crash \in Nat /\ server \in Servers
  BY BaseFacts DEF Counts
<1>2. CASE server'.pc \notin Talks \cup {"answer"}
  BY <1>2 DEF Line
<1>3. CASE faults'.crash > 1 /\ faults'.crash \in Nat
  BY <1>3 DEF Line
<1>4. CASE ServerCrash \/ ServerRestart
  <2>1. CASE ServerCrash
    <3>1. server'.pc = "dead"
      BY <2>1, ServerCrashStep
    <3> QED BY <1>2, <3>1 DEF Talks
  <2>2. CASE ServerRestart
    <3>1. server'.pc = "accept"
      BY <2>2 DEF ServerRestart, NewServer
    <3> QED BY <1>2, <3>1 DEF Talks
  <2> QED BY <1>4, <2>1, <2>2
<1>5. CASE Ask \/ WakeFails \/ Quit \/ UNCHANGED vars
  <2>1. /\ UNCHANGED <<conn, backlog, server, client>> /\ (quit => quit')
        /\ faults'.crash = faults.crash /\ faults'.spoke = faults.spoke
        /\ faults'.dial = faults.dial
    <3>1. CASE Ask
      BY <3>1 DEF Ask
    <3>2. CASE WakeFails \/ Quit
      BY <3>2, WakeStep DEF AsBefore
    <3>3. CASE UNCHANGED vars
      BY <3>3 DEF vars
    <3> QED BY <1>5, <3>1, <3>2, <3>3
  <2> QED BY <2>1, LineRests
<1>6. CASE Server
  <2>1. UNCHANGED faults
    BY <1>6 DEF Server, ServerAccept, ServerAnswer, ServerReady, ServerPop, ServerSend,
                ServerReply, ServerData, ServerToken, serverKeeps
  <2>2. CASE ServerAccept
    BY <2>2, LineAccepts
  <2>3. CASE faults.crash <= 1 /\ ~ServerAccept
    BY <1>6, <2>3, LineAnswers, LineReadies, LinePops, LineSends, LineReplies, LineTakes,
       LineTokens DEF Server
  <2> QED BY <1>1, <1>3, <2>1, <2>2, <2>3
<1>7. CASE /\ Client \/ Crash \/ Restart \/ Break \/ Reset \/ KeepAlive \/ \E i \in DOMAIN conn : Payload(i)
           /\ server.pc \in Talks \cup {"answer"} /\ faults.crash <= 1
  <2>1. CASE ClientLeave
    <3>1. /\ UNCHANGED <<faults, quit>> /\ faults'.spoke = faults.spoke
          /\ faults'.dial = faults.dial
      BY <2>1, LeaveStep
    <3> QED BY <1>7, <2>1, <3>1, LeaveStep, LineEnds
  <2>2. CASE Crash
    BY <1>7, <2>2, CrashStep, LineEnds
  <2>3. CASE Client /\ ~ClientLeave /\ ~ClientConnect
    BY <1>7, <2>3, LineChallenged, LineResults, LineReads, LineChecks,
       LineDialled, LineUndialled, LinePushes DEF Client
  <2>5. CASE ClientConnect
    <3>1. CASE backlog' # backlog
      BY <1>7, <2>5, <3>1, LineConnects
    <3>2. CASE backlog' = backlog
      <4>1. backlog # Append(backlog, Len(conn) + 1)
        BY Appended, BaseFacts
      <4>2. /\ AllClosed(ClientClosed) /\ client'.conn = 0 /\ client.pc = "connect"
            /\ AsBefore /\ UNCHANGED <<server, quit>>
        BY <1>7, <2>5, <3>2, <4>1, ConnectStep DEF Talks
      <4> QED BY <1>7, <3>2, <4>2, LineEnds DEF AsBefore
    <3> QED BY <3>1, <3>2
  <2>4. CASE Restart \/ Break \/ Reset \/ KeepAlive \/ \E i \in DOMAIN conn : Payload(i)
    BY <1>7, <2>4, LineRestarts, LineBreaks, LineResets, LineKeptAlive, LinePays
  <2> QED BY <1>7, <2>1, <2>2, <2>3, <2>4, <2>5
<1>8. CASE Client \/ Crash \/ Restart \/ Break \/ Reset \/ KeepAlive \/ \E i \in DOMAIN conn : Payload(i)
  <2>1. UNCHANGED server
    <3>1. CASE Client
      BY <3>1 DEF Client, ClientConnect, ClientChallenge, ClientResult, ClientRead,
                  ClientCheck, ClientDial, ClientToken, ClientLeave, clientKeeps
    <3>2. CASE Crash \/ Restart \/ Break \/ Reset \/ KeepAlive \/ \E i \in DOMAIN conn : Payload(i)
      BY <3>2 DEF Crash, Restart, Break, Reset, NetworkBreaks, KeepAlive, Payload
    <3> QED BY <1>8, <3>1, <3>2
  <2>2. faults'.crash \in Nat /\ faults'.crash >= faults.crash
    BY Counted
  <2> QED BY <1>1, <1>2, <1>3, <1>7, <1>8, <2>1, <2>2
<1> QED BY <1>4, <1>5, <1>6, <1>8 DEF Next

LEMMA InitLine == Init => Line
  BY DEF Init, Line, NewServer, Talks
-----------------------------------------------------------------------------
(* What users are promised. *)

\* No step changes what a connection is, or for which request it was dialled.
LEMMA AllKinds ==
  ASSUME Base, [Next]_vars
  PROVE  SameKinds
<1>1. CASE Ask \/ WakeFails \/ Quit \/ UNCHANGED vars
  <2>1. UNCHANGED conn
    BY <1>1 DEF Ask, WakeFails, Quit, vars
  <2> QED BY <2>1, KindsStay
<1>2. CASE ServerDies \/ ProcessEnds(ClientClosed)
  <2>1. AllClosed(ServerClosed) \/ AllClosed(ClientClosed)
    BY <1>2, AllEnd, BaseFacts DEF ServerDies
  <2> QED BY <2>1, KindsStay
<1>3. CASE \E i, y : Sets(i, y)
  BY <1>3, KindsStay
<1>4. CASE Server
  <2>1. CASE ServerAccept
    BY <1>3, <2>1, AcceptStep
  <2>2. CASE ServerAnswer
    BY <1>2, <1>3, <2>2, AnswerFacts DEF AnswerFields
  <2>3. CASE ServerReady
    BY <1>3, <2>3, ReadyStep DEF ReadyFields
  <2>4. CASE ServerPop \/ ServerData
    <3>1. UNCHANGED conn
      BY <2>4 DEF ServerPop, ServerData
    <3> QED BY <3>1, KindsStay
  <2>5. CASE ServerSend
    BY <1>3, <2>5, SendStep DEF SendFields, PipeFields
  <2>6. CASE ServerReply
    BY <1>3, <2>6, ReplyStep DEF ReplyFields, PipeFields
  <2>7. CASE ServerToken
    BY <1>2, <1>3, <2>7, TokenStep DEF TokenFields
  <2> QED BY <1>4, <2>1, <2>2, <2>3, <2>4, <2>5, <2>6, <2>7 DEF Server
<1>5. CASE Client
  <2>1. CASE ClientConnect
    BY <2>1, ConnectStep, KindsStay
  <2>2. CASE ClientChallenge
    BY <1>3, <2>2, ChallengeStep DEF ClientWrites
  <2>3. CASE ClientResult
    BY <1>3, <2>3, ResultStep, KindsStay DEF ClientWrites
  <2>4. CASE ClientRead
    BY <1>3, <2>4, ReadStep DEF ReadFields, ReconnectFields
  <2>5. CASE ClientCheck
    BY <1>3, <2>5, CheckStep DEF ClientWrites, ReconnectFields
  <2>6. CASE ClientDial
    BY <2>6, DialStep, KindsStay
  <2>7. CASE ClientToken
    BY <1>3, <2>7, PushStep
  <2>8. CASE ClientLeave
    BY <2>8, LeaveStep, KindsStay
  <2> QED BY <1>5, <2>1, <2>2, <2>3, <2>4, <2>5, <2>6, <2>7, <2>8 DEF Client
<1>6. CASE Crash \/ ServerCrash
  BY <1>6, CrashStep, ServerCrashStep, KindsStay
<1>7. CASE Restart \/ ServerRestart
  <2>1. UNCHANGED conn
    BY <1>7 DEF Restart, ServerRestart
  <2> QED BY <2>1, KindsStay
<1>8. CASE Break \/ Reset
  BY <1>3, <1>8, BreakStep, ResetStep DEF BreakFields
<1>9. CASE KeepAlive
  BY <1>3, <1>9, KeepAliveStep
<1>10. CASE \E i \in DOMAIN conn : Payload(i)
  BY <1>3, <1>10, PayloadStep
<1> QED BY <1>1, <1>4, <1>5, <1>6, <1>7, <1>8, <1>9, <1>10 DEF Next

\* What happens to the answers: a request joins, the users of a server that ended are
\* gone, and the server refuses the request at hand or answers it.
AnswerSteps ==
    \/ UNCHANGED answer
    \/ answer \in Seq(Int) /\ answer' = Append(answer, Pending)
    \/ /\ answer' = [r \in DOMAIN answer |->
                        IF answer[r] = Pending THEN Gone ELSE answer[r]]
    \/ /\ server.pc = "reply" /\ answer' = [answer EXCEPT ![Len(answer)] = -1]
       /\ conn[server.conn].toS # <<>> /\ conn[server.conn].toS[1] = <<"logout", 0>>
    \/ /\ server.pc = "token" /\ server.req = Len(answer)
       /\ \E y, m :
             /\ TokenFields(y, m)
             /\ \/ m = server.res /\ answer' = [answer EXCEPT ![Len(answer)] = server.fd]
                \/ m # server.res /\ answer' = [answer EXCEPT ![Len(answer)] = -1]

LEMMA OnlyAnswers ==
  ASSUME Base, [Next]_vars
  PROVE  AnswerSteps
<1>1. CASE UNCHANGED answer
  BY <1>1 DEF AnswerSteps
<1>2. CASE Ask
  BY <1>2, AskStep DEF AnswerSteps
<1>3. CASE ServerRestart
  BY <1>3 DEF ServerRestart, AnswerSteps
<1>4. CASE ServerReply
  <2>1. server.pc = "reply"
    BY <1>4, ReplyStep
  <2>2. CASE \E y, m :
           /\ ReplyFields(y, m) /\ m # <<>> /\ m[1] = <<"logout", 0>>
           /\ answer' = [answer EXCEPT ![Len(answer)] = -1]
    BY <2>1, <2>2 DEF AnswerSteps, ReplyFields
  <2> QED BY <1>1, <1>4, <2>2, ReplyStep
<1>5. CASE ServerToken
  <2>1. server.pc = "token" /\ server.req = Len(answer)
    BY <1>5, TokenStep
  <2> QED BY <1>1, <1>5, <2>1, TokenStep DEF AnswerSteps
<1>6. UNCHANGED answer \/ Ask \/ ServerRestart \/ ServerReply \/ ServerToken
  <2>1. CASE Server
    BY <2>1 DEF Server, ServerAccept, ServerAnswer, ServerReady, ServerPop, ServerSend,
                ServerData
  <2>2. CASE Client
    BY <2>2 DEF Client, ClientConnect, ClientChallenge, ClientResult, ClientRead,
                ClientCheck, ClientDial, ClientToken, ClientLeave, clientKeeps
  <2>3. CASE \/ WakeFails \/ Quit \/ Crash \/ Restart \/ ServerCrash \/ Break \/ Reset
             \/ KeepAlive \/ \E i \in DOMAIN conn : Payload(i)
             \/ UNCHANGED vars
    BY <2>3 DEF WakeFails, Quit, Crash, Restart, ServerCrash, Break, Reset, NetworkBreaks,
                KeepAlive, Payload, vars
  <2> QED BY <2>1, <2>2, <2>3 DEF Next
<1> QED BY <1>1, <1>2, <1>3, <1>4, <1>5, <1>6

\* When the server has read a token on the connection it took for the data
\* connection, that is one that was dialled for the request at hand.
LEMMA TunnelFound ==
  ASSUME Base, Untouched, Behind, Line, faults.crash <= 1, server.pc = "token",
         NEW y, NEW m, TokenFields(y, m), faults.crash = 0 \/ m = server.res
  PROVE  Right(server.fd) /\ Matches(server.fd, server.res)
         /\ server.res # <<>> /\ Len(server.res) = 1 /\ IsToken(server.res)
         /\ client.fd # server.fd
<1>1. /\ conn[server.fd].toS # <<>> \/ conn[server.fd].s \in {"fin", "gone"}
      /\ server.fd \in DOMAIN conn
  BY BaseFacts DEF TokenFields
<1>2. ~Fresh(server.fd)
  BY <1>1 DEF Fresh
<1>3. server.fd # client.fd
  BY <1>1, ClientFacts, BaseFacts
<1>4. \/ client.conn = server.conn /\ OnToken
      \/ client.conn # server.conn /\ OffToken /\ client.pc \notin Served
  BY LineFacts DEF OnLine, OffLine, Talks
<1>5. CASE OnToken
  BY <1>3, <1>5, FirstWords DEF OnToken, IsToken, Matches
<1>6. CASE OffToken
  <2>1. ~(IsToken(server.res) /\ Blank(server.fd))
    <3> SUFFICES ASSUME IsToken(server.res), conn[server.fd].kind = "control",
                        m = server.res
                 PROVE  FALSE
      BY <1>2 DEF Blank
    <3>1. conn[server.fd].toS = <<>>
      BY <1>1 DEF Untouched, InLine
    <3>2. m = <<>>
      BY <3>1 DEF TokenFields
    <3> QED BY <3>2, FirstWords
  <2> QED BY <1>2, <1>3, <1>6, <2>1 DEF OffToken, IsToken
<1> QED BY <1>4, <1>5, <1>6

\* RightTunnel is inductive, given the rest.
LEMMA NextTunnel ==
  ASSUME Base, Order', Untouched, Behind, Line, RightTunnel, [Next]_vars
  PROVE  RightTunnel'
<1>1. SameKinds /\ AnswerSteps /\ faults.crash \in Nat /\ faults'.crash >= faults.crash
      /\ faults'.crash \in Nat
  BY AllKinds, OnlyAnswers, Counted
<1>2. SUFFICES ASSUME faults'.crash <= 1, NEW r \in DOMAIN answer', answer'[r] > 0
               PROVE  /\ conn'[answer'[r]].kind = "data" /\ conn'[answer'[r]].req = r
                      /\ \A q \in DOMAIN answer' \ {r} : answer'[q] # answer'[r]
  BY DEF RightTunnel
<1>3. \A q \in DOMAIN answer' \ {r} : answer'[q] # answer'[r]
  BY <1>2 DEF Order
<1>4. faults.crash <= 1
  BY <1>1, <1>2
<1>5. answer \in Seq(Int) /\ \A q \in DOMAIN answer : answer[q] \in {-1, Gone, 0} \cup DOMAIN conn
  BY BaseFacts
<1>6. CASE r \in DOMAIN answer /\ answer'[r] = answer[r]
  <2>1. answer[r] \in DOMAIN conn
    BY <1>2, <1>5, <1>6 DEF Gone
  <2>2. conn[answer[r]].kind = "data" /\ conn[answer[r]].req = r
    BY <1>2, <1>4, <1>6 DEF RightTunnel
  <2> QED BY <1>1, <1>3, <1>6, <2>1, <2>2 DEF SameKinds
<1>7. CASE answer \in Seq(Int) /\ answer' = Append(answer, Pending)
  <2>1. DOMAIN answer' = DOMAIN answer \cup {Len(answer) + 1} /\ answer'[Len(answer) + 1] = 0
        /\ \A j \in DOMAIN answer : answer'[j] = answer[j]
    BY <1>7, Appended DEF Pending
  <2> QED BY <1>2, <1>6, <2>1
<1>8. CASE answer' = [q \in DOMAIN answer |-> IF answer[q] = Pending THEN Gone ELSE answer[q]]
  BY <1>2, <1>6, <1>8 DEF Gone
<1>9. CASE answer' = [answer EXCEPT ![Len(answer)] = -1]
  BY <1>2, <1>6, <1>9
<1>10. CASE /\ server.pc = "token" /\ server.req = Len(answer)
            /\ \E y, m : TokenFields(y, m) /\ m = server.res
            /\ answer' = [answer EXCEPT ![Len(answer)] = server.fd]
  <2>1. CASE r # Len(answer)
    BY <1>6, <1>10, <2>1
  <2>2. CASE r = Len(answer)
    <3>1. answer'[r] = server.fd /\ server.fd \in DOMAIN conn
      BY <1>2, <1>10, <2>2, BaseFacts
    <3>2. Right(server.fd)
      BY <1>4, <1>10, TunnelFound
    <3> QED BY <1>1, <1>3, <1>10, <2>2, <3>1, <3>2 DEF Right, SameKinds
  <2> QED BY <2>1, <2>2
<1> QED BY <1>1, <1>2, <1>6, <1>7, <1>8, <1>9, <1>10 DEF AnswerSteps

\* So is RefusedOnlyAfterQuit.
LEMMA NextRefused ==
  ASSUME Base, Untouched, Behind, Line, RefusedOnlyAfterQuit, [Next]_vars
  PROVE  RefusedOnlyAfterQuit'
<1>1. /\ AnswerSteps /\ faults.crash \in Nat /\ faults'.crash >= faults.crash
      /\ faults'.crash \in Nat /\ (faults.spoke => faults'.spoke)
      /\ quit => quit' \/ faults'.crash > 0
  BY OnlyAnswers, Counted
<1>2. SUFFICES ASSUME Refused', ~faults'.spoke, faults'.crash = 0, ~quit'
               PROVE  FALSE
  <2>1. faults'.crash = 0 \/ faults'.crash > 0
    BY <1>1
  <2> QED BY <2>1, Zenon DEF RefusedOnlyAfterQuit
<1>3. ~faults.spoke /\ faults.crash = 0 /\ ~quit /\ ~Refused
  BY <1>1, <1>2 DEF RefusedOnlyAfterQuit
<1>4. PICK r \in DOMAIN answer' : answer'[r] = -1
  BY <1>2 DEF Refused
<1>5. ~(r \in DOMAIN answer /\ answer'[r] = answer[r])
  BY <1>3, <1>4 DEF Refused
<1>6. CASE answer \in Seq(Int) /\ answer' = Append(answer, Pending)
  <2>1. DOMAIN answer' = DOMAIN answer \cup {Len(answer) + 1} /\ answer'[Len(answer) + 1] = 0
        /\ \A j \in DOMAIN answer : answer'[j] = answer[j]
    BY <1>6, Appended DEF Pending
  <2> QED BY <1>4, <1>5, <2>1
<1>7. CASE answer' = [q \in DOMAIN answer |-> IF answer[q] = Pending THEN Gone ELSE answer[q]]
  BY <1>4, <1>5, <1>7 DEF Gone
<1>8. CASE /\ server.pc = "reply"
           /\ conn[server.conn].toS # <<>> /\ conn[server.conn].toS[1] = <<"logout", 0>>
  <2>1. \/ client.conn = server.conn /\ OnReply
        \/ client.conn # server.conn /\ OffReply
    BY <1>3, <1>8, LineFacts DEF OnLine, OffLine, Talks
  <2>2. Own.toS # <<>> /\ ~IsToken(Own.toS)
    BY <1>8, FirstWords DEF Own
  <2>3. CASE OnReply
    BY <1>3, <2>2, <2>3, ClientFacts, FirstWords DEF OnReply, Said
  <2>4. CASE OffReply
    BY <1>3, <2>2, <2>4 DEF OffReply
  <2> QED BY <2>1, <2>3, <2>4
<1>9. CASE /\ server.pc = "token"
           /\ \E y, m :
                 /\ TokenFields(y, m)
                 /\ \/ m = server.res /\ answer' = [answer EXCEPT ![Len(answer)] = server.fd]
                    \/ m # server.res /\ answer' = [answer EXCEPT ![Len(answer)] = -1]
  <2>1. PICK y, m :
           /\ TokenFields(y, m)
           /\ \/ m = server.res /\ answer' = [answer EXCEPT ![Len(answer)] = server.fd]
              \/ m # server.res /\ answer' = [answer EXCEPT ![Len(answer)] = -1]
    BY <1>9
  <2>2. Matches(server.fd, server.res) /\ server.res # <<>> /\ Len(server.res) = 1
        /\ IsToken(server.res) /\ client.fd # server.fd
    BY <1>3, <1>9, <2>1, TunnelFound
  <2>3. conn[server.fd].toS = server.res
    BY <1>3, <2>1, <2>2 DEF Matches, TokenFields, Cut
  <2>4. m = server.res
    BY <2>1, <2>2, <2>3 DEF TokenFields
  <2>5. answer' = [answer EXCEPT ![Len(answer)] = server.fd] /\ server.fd # -1
    BY <2>1, <2>4, BaseFacts
  <2> QED BY <1>4, <1>5, <2>5
<1>10. CASE UNCHANGED answer
  BY <1>4, <1>5, <1>10
<1> QED BY <1>1, <1>6, <1>7, <1>8, <1>9, <1>10 DEF AnswerSteps

\* The managers do not wait for each other.
LEMMA NobodyBoth == Base /\ Behind /\ Line => NoMutualWait
<1> SUFFICES ASSUME Base, Behind, Line, faults.crash = 0, faults.dial = 0, server.pc = "token",
                    client.pc = "challenge", server.fd = client.conn
             PROVE  FALSE
  BY DEF NoMutualWait
<1>1. \/ client.conn = server.conn /\ OnToken
      \/ client.conn # server.conn /\ OffToken
  BY LineFacts DEF OnLine, OffLine, Talks
<1>2. conn[server.fd].kind = "control"
  BY ClientFacts
<1>3. CASE OnToken
  BY <1>3 DEF OnToken
<1>4. CASE OffToken
  BY <1>2, <1>4 DEF OffToken, Right
<1> QED BY <1>1, <1>3, <1>4

\* The inductive invariant of both managers: what waits in the backlog, where the
\* client has been, and where each of the two is on the connection they share.
Met == Base /\ Order /\ Untouched /\ Behind /\ Line

THEOREM LineInvariance == Spec => []Met
<1>1. Init => Met
  BY InitBase, InitOrder, InitQueues, InitLine DEF Met
<1>2. Met /\ [Next]_vars => Met'
  BY NextBase, NextOrder, NextQueues, NextLine DEF Met
<1> QED BY <1>1, <1>2, PTL DEF Spec

\* The tunnel of a user is a data connection that the client dialled for the request
\* of this user, and no other user has it, for all that the network breaks, however
\* often the server is started again, and through a crash of the client
\* (connectionManager.cpp, the comparison of the two tokens; RightTunnel).
THEOREM OwnTunnels == Spec => []RightTunnel
<1>1. Init => RightTunnel
  BY DEF Init, RightTunnel
<1>2. RightTunnel /\ Met /\ Met' /\ [Next]_vars => RightTunnel'
  BY NextTunnel DEF Met
<1> QED BY <1>1, <1>2, LineInvariance, PTL DEF Spec

\* While the client process stays up, no user is refused before somebody types quit,
\* unless a service speaks first (RefusedOnlyAfterQuit).
THEOREM RefusedLate == Spec => []RefusedOnlyAfterQuit
<1>1. Init => RefusedOnlyAfterQuit
  BY DEF Init, RefusedOnlyAfterQuit, Refused
<1>2. RefusedOnlyAfterQuit /\ Met /\ [Next]_vars => RefusedOnlyAfterQuit'
  BY NextRefused DEF Met
<1> QED BY <1>1, <1>2, LineInvariance, PTL DEF Spec

\* While the client process stays up and no dial of a tunnel fails, the server never
\* waits for the token of a data connection on the connection on which the client
\* waits for a challenge, whatever breaks and is reset (NoMutualWait).
THEOREM NeverBothWait == Spec => []NoMutualWait
<1>1. Met => NoMutualWait
  BY NobodyBoth DEF Met
<1> QED BY <1>1, LineInvariance, PTL
==============================================================================
