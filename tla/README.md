# A verification project for cppproxy

cppproxy maps a port of a host inside a private network to a port of a public
host. A *server* process on the public host listens to users; a *client* process
inside dials *tunnels* (plain TCP connections) to the server and connects each
one to the local service. `src/server.cpp` and `src/client.cpp` start the same
two threads of management and relay in their two roles; `TCPSERVER` decides at
compile time whether the relay carries TCP or UDP.

This directory holds TLA+ modules of the parts with the program's own logic, the
TLC configurations that check them, and TLAPS proofs.

    tlc -config MCSafeQueue.cfg MCSafeQueue     # any MC module with its .cfg
    tlapm SafeQueueProofs.tla                   # the proofs: any ...Proofs module

`PROJECT.json` maps every definition to the lines it models, and lists the runs,
for every property of a passing run a *mutant* (a definition and a broken form
of it, kept beside it and called "Mutant of ..." there) that violates it, the
findings, the hazards and the theorems.

## 1. Inventory

The threads of a process, and what they share:

    server process                          client process
      manageThread  connectionManager         manageThread  clientConnectionManager
      proxyThread   users                      proxyThread   local service
      netThread     tunnels                    netThread     tunnels
      main          runs netThread             main          reads "quit"

    proxyThread --push(promise)--> safeQueue --sync_pop--> manageThread   (server)
    manageThread --promise::set_value(tunnel)--> proxyThread              (server)
    manageThread --push(promise that holds a tunnel)--> safeQueue
                             --empty/pop--> proxyThread                   (client)
    proxyThread --push(tunnel)--> actualfds --empty/pop--> netThread      (both)
    proxyThread <--rwLock: maps, write buffers, removed sets--> netThread (both)

| component | state | operations | hard behaviour | what makes it correct |
|---|---|---|---|---|
| **safeQueue** `include/safeQueue.h` | a `std::queue`, two mutexes, a condition variable | `push`, `pop`, `sync_pop`, `empty` | wake-ups, two locks, an ignored result of `pop` | no wake-up lost, values once and in order |
| **pollDispatcher** `dispatcher/pollDispatcher.*` | `clientfd[]`, `sockMap`, `totfd` | `init`, `doDispatch`, `connect`, `insert`, `remove` | entries of `sockMap` that are never erased; removals twice and late; reuse of numbers; a full table | a slot per open descriptor, found by the map, seen by poll; the listener stays |
| **TCP relay** `tcpServer.cpp` | the two maps between descriptors, a write buffer (chunks, offset) per descriptor and side, the removed sets | `onConnect`, `onDispatch`, `onRead`, `onWrite` of two threads | two loops over shared state, stale readiness, partial writes, half-closed pairs, reuse of numbers | bytes in order and in their connection; pairs close together and not before the data is out; everything is delivered |
| **connection managers** `connectionManager.cpp`, `clientConnectionManager.cpp` | the control connection, the queue of promises, `quit` | handshake, CONNECT, token, data connection, logout, reconnect | one port for control and data connections; broken pipes seen by one end first; reads that return more than one message; crash and restart | each promise is answered, once, with its own tunnel; no mutual wait; quit ends the client |
| **UDP relay** `udpServer.cpp` | as the TCP relay, plus the cache of a datagram that arrives in pieces | as the TCP relay, with framing | frames cut and glued by TCP; a socket and a tunnel per datagram on the port; the port shared while a socket is set up; `remove` called with a slot's number | datagrams come out whole, once, in order, and in the tunnel of their user |
| **filter chain** `hook/filter.h` | per descriptor: the cache of what is yet to be written | `write`, `reset` | partial writes; the relay's retries; NOTUSED and REUSED | nothing lost, repeated or filtered twice |
| **HTTP filters** `hook/http/` | per descriptor: the message that is not complete | `filter`, `reset`, parsers | messages cut at any place; state of a closed descriptor | messages leave whole |
| **TLS filters** `hook/https/` | per user a manager: two OpenSSL state machines on memory BIOs | `filter`, `writeProxy`, `writeClient` | two handshakes, either of which may end first; chunks offered again; managers that outlive their connection | text without gaps; no handshake given up; every user is answered |
| JSON parser `json/jsonParser.*` | none | parse, print | errors end the program at its start | - |
| serialization, registries, config | tables filled before `main` | lookup | none | - |
| foreign filters `hook/thirdParty`, `rust/` | loaded libraries | glue | none of its own | - |
| winSelectDispatcher | an `fd_set` and a list | the same interface as pollDispatcher | the same | - |
| thread pool `threadPool.cpp` | - | - | never instantiated | - |
| proxyGUI, md5Helper, example filters, build files, certificates | - | - | - | - |

The hazards of `PROJECT.json` give the lines behind the column of hard
behaviour, with the properties that would notice.

## 2. Modules

| module | models | role |
|---|---|---|
| `FifoQueue` | - | what a queue with one consumer promises: an abstract specification |
| `SafeQueue` | `include/safeQueue.h` | lock by lock; implements `FifoQueue` |
| `SafeQueueProofs` | - | theorems about `SafeQueue` |
| `PollTable` | the table of `pollDispatcher` as a value | used by all that have tables |
| `PollTableProofs` | - | lemmas about that table, used by the proofs of all that have tables |
| `PollDispatcher` | `insert` and `remove` under every caller | the abstract specification of a table in the relay |
| `PollDispatcherProofs` | - | theorems about `PollDispatcher` |
| `DuplexPipe` | - | what a relay promises to the two peers of each connection: an abstract specification |
| `TcpServer` | `tcpServer::doProxy` and `doDispatch` in both roles, kernel and peers | composes two tables, each of which implements `PollDispatcher`; implements `DuplexPipe` |
| `TcpServerProofs` | - | theorems about `TcpServer` |
| `ConnectionManager` | the two managers, their connections, the queue of promises, `quit`, crash and restart of each process | composes both processes |
| `ConnectionManagerProofs` | - | theorems about `ConnectionManager` |
| `UdpFraming` | the framing of `udpServer.cpp` from `onRead` of one process to the socket of the other | |
| `UdpFramingProofs` | - | theorems about `UdpFraming` |
| `UdpServer` | sockets, tables, maps and buffers of `udpServer::doProxy` in both roles | composes two tables, each of which implements `PollDispatcher` |
| `UdpServerProofs` | - | theorems about `UdpServer` |
| `HttpFilter` | `filter<T>::write` with one HTTP filter, as the relay's `onWrite` calls it | |
| `HttpFilterProofs` | - | theorems about `HttpFilter` |
| `TlsFilter` | the same with the two TLS filters, `SSLManager`, and the TLS ends of a connection | |
| `MC...` | - | instances for TLC |

### SafeQueue

Each of the two mutexes is explicit where it orders something. `lock` covers
`Enqueue` and `Dequeue`, one step each, since nothing else happens under it;
`syncLock` is a variable, since it orders the consumer's look at the queue
against `Notify`. The consumer is the server's manager thread, which also pushes
(it puts a promise back), or one of the pollers (`TryPop`: `if
(!queue.empty()) queue.pop(...)`). `SpuriousWakeup` is what
`condition_variable::wait` allows. `got` is the variable `pop` fills: `None`
stands for the default-constructed value a failed `pop` leaves.

### PollTable, PollDispatcher

A table is a record: `fd` (the `fd` members of `clientfd`), `index` (`sockMap`,
a total function, because `operator[]` yields 0 for an absent key), `top`
(`totfd`). `PollDispatcher` lets any number of removals happen, with any
descriptor the table was ever given (`known`), whatever became of it: that is
what two relay threads can do to a table, since nothing tells one what the other
has removed. `listener` is a rigid variable, chosen among `Listeners`: one run
has tables of both kinds. In a table without a listener - netThread's - they can
also name descriptors that were never inserted. `Open` and `CloseOther` are the rest
of the process: numbers are reused. What the code does on a full table -
close the descriptor and go on with its number - is `Refuse`.

### TcpServer

One state machine for both roles: `listener` never changes, and where it is
`NoFd` this is the client. A *side* is
a thread with its dispatcher, "proxy" or "net"; a descriptor is open on an end
`<<side, connection>>`. Per side there is the program counter `pc` of
`doDispatch` and the callbacks:

    poll -> (dispatch) -> scan -> read [-> blocked] [-> lost] -> write -> scan ...
                               -> insert -> await -> scan          (proxy only)

`onRead` and `onWrite` hold `rwLock` from first to last, so each is one step,
with these exceptions. A `read` of a silent open socket blocks *and keeps the
lock* (`ReadBlocks`); and the two removals after a failed read are two steps
(`Lose`, `LosePartner`), because the other thread's `accept` and `insert` take
no lock and can use the number that was freed in between. The slot is looked at
again between `onRead` and `onWrite`, as `doDispatch` does; the build (`-O3`)
loads `clientfd[i].fd` once for the two uses between which nothing is called.
`rev` is `revents`: what `poll` wrote, or, in a slot beyond `totfd` at the time,
whatever was there (`FreshBits`).

Bytes are `<<side, connection, position>>`, so a byte that goes astray is seen.
A failed `write` adds -1 to the offset, as in the code; what a later write in
front of the chunk would send is `Junk`.

The environment is part of the module: users arrive, managers hand over tunnels
or -1, peers send, end or reset their streams. `peer` is what the kernel would
tell of a connection: "fin" (reads return 0), "rst" (the next read *or write*
returns the pending error and takes it, `Reported`) and "dead" (reads return 0,
writes fail: after that error, after a reset that follows the end of the
stream, and after `shutdown`). netThread ignores a read that returns 0, so which
call gets the error decides whether a tunnel is closed. The loop after -1 shuts
down what the map's entries name: all pairs, and any of the users without a
tunnel that `onRead` made an entry for (`Uncoupled`). Sockets are always
writable: see section 7.

History variables: `inserted` is `known` of each table; `seen` records
"stale" (a number was given out while a map, a buffer or a removed set of
the relay still mentioned it; a map entry counts while its key is `Routed`: in the
table, or on its way into it, and not about to get another partner), "late" (a
number was given out that a thread will close: `doDispatch` hands `onRead` the
descriptor before `onRead` waits for `rwLock`; when the other thread closes that
descriptor meanwhile, the late `onRead` fails and closes what its map entry
names, whoever has the number now), "early" (a user left while its tunnel was
still in `actualfds`) and the full tables. They do not influence the steps.

`DuplexPipe` says what all of this is for: a peer receives what the peer at the
other end of its connection sent, from the first byte on and nothing else; and
the relay closes a descriptor whose peer is still there only when that peer has
everything the other one *ever* sent. The refinement mapping reads `open` off the
descriptors and `here` off the peers. `mixed` and `hasty` are the two ways out,
mapped to the history: once a number was reused too early, the pipe promises
nothing, and in the other recorded cases (`~Usual(seen)`) nothing about closing.

### ConnectionManager

A connection is a record with what is in flight in each direction and what each
end would see after it (`open`, `fin`, `gone`, `broken`). A read returns a
non-empty prefix of the messages that have arrived, so several messages in one
read occur; part of a message does not (a few bytes written by one call). An end
of stream is the empty result `<<>>`, which the code takes for a message in
several places, and so does the model. `-1` is `Error`; where it is passed to
`std::string(buf, n)` the process ends. `NetworkBreaks` breaks one end of a
connection first and loses any suffix of what is in flight: of the client's
control connection, in its handshake or after it (`Break`), or of a tunnel's
connection until the server has read its token (`Reset`). `KeepAlive` breaks the
other end of a control connection later; a connection that the server took for a
tunnel's has no keepalive at its end. The network can also let fail what is
dialled: a reconnect (`ClientConnect`: the client ends), a tunnel (`ClientDial`:
the client goes back to reading, the server, which has its token, stays in
`accept`) and the connection of the quit command (`WakeFails`). `faults` counts
each kind; the properties name those they do not survive. `Crash` and `Restart`
are the client process's; tokens start again after a restart, as the sequence of
`rand()` does, which is not seeded. `ServerCrash` takes the queue, the
connections and the users with it (their promises are `Gone`); connections the
client has dialled end, and after `ServerRestart` the port is there again. A
client that dials in between finds no server: at its control connection it ends,
at a tunnel it goes on.

### UdpFraming, UdpServer

`UdpFraming` keeps datagrams as sequences of bytes with their length in front;
every write and read of the tunnel may cut them anywhere, within `MaxLine`.

`UdpServer` keeps a datagram as `<<peer, number, length>>` and a frame as a whole,
and has what `UdpFraming` leaves out: where a datagram goes. The kernel gives it
to a socket that is connected to its sender, otherwise to any that has the port:
the listener, or - between `bind` and `connect` - the socket of another user
("stolen"). A datagram at the listener takes four steps (`Receive`,
`ConnectUser`, `TakePromise`, `Push`), between which netThread and the kernel go
on; the other calls of `onRead` and `onWrite` are one step each, of any slot that
is ready, so that every order in which `doDispatch` could come to them is there.
`remove` is called with the slot's *number* (`Removed`), which the table takes for
a descriptor; nothing else ever closes a socket, so numbers run out, the users'
table fills (`Refuse` of the table), and a user that is turned away is coupled
with a tunnel all the same. A pending error and `shutdown` are flags of the
socket: both are consumed or seen by `read` and `write` as the kernel does.
"stale" says here that a number came back while a buffer, or the map entry of an
open descriptor, mentioned it; in a client also while the number itself still
had a partner. A client gets to `Receive` and `ConnectUser` when the number of
its listening socket has come back as another socket's; it then waits for no
promise. A `recvfrom` on the number of the listener with an error pending is not
modelled: its -1 goes into `std::string(buf, n)`, and the process ends.

### HttpFilter, TlsFilter

`HttpFilter` keeps messages as units: two halves of a head, and text. The parser
is abstracted to what it decides: whether there is anything of a head's shape -
units of text can have it too, `Lookalikes` - and where it ends. The number
that the filter compares with the length of what follows, `atoi(value + 1)`, is a
constant, `ContentLength`, by the unit that ends the head. It need not be the
length of the text: it is not in the response to HEAD, in a 304, and where the
value does not begin with a blank. `TlsFilter` has the same constant by message.

`TlsFilter` has a user and a service that speak TLS 1.2 (the managers' contexts
refuse 1.3), and between them a manager with its two halves. OpenSSL is
a *script*: the flights a half must read in their order, and what it says when
one is complete. Text is <<connection, message, part>>, so lost, doubled and
foreign text is seen. `WriteReused` and `WriteProxy` are the two branches of
`writeProxy`; `NOTUSED`, `REUSED` and the exception differ in what
`filter::write` makes of the chunk: done, kept, or done without having been
written. The manager is the one `cache` finds for the tunnel's number.

## 3. Runs

Every passing run explores its whole state space. Sizes are distinct states.

| run | instance | checks |
|---|---|---|
| `safe_queue` | 2 pushers, a consumer that pushes too, 2 values, at most 3 queued | `TypeOK`, `NoLostWakeup`, `PopFindsValue`, `ImplementsFifo` |
| `poll_table` | 4 descriptors, 3 slots, with and without a listener | `TypeOK`, `SlotsOpen`, `IndexFindsSlot`, `TopCoversSlots`, `ListenerKeptUntilFull` |
| `relay` | both roles, 1 connection, 2 bytes from the user or service, 1 back; ends, resets and an absent peer anywhere; any bits in fresh slots; fair; 305 thousand | `TypeOK`, `ImplementsPipe`, `Delivery`, `Teardown`, `ImplementsTables` |
| `relay_server_2` | server, 2 users, 1 byte each, users leave, tunnels reset or are refused; symmetric in the users; 1.3 million | `NoMixing`, `PairsCloseTogether` |
| `relay_full` | the same, one slot for users | **violates** `ListenerSurvives` |
| `manage` | 2 users, 8 connections, a break of the control connection or a reconnect that fails, one more fault (a crash and restart of either process, a tunnel that fails or is reset, a failing wake-up), quit, a service that speaks first; fair; 984 thousand | `TypeOK`, `NoMutualWait`, `Survives`, `RefusedOnlyAfterQuit`, `RequestKept`, `RightTunnel`, `Answered`, `QuitEnds` |
| `manage_port` | 2 users, no failure, a service that speaks first; fair | **violates** `PortMapped` |
| `udp_framing` | datagrams of 5, 0, 2 and 3 bytes, reads of at most 6; fair | `TypeOK`, `WholeDatagrams`, `AllDelivered` |
| `udp_glued` | datagrams of 2 and 1 bytes | **violates** `TakenApart` |
| `udp_relay` | both roles, 2 peers that send 2 and 1 datagrams, 3 tunnels with a reply each, 3 slots; empty datagrams, unreachable peers, absent client, tunnels that end; fair; 301 thousand | `TypeOK`, `NoMixing`, `OnceInOrder`, `Forwarded`, `Replied`, `ImplementsTables` |
| `http_filter` | 2 connections of 3 messages, one with a wrong length, text that looks like a head, chunks of at most 3, writes of at most 2; fair; 957 thousand | `TypeOK`, `NothingLost`, `Delivered` |
| `tls_filter` | 2 connections of 2 requests, a response with a wrong length, 2 numbers for users and 2 for tunnels, flights and messages of 2 units, reads and writes of at most 3; fair; 54 thousand | `TypeOK`, `NoGaps`, `NoReset`, `Served` |

What they show, beyond the names:

- **The queue.** `push` notifies under `syncLock` after it has enqueued. A
  consumer that sleeps on a non-empty queue therefore always has a notification
  on the way (`NoLostWakeup`), although enqueueing itself happens outside that
  lock. Notifying without it is the mutant that loses a wake-up. The unchecked
  result of `pop` is never false (`PopFindsValue`), because each queue has one
  consumer. `ImplementsFifo` includes the fairness of `FifoQueue`: while
  values are queued, a consumer that waits is served.
- **The table.** `sockMap` keeps entries of descriptors that were closed, and
  `remove` trusts it. It works because a number is only inserted again after
  its entry is overwritten, and an entry of a descriptor that is gone points to
  a slot whose occupant is at worst closed early by a removal that names the
  old number - which the relay's properties then have to exclude. What
  the table guarantees by itself is that slots hold open descriptors, one each
  (`SlotsOpen`), that the map finds them (`IndexFindsSlot`), and that
  slot 0 is out of reach until the table has been full
  (`ListenerKeptUntilFull`).
- **The relay.** `NoMixing` relates what a peer received to what the other peer
  of the *same* connection sent; `PairsCloseTogether` says that when one
  half of a pair is closed, the other one is being closed or is marked to be when
  its buffer is drained, and has something in it (whether it drains is up to its
  peer);
  `ImplementsPipe` is the refinement of `DuplexPipe`: order, identity and
  closing in one, for every interleaving of the two threads and the
  peers. `Delivery` and `Teardown` are the same promises as progress. The
  exceptions are written into the properties ("stale", "late", "early", a full
  table) and are consequences of the code; all but "late" occur in the runs.
  `Teardown` has one more, `Leaked`: a tunnel that takes no more bytes, whose
  error went to a failed write or which the loop after -1 shut down, and which
  still has bytes in its buffer. Its user's leaving only marks it as removed, no
  write drains it, its reads return 0, and it stays open for ever.
- **The managers.** `RequestKept` says that a promise that is not answered is in
  the queue or in the manager's hand, exactly once, through every broken pipe.
  `RightTunnel` says that the tunnel of a user was dialled for that user; with
  two restarts of the client, two ends of streams can be compared as tokens and
  it fails, so it is stated for one. A restart of the server refuses nobody and
  gives nobody a foreign tunnel, although the client takes the end of the stream
  for a request and dials a tunnel, which the new server then accepts as a
  control connection: its answer to the challenge is the token, and is wrong.
  `NoMutualWait` is a deadlock between two processes: the server waiting for a
  token on the connection where the client waits for the challenge. What these
  promise ends where the code does, and every exception was dropped once to see
  the run violate the property:
  - a tunnel that cannot be dialled (`faults.dial`) leaves the server in `accept`
    with the promise in hand. The user is not answered, a quit is not seen, and
    when the control connection breaks as well, the server takes the client's next
    one for the tunnel and both wait: excluded from `Answered`, `QuitEnds` and
    `NoMutualWait`. `RightTunnel`, `RequestKept`, `RefusedOnlyAfterQuit` and
    `Survives` hold through it;
  - a tunnel that is reset before its token was read (`faults.reset`) makes
    `std::string(buffer, -1)` throw, or, if the server is not told, keeps it in
    `read`: excluded from `Survives`, `Answered` and `QuitEnds`;
  - a reconnect while the network is down, or a break in the handshake
    (`faults.handshake`), ends a process: excluded from `Survives`;
  - a connection of the quit command that fails (`faults.wake`) leaves the client
    in `read`: excluded from `QuitEnds`.
- **The UDP relay.** `remove(index)` closes another user's socket, or the
  listener, and leaves the failed one in its slot. `ImplementsTables`
  says that the table stays a table all the same, and `NoMixing` that a tunnel
  still carries the datagrams of one user. `OnceInOrder` is about the users whose
  second datagram arrives before their socket is connected: they get two sockets
  and two tunnels, and no datagram goes through both, nor does a reply come back
  twice. It promises the order only until a number is in use again that the
  relay still has data or a partner for ("stale" in `seen`): then two sockets of
  one user may share a tunnel, and the second datagram overtakes the first. (The
  run's three tunnels are too few for that; with five, datagrams leave as 2, 4,
  3.) `Forwarded` and `Replied`
  are the liveness of the two directions. Datagrams are forwarded even for a user
  that has no place in the table; replies to it are not.
- **TLS.** `NoGaps` compares what each end decrypts with what the other one
  sent: the chunk that `REUSED` offers again is neither lost nor encrypted
  twice. `Served` says that both handshakes finish and all requests are
  answered, in either order of the halves. Both exclude what the code does not
  handle, each reachable in the run: text in the chunk that finishes the user's
  handshake is dropped by a client half that is not ready ("early"); what the
  service's side of the socket does not take under `REUSED` or `NOTUSED` is lost
  ("lost"); a user's flight that arrives in two chunks leaves the server half's
  reply in its BIO until the service says something, which it may never do
  ("cut"); and a new connection with the numbers of an old one inherits its
  manager or its held message ("stale"). A message that announces a length it
  does not have is held for ever, and the user waits for it (`Misread`).
  `NoReset` says that an inherited manager is the only way to a failed
  `SSL_accept`.
- **Framing, filter.** Datagrams and messages come out whole whatever the cuts,
  with the cases excluded that the code does not handle: a read that ends inside
  a length (`aborted`), one that goes past the end of a cached datagram
  (`glued`), text that runs into the next message (`Overrun`), a number in the
  head that is not the length of the text, or text taken for a head (`Misread`),
  and state inherited from a closed descriptor (`stale`).

### Bounds, and why they are enough

- *safe_queue*: a lost wake-up needs one pusher between two steps of the
  consumer; two pushers give every overtaking of two notifications. `MaxLen`
  bounds the queue only; TLAPS proves the same for any bound.
- *poll_table*: three slots, one the listener's, and four numbers make full
  tables, reuse of a number in another slot and removal by a stale entry
  happen. TLAPS proves it for every size.
- *relay*: two slots for one connection and three for two, one being the
  listener's: the table is not full with the connections of the run, except in
  `relay_full`. `Fds` starts with 0, standard input, because the maps yield 0
  for unknown keys and the code then reads, writes and removes 0. Two bytes with
  `MaxLine = 2` give one chunk of two, two chunks of one and partial writes.
  `MinOffset = -1` follows one failed write; further ones change the offset
  only. Two connections are enough for reuse of a number during the life of
  another connection. They are not enough for "late": one connection must end, a
  second take one of its numbers, and a third be there to lose. That case was
  found by the proof, not by the runs, and the proof covers it. `Teardown` is in
  the run of one connection; that `Leaked` also covers what the loop after -1
  does to the pair of *another* user was checked once with two, by
  `relay_server_2`'s constants without its symmetry, under `FairSpec` (2.4
  million states, nine minutes, no error), which is too long for a run that is
  repeated. `StaleOrNot` lets the slots that were never polled hold either bit
  pattern of a slot in use; with `Zeroed` they hold what the allocator gives for
  a fresh page.
- *managers*: two users, because a second promise is pushed only after the first
  is answered, and the second meets the state the first one left. The
  number of connections is chosen so that no run is cut off by it. `MaxBreak = 1`
  and `MaxFault = 1` allow one break of a control connection together with one
  fault of another kind, which is what the deadlock after a failed dial takes;
  the theorems are for any number of both.
- *udp_framing*: a datagram longer than what a read can take with its
  header, an empty one, and short ones, of which several fit in a read.
- *udp_relay*: one user with two datagrams and one with one give two sockets for
  one user, a stolen datagram, and a third user for two free slots. The
  listener is descriptor 2, so that slot numbers are also descriptors: of
  standard output, of the listener, and of the first user's socket. Three
  tunnels are as many as datagrams; the tunnels' table never fills at this size.
- *tls_filter*: two units per flight, so that each can be cut, and reads of three,
  so that a chunk can hold the end of one flight and what follows; two
  connections, so that each number can come back with the same or another
  partner; three of the requests and responses announce their length, one more
  response a wrong one.
- *http_filter*: messages with a Content-Length, the last one among them, so that
  nothing comes after it to push it out, and one without. The last message of the
  second connection announces more than it has; a unit of the first one's text
  passes for the end of a head.

### Fairness

- `SafeQueue`: each step a thread can take is weakly fair, but not
  `SpuriousWakeup` and not calling `push`: liveness does not rest on them.
- `TcpServer`: the two threads are scheduled, and a promise is fulfilled, which
  is what `manage` shows (`Answered`). Peers are not fair: they may
  send nothing more and stay for ever.
- `ConnectionManager`: both managers are scheduled; keepalive (the code sets
  `SO_KEEPALIVE` and its intervals) finds a dead connection; a client that
  crashed is started again, and so is a server; the quit command makes its
  connection, or finds no server. Users, breaks, connects that the network lets
  fail, resets and crashes are not fair: no property is saved by a fault that has
  to happen.
- `UdpServer`: both threads run, each of whose callbacks is called again while a
  socket is ready; a server's promise is fulfilled. Peers, tunnels of the client
  and faults are not fair.
- `TlsFilter`: the relay goes on reading and calling `onWrite` on both sides.
- `UdpFraming`: both threads run and TCP delivers. `HttpFilter`: the relay goes
  on calling `onWrite`, because the socket stays writable.

Deadlock is checked where the system cannot stop (the queue, the table, the
relay: its threads poll for ever). It is not checked for the managers,
which rightly wait for users or have ended after quit, nor for the UDP and
filter modules, where all input was sent in the end.

## 4. Findings

1. **A full table can cost the listener** (`relay_full`, `ListenerSurvives`).
   `insert` closes the new descriptor when there is no slot, but `connect`
   returns its number all the same and `onConnect` couples it with a tunnel.
   When that tunnel fails, `remove(number)` finds no entry in `sockMap`, takes
   slot 0 and closes the listening socket: the server runs on and never accepts
   again.
2. **A service that speaks first can block the managers** (`manage_port`,
   `PortMapped`). One read of the data connection can return the token and the
   first bytes of the service. The comparison fails, the server goes back to
   `accept` without closing the control connection, on which the client waits.
3. **A read that glues a cached datagram to the next frame**
   (`udp_glued`, `TakenApart`). The byte count becomes negative and never zero
   again; this tunnel delivers nothing more.

Excluded by a named condition in a property and visible when it is dropped: a
partner closed by an `onRead` that comes too late ("late"; it takes three
connections to see), the assertion on a cut length (`UdpFraming!aborted`), write
buffers and held messages inherited with a descriptor number (`stale`), the end
of a process by `std::string(buf, -1)` in the handshake (`faults.handshake`) or
for a tunnel that is reset (`faults.reset`), the server left in `accept`
(`faults.dial`), a tunnel that nothing closes (`Leaked`), text longer than
announced (`Overrun`) and announced wrongly (`Misread`), a datagram that reaches
the socket of another user before `connect` (`stolen`), and the four of the TLS
filters above. No doc, comment or test of the repository speaks of these, so
they are hazards and not findings.

## 5. Proofs

`TLAPS` proves the following for every value of the constants.

**SafeQueueProofs**, from `ConsumerAssumption` (the consumer is not among the
pushers) and `NoneAssumption`. The invariant `Inv` is `TypeOK`,
`NoLostWakeup` and `PopFindsValue`. None is inductive alone:
`NoLostWakeup` needs from `TypeOK` who holds `syncLock`, and it must also speak
of the moment when the predicate was false and the consumer does not sleep yet,
because that is when a notification would be lost; `PopFindsValue` needs
that nobody else takes a value. `PushInv` and `ConsumerInv` have a step per
action. The theorems are `TypeCorrect`, `WakeupsAreNotLost`, `PopsFindValues`,
and `RefinesFifo`: each step of the queue is a step of `FifoQueue` or a stutter
under the refinement mapping.

**PollDispatcherProofs**, from `FdsAssumption`, `MaxClientAssumption`,
`ListenersAssumption`. The invariant `TableInv` is `TypeOK /\ SlotsOpen /\
IndexFindsSlot /\ TopCoversSlots`. That slots hold open descriptors is inductive
only with `IndexFindsSlot`: `remove(f)` closes what is in slot `index[f]`, and
only the uniqueness of slots says that this descriptor is in no other. The
theorems are `TypeCorrect`, `SlotsAreOpen`, `IndexIsRight`, `TopIsRight`,
`ListenerIsKept` (with an invariant of its own: entries of known descriptors are
never 0 before the table was full) and `NothingOverwritten`, an action
property.

**PollTableProofs** has what those proofs and the next ones know about a table
as a value, from `FdsAssumption` and `MaxClientAssumption` only: what
`InsertAt`, `Vacate` and `Victim` do to the set of registered descriptors and to
`TableOK`.

**TcpServerProofs**, from the assumptions of `PollTable` and `TcpServer`. The
invariant `IInv` has ten parts. `Types`, `InHand` (what each thread holds at each
`pc`), `Sockets` (an end is open on one descriptor; each table holds ends of its
side) and `Pending0` (tunnels on their way) hold whatever happens. `Known` says
what the maps can mention, as `remove` expects it. `Births` is the life
of a connection: which of its ends can exist, and have been read or written,
by where its user and tunnel are. `Held` (what a thread has in its hand is in
its table, or closed), `Routing` (a descriptor's partner is the other end of the
*same* connection, or no end at all when that one is not open) and `Streams` hold
until a number comes back too early. `Streams` is what makes `NoMixing`
inductive: the chunks of a buffer are consecutive bytes of the opposite end, the
last is the last one read, and the first continues, at the offset, what the peer
has. `Invariance`, `TypeCorrect` and `NothingMixed` are for both roles, any
number of connections, bytes, descriptors and slots, and every interleaving of
the two threads. `Refinement` is `Spec => ImplementsTables`: every step of the
relay is a step of `PollDispatcher`, or a stutter, at each of its two tables, so
that the theorems about the table hold of both.

`BothHalvesClose` (`PairsCloseTogether`) adds `Pairs == Grip /\ (Usual(seen) =>
Paired /\ Orphans /\ Newcomers /\ Behind)`. `Grip`: the slot that `sockMap` has
for the descriptor in a thread's hand is its own or was emptied meanwhile, and not
the listener's, so that `remove` closes this descriptor or nothing. `Paired` is
the property, but for all descriptors in use and not only those in a table.
It is not inductive alone: a descriptor waits because somebody means to close it
(`Doomed`: it is in a removed set, or the partner of what a thread has just
removed), and it must not be one whose other half is still open (`Orphans`);
what is about to be coupled must not be doomed already (`Newcomers`); and a thread
that comes to its `onRead` after the other one closed its descriptor must find the
partner closed as well (`Behind`). `Grip` holds whatever happens, the rest as
long as everything goes as usual. The proof attempt changed the model twice:
`Behind` failed for the "late" reuse above, which no run of two connections
shows; and the mark "stale" was set by every second connection that reuses a pair of
numbers in sequence, since the entry that `onConnect` is about to overwrite
counted as a mention. `Routed` excludes that entry, so that the properties now
promise something about those connections too.

`PipeRefinement` (`Spec => ImplementsPipe`) is the refinement of `DuplexPipe`.
Order and identity follow from `Streams`; what it takes beyond that is
`ClosesLast`. Its invariant is `Usual(seen) => Dry`: the other half of a doomed
descriptor was read to its end and its peer will send nothing more. When the buffer
of the doomed one is empty, `Streams` then says that its peer has everything. A
failed read or write that takes a pending error leaves a peer as far away as it
was (`ReportedOnly`), so it moves no end of the pipe.

**ConnectionManagerProofs**, from `ConnectionManagerAssumption`. `Base` is
`Types /\ Numbers /\ Hands /\ Kept`. `Kept` is `RequestKept` by cases of the
manager's place, and needs `Hands` (there is a request in the hand exactly at
four places), which in turn needs that the client's connection is the last
control connection dialled. `TypeCorrect` and `NoneDropped` follow from
`BaseInvariance`. `InOrder` adds `Order`: the backlog is sorted, all in it are
younger than what the server has in its hand or gave away, so no connection is
accepted or given to a user twice (the last conjunct of `RightTunnel`).
`NeitherEnds` is `Spec => []Survives`. `Survives` by itself says nothing of the
connections, so `Going` does, while nobody quits, no process crashes, no
handshake is broken or fails to connect, and no tunnel is reset before its token
was read (`Calm`, which once false stays false): what the server may read a token
from does not break; the only control connection the server can have before
its answer is read, or take for a data connection, is the client's, in a
handshake; and `Handshake` is how far that is, step by step, with what is on its
way in both directions. It needs `Order`: a connection in the backlog is in
nobody's hands yet.

`LineInvariance` is about both managers when connections do break and processes
do crash. Its invariant is `Met == Base /\ Order /\ Untouched /\ Behind /\
Line`. `Untouched`: to a connection nobody has accepted, only the client wrote,
and only on a data connection. `Behind`: the client is on the last control
connection dialled, all older ones are over for it, and once it was served on
one, all that waits in the backlog is younger. `Line` says, for each place of
the server, what is on its way on the control connection it holds, what the
backlog begins with, and where the client is - when it is on the same connection
(`On...`) and when it is not (`Off...`: it closed it, or it crashed). After a
crash of the client the backlog can hold a control connection that the server
takes for a data connection, and both wait; `Fresh` and `Stuck` describe that.
After a tunnel that could not be dialled it can too: `Lost` says that the
server's token has come and its connection never will, and what is first in the
backlog then is `Blank`, a control connection nothing will be read on. `Line` is
stated up to the first crash of the client, like `RightTunnel`; the bounds
`MaxFault` and `MaxBreak` may be any number. From `Met` follow `OwnTunnels`
(`RightTunnel`: when the two tokens agree, the connection in hand was dialled
for the request in hand; a token answers one request, and the connection is in
nobody else's hand), `RefusedLate` (`RefusedOnlyAfterQuit`: without a crash of
the client, the tokens agree, so that -1 has another reason) and `NeverBothWait`
(`NoMutualWait`: without a crash of the client and a dial that failed, the
server's `token` is always at a data connection).

**UdpFramingProofs**, from `UdpFramingAssumption`. What a read returns is cut
anywhere, so the invariant speaks of the bytes nobody has parsed as a *piece* of
the stream (`Piece`): from each of them on, what is left of its frame follows,
then the next frame, and behind the end comes the byte netThread writes next. It
is written in this closed form, not byte by byte, because no induction is needed
then to know what a read of `n` bytes contains. `Reading` ties it to the reader:
the next byte begins the datagram that is due, or continues the one in the
cache. Dropping bytes at the front (`RestOfPiece`, `Taken`) and writing more at
the back (`MorePiece`) keep it. `TypeCorrect` and `Whole`
(`Spec => []WholeDatagrams`) are for any datagrams, empty ones too, and every
`MAXLINE`.

**UdpServerProofs**, from the assumptions of `PollTable` and `UdpServer`. `Base`
(types, what each table may hold, what `proxyThread` holds at each `pc`, the
tunnels on their way, a descriptor per tunnel) holds whatever goes wrong;
`TypeCorrect` and `Refinement` follow from it alone: even with `remove` called
with slot numbers, both tables stay tables. The invariant for `NoMixing` is
`IInv == Base /\ (Clean => Apart)`: until a number came back too early or a
datagram was stolen, *each tunnel has one peer* (`Routed`), and all that leads to
the tunnel or away from it - what it took, its buffer, the sockets whose map
entry names it, the socket its own entry names, the datagram in the hand of
`proxyThread` - is that peer's (`IsFor`). `NoMixing` alone is not inductive,
because a server's tunnel has no owner before its first datagram; `Setup` covers
the steps between the arrival of that datagram and the moment the maps know.

`OnceInOrderAlways` is about `out` and `got` only, but a repetition or an
overtaking could come from any queue on the way, so its invariant `Queued` is
about all of them: the inboxes of the sockets, both write buffers, the datagram
in the hand of `proxyThread`, what went out and what came back. `Counted` holds
whatever goes wrong: no unit is in two places, and all have been sent (which
makes the next one new). `Inflow` also does: what waits at a socket is younger
than what was read from it. Until "stale", `Coupling` says that the socket and
the tunnel which feed each other do so in both directions and that nobody else
does, and `Outward` and `Homeward` follow the two directions: what was written
is older than what is in the buffer, and that is older than what waits at the
socket. Each step moves a unit from the front of one queue to the end of
another, or drops some; `OnceMoved` and `Joining` say once what that does to
`Once` and to the order. `QueuesInOrder` is the theorem that `Queued` holds.

**HttpFilterProofs**, from the assumptions of `HttpFilter`. What is on its way is a
sequence of sequences, and the property speaks of its concatenation, so the
lemmas about `FlattenSeq` come first: its first chunk, its last, its length. They
are proved by induction in the form this prover takes - the set of lengths for
which the claim fails has no smallest element (`NatLessThanWellFounded`,
`WFMin`). `NothingLost` is not inductive: while the filter's cache is not empty,
the chunk it was made of must still be at the front of the relay's queue, or its
units would be counted twice when `write` is called again; and a message that is
held must have its head. `IInv == Shaped /\ Bounded /\ (~stale /\ ~dead => Whole)`
says so, and bounds the queue by what was read, which `TypeOK` needs.

Only model-checked:

- all liveness, and `ImplementsFifo` where it contains fairness (its safety part
  is `RefinesFifo`): ENABLED is out of this prover's reach;
- `TypeOK`, `NoGaps` and `NoReset` of `TlsFilter`: no theorems yet (section 8);
- that the excluded cases are reachable: a theorem cannot show it, the runs do.

The modules have no RECURSIVE operator. Where one of them computes over a sequence
of any length (`FlattenSeq`), the induction is over a set of numbers, as above.

## 6. What a reader should know about the abstraction

- Data races on `std::map` (the maps of the relay are written by `proxyThread`
  without `rwLock`) are undefined behaviour with no bounded set of outcomes; the
  model makes the two entries of a pair one step.
- The dispatcher pointers are null until both relay threads have started; the
  model starts after that.
- Payload bytes carry their origin and no contents; wording, logging and layout
  are left out; passwords and digests are right or wrong.

## 7. Not modelled, and why

- Writes that block: relay sockets are blocking, and a peer that reads nothing
  stops the thread and with it `rwLock`, and so the relay for all. The models'
  peers read what they are sent; with peers that do not, no liveness is left to
  state.
- OpenSSL beyond the order of its flights: alerts, renegotiation, sessions. A
  TLS service that speaks before its user (a null pointer in
  `httpsClientFilter.cpp:4`) ends the process.
- Several filters in one chain, the rewriting rules of `commonFilter` and the
  example filters: string editing without state.
- The JSON parser: it reads one configuration file before any thread is
  started, and an error ends the program there. Serialization, the
  registries and the dynamic loader run before `main` and never change later.
- winSelectDispatcher: another platform, whose descriptors and readiness the
  modules' kernel does not describe.
- Foreign filters and Rust (glue), md5Helper (a call of OpenSSL), the thread pool
  (never instantiated), the GUI (starts the client).

## 8. Plan

Done: queue, table, TCP relay and its pipe, managers with restarts of both
processes, UDP framing and UDP relay, HTTP and TLS filters; all safety properties
of these are theorems, except those of the TLS filters.

Next: `NoReset` of `TlsFilter`, whose invariant ties a manager to the numbers of
the connection it was made for, and `NoGaps` with it; a run of `TcpServer` with
three connections and a bounded environment, for the reuse marked "late"; then
writes that block (section 7), as a model of their own.
