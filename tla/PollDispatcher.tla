--------------------------- MODULE PollDispatcher ----------------------------
(***************************************************************************)
(* The life of one pollDispatcher table under every order of calls the     *)
(* program can make: the owning thread inserts the descriptors it accepts  *)
(* or takes over, and both relay threads remove descriptors, more than     *)
(* once and late, since nothing tells one thread what the other removed.   *)
(* The kernel reuses the numbers of closed descriptors.                    *)
(***************************************************************************)
EXTENDS PollTable

CONSTANT Listeners    \* what slot 0 may hold: listening sockets, or NoFd

ASSUME ListenersAssumption == Listeners \subseteq Fds \cup {NoFd}

VARIABLES listener,   \* the listening socket, or NoFd (init's isListen): rigid
          table,      \* this dispatcher
          open,       \* the descriptors open in the process
          known,      \* descriptors insert was called with: remove's callers
          refused     \* history: insert found the table full

vars == <<listener, table, open, known, refused>>

\* Other descriptors of the process may be open already.
Init == /\ listener \in Listeners
        /\ table = NewTable(listener)
        /\ open \in SUBSET Fds /\ {listener} \ {NoFd} \subseteq open
        /\ known = {}
        /\ refused = FALSE

\* accept, socket: by this dispatcher's owner or for the other dispatcher.
Open(f) == /\ f \in Fds \ open
           /\ open' = open \cup {f}
           /\ UNCHANGED <<table, known, refused>>

\* insert, when there is room.
Insert(f) ==
    /\ f \in open \ Registered(table)
    /\ \E i \in Slots : /\ IsFirstFree(table, i)
                        /\ table' = InsertAt(table, i, f)
    /\ known' = known \cup {f}
    /\ UNCHANGED <<open, refused>>

\* insert, "server busy": the descriptor is closed; connect() and the relay
\* go on with its number all the same.
Refuse(f) ==
    /\ f \in open \ Registered(table)
    /\ IsFull(table)
    /\ open' = open \ {f}
    /\ known' = known \cup {f}
    /\ refused' = TRUE
    /\ UNCHANGED table

\* What remove is called with: the descriptors this table was once given, and
\* in the relay's second table, which has no listener, also those that still
\* wait in actualfds and the 0 of an unmapped connection.
Removable == IF listener = NoFd THEN Fds ELSE known

\* remove, by either thread, at any time and any number of times.
Remove(f) ==
    /\ f \in Removable
    /\ table' = Vacate(table, f)
    /\ open' = open \ {Victim(table, f)}
    /\ UNCHANGED <<known, refused>>

\* A descriptor of the other dispatcher is closed.
CloseOther(f) ==
    /\ f \in open \ Registered(table)
    /\ open' = open \ {f}
    /\ UNCHANGED <<table, known, refused>>

Next == /\ UNCHANGED listener
        /\ \E f \in Fds : \/ Open(f) \/ Insert(f) \/ Refuse(f)
                          \/ Remove(f) \/ CloseOther(f)

Spec == Init /\ [][Next]_vars

-----------------------------------------------------------------------------
(* Properties. *)

TypeOK == /\ listener \in Listeners
          /\ table \in Tables
          /\ open \subseteq Fds
          /\ known \subseteq Fds
          /\ refused \in BOOLEAN

\* Every descriptor in the table is open and sits in one slot: no double
\* close, no poll of a number that belongs to somebody else by now.
SlotsOpen ==
    /\ Registered(table) \subseteq open
    /\ \A i, j \in Slots :
          table.fd[i] = table.fd[j] => i = j \/ table.fd[i] = NoFd

\* sockMap finds the slot of every registered descriptor, whatever was
\* removed twice or reused before: removing it closes it and nothing else.
IndexFindsSlot ==
    \A i \in Slots : table.fd[i] # NoFd => table.index[table.fd[i]] = i

\* totfd never excludes an occupied slot from poll.
TopCoversSlots == \A i \in Slots : table.fd[i] # NoFd => i <= table.top

\* Until the table has been full once, no call of remove, however late,
\* reaches the listener's slot.
ListenerKeptUntilFull ==
    \/ refused
    \/ /\ table.fd[0] = listener
       /\ \A f \in known : table.index[f] # 0

\* Only remove takes a descriptor out of the table, and it leaves the slot
\* empty: no insert runs over a live connection.
NoOverwrite ==
    [][\A i \in Slots :
          table.fd[i] # NoFd => table'.fd[i] \in {table.fd[i], NoFd}]_vars
==============================================================================
