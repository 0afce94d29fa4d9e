--------------------------- MODULE PollTableProofs ---------------------------
(***************************************************************************)
(* What insert and remove do to a descriptor table, for every set of       *)
(* descriptor numbers and every table size: lemmas for the modules whose   *)
(* state holds such tables.                                                *)
(***************************************************************************)
EXTENDS PollTable, TLAPS

\* A table as poll and remove expect it: one slot for each descriptor, sockMap
\* finds that slot, and totfd covers it.
TableOK(t) ==
    /\ t \in Tables
    /\ \A i, j \in Slots : t.fd[i] = t.fd[j] => i = j \/ t.fd[i] = NoFd
    /\ \A i \in Slots : t.fd[i] # NoFd => t.index[t.fd[i]] = i
    /\ \A i \in Slots : t.fd[i] # NoFd => i <= t.top

\* Slot 0 exists and no descriptor is mistaken for an empty slot.
LEMMA SlotsAndFds == 0 \in Slots /\ Slots \subseteq Nat /\ NoFd \notin Fds
  BY FdsAssumption, MaxClientAssumption DEF Slots, NoFd

\* The members of a table are functions.
LEMMA TableFields ==
  ASSUME NEW t \in Tables
  PROVE  /\ t.fd \in [Slots -> Fds \cup {NoFd}]
         /\ t.index \in [Fds -> Slots] /\ t.top \in Slots
         /\ Registered(t) \subseteq Fds
  BY DEF Tables, Registered

\* init makes a table with at most the listener in it.
LEMMA NewTableOK ==
  ASSUME NEW l \in Fds \cup {NoFd}
  PROVE  /\ TableOK(NewTable(l))
         /\ Registered(NewTable(l)) = {l} \ {NoFd}
         /\ \A i \in Slots : NewTable(l).fd[i] = IF i = 0 THEN l ELSE NoFd
<1>1. /\ NewTable(l) \in Tables
      /\ \A i \in Slots : NewTable(l).fd[i] = IF i = 0 THEN l ELSE NoFd
  BY SlotsAndFds DEF NewTable, Tables
<1>2. TableOK(NewTable(l))
  BY <1>1, SlotsAndFds DEF TableOK, NewTable
<1> QED BY <1>1, <1>2, SlotsAndFds DEF Registered

\* insert of an open descriptor that is not registered yet.
LEMMA InsertOK ==
  ASSUME NEW t, TableOK(t), NEW i \in Slots, IsFirstFree(t, i),
         NEW f \in Fds \ Registered(t)
  PROVE  /\ TableOK(InsertAt(t, i, f))
         /\ i # 0 /\ t.fd[i] = NoFd
         /\ InsertAt(t, i, f).fd = [t.fd EXCEPT ![i] = f]
         /\ Registered(InsertAt(t, i, f)) = Registered(t) \cup {f}
<1> DEFINE u == InsertAt(t, i, f)
<1>0. /\ t \in Tables /\ t.fd \in [Slots -> Fds \cup {NoFd}]
      /\ t.index \in [Fds -> Slots] /\ t.top \in Slots
      /\ i # 0 /\ t.fd[i] = NoFd
      /\ \A j \in Slots : t.fd[j] # f
  BY SlotsAndFds DEF TableOK, Tables, IsFirstFree, IsFree, Registered
<1>1. /\ u.fd = [t.fd EXCEPT ![i] = f]
      /\ u.index = [t.index EXCEPT ![f] = i]
      /\ u.top = IF i > t.top THEN i ELSE t.top
      /\ u \in Tables
  BY <1>0 DEF InsertAt, Tables
<1>2. \A j, k \in Slots : u.fd[j] = u.fd[k] => j = k \/ u.fd[j] = NoFd
  BY <1>0, <1>1 DEF TableOK
<1>3. \A j \in Slots : u.fd[j] # NoFd => u.index[u.fd[j]] = j
  BY <1>0, <1>1, SlotsAndFds DEF TableOK
<1>4. ASSUME NEW j \in Slots, u.fd[j] # NoFd PROVE j <= u.top
  <2>0. i \in Int /\ j \in Int /\ t.top \in Int
    BY <1>0, MaxClientAssumption DEF Slots
  <2>1. j = i \/ j <= t.top
    BY <1>0, <1>1, <1>4 DEF TableOK
  <2> QED BY <2>0, <2>1, <1>1
<1>5. Registered(u) = Registered(t) \cup {f}
  <2>1. u.fd[i] = f /\ \A j \in Slots : j # i => u.fd[j] = t.fd[j]
    BY <1>0, <1>1
  <2> QED BY <2>1, <1>0, SlotsAndFds DEF Registered
<1> QED BY <1>0, <1>1, <1>2, <1>3, <1>4, <1>5 DEF TableOK

\* remove empties at most the slot of what it closes: of the descriptor it is
\* called with, if that is registered.
LEMMA VacateOK ==
  ASSUME NEW t, TableOK(t), NEW f \in Fds
  PROVE  /\ TableOK(Vacate(t, f))
         /\ Victim(t, f) \in Fds \cup {NoFd}
         /\ Victim(t, f) \in Registered(t) \cup {NoFd}
         /\ f \in Registered(t) => Victim(t, f) = f
         /\ Registered(Vacate(t, f)) = Registered(t) \ {Victim(t, f)}
         /\ \A i \in Slots :
               Vacate(t, f).fd[i] = IF t.fd[i] = Victim(t, f) THEN NoFd ELSE t.fd[i]
<1> DEFINE u == Vacate(t, f)
           i == t.index[f]
<1>0. /\ t \in Tables /\ t.fd \in [Slots -> Fds \cup {NoFd}]
      /\ t.index \in [Fds -> Slots] /\ t.top \in Slots
      /\ i \in Slots /\ Victim(t, f) = t.fd[i]
  BY DEF TableOK, Tables, Victim
<1>1. /\ u.fd = [t.fd EXCEPT ![i] = NoFd]
      /\ u.index = t.index /\ u.top = t.top
      /\ u \in Tables
  BY <1>0 DEF Vacate, Tables
<1>2. TableOK(u)
  BY <1>0, <1>1 DEF TableOK
<1>3. f \in Registered(t) => Victim(t, f) = f
  BY <1>0 DEF TableOK, Registered
<1>4. Registered(u) = Registered(t) \ {t.fd[i]}
  <2>1. \A j \in Slots : j # i => u.fd[j] = t.fd[j]
    BY <1>0, <1>1
  <2>2. \A j \in Slots : t.fd[j] = t.fd[i] /\ t.fd[j] # NoFd => j = i
    BY <1>0 DEF TableOK
  <2>3. u.fd[i] = NoFd
    BY <1>0, <1>1
  <2> QED BY <1>0, <2>1, <2>2, <2>3 DEF Registered
<1>5. \A j \in Slots : u.fd[j] = IF t.fd[j] = t.fd[i] THEN NoFd ELSE t.fd[j]
  <2>1. \A j \in Slots : t.fd[j] = t.fd[i] => j = i \/ t.fd[j] = NoFd
    BY <1>0 DEF TableOK
  <2> QED BY <1>0, <1>1, <2>1
<1> QED BY <1>0, <1>1, <1>2, <1>3, <1>4, <1>5 DEF Registered
==============================================================================
