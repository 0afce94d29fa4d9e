------------------------ MODULE PollDispatcherProofs -------------------------
(***************************************************************************)
(* Proofs about PollDispatcher, for every set of descriptor numbers, every *)
(* table size, with or without a listener.  TypeOK, SlotsOpen and          *)
(* IndexFindsSlot are inductive together; the other two rest on them.      *)
(***************************************************************************)
EXTENDS PollDispatcher, PollTableProofs

TableInv == TypeOK /\ SlotsOpen /\ IndexFindsSlot /\ TopCoversSlots

\* The invariant is that of a table whose descriptors are open.
LEMMA TableInvIsTableOK ==
  TableInv <=> TypeOK /\ TableOK(table) /\ Registered(table) \subseteq open
  BY DEF TableInv, TypeOK, SlotsOpen, IndexFindsSlot, TopCoversSlots, TableOK

LEMMA InitTable == Init => TableInv
<1> SUFFICES ASSUME Init PROVE TableInv
  OBVIOUS
<1>1. /\ listener \in Fds \cup {NoFd}
      /\ table = NewTable(listener)
      /\ {listener} \ {NoFd} \subseteq open
  BY ListenersAssumption DEF Init
<1>2. TableOK(table) /\ Registered(table) \subseteq open
  BY <1>1, NewTableOK
<1>3. TypeOK
  BY <1>2 DEF Init, TypeOK, TableOK
<1> QED BY <1>2, <1>3, TableInvIsTableOK

\* insert into the first free slot: the descriptor is open, is registered
\* nowhere yet, and the slot was empty.
LEMMA InsertTable ==
  ASSUME TableInv, NEW f \in Fds, Insert(f), UNCHANGED listener
  PROVE  TableInv'
<1> PICK i \in Slots : IsFirstFree(table, i) /\ table' = InsertAt(table, i, f)
  BY DEF Insert
<1>1. TypeOK /\ TableOK(table) /\ Registered(table) \subseteq open
  BY TableInvIsTableOK
<1>2. f \in Fds \ Registered(table) /\ f \in open
  BY DEF Insert
<1>3. TableOK(table') /\ Registered(table') = Registered(table) \cup {f}
  BY <1>1, <1>2, InsertOK
<1>4. TypeOK'
  BY <1>1, <1>3 DEF Insert, TypeOK, TableOK
<1>5. Registered(table') \subseteq open'
  BY <1>1, <1>2, <1>3 DEF Insert
<1> QED
  BY <1>3, <1>4, <1>5
  DEF TableInv, SlotsOpen, IndexFindsSlot, TopCoversSlots, TableOK

\* remove: the one slot that sockMap names is emptied and what sat there is
\* closed; no other slot holds the same descriptor.
LEMMA RemoveTable ==
  ASSUME TableInv, NEW f \in Fds, Remove(f), UNCHANGED listener
  PROVE  TableInv'
<1>1. TypeOK /\ TableOK(table) /\ Registered(table) \subseteq open
  BY TableInvIsTableOK
<1>2. /\ TableOK(table')
      /\ Registered(table') = Registered(table) \ {Victim(table, f)}
  BY <1>1, VacateOK DEF Remove
<1>3. TypeOK'
  BY <1>1, <1>2 DEF Remove, TypeOK, TableOK
<1>4. Registered(table') \subseteq open'
  BY <1>1, <1>2 DEF Remove
<1> QED
  BY <1>2, <1>3, <1>4
  DEF TableInv, SlotsOpen, IndexFindsSlot, TopCoversSlots, TableOK

\* What happens to descriptors that are not in the table.
LEMMA OutsideTable ==
  ASSUME TableInv, NEW f \in Fds, Open(f) \/ Refuse(f) \/ CloseOther(f),
         UNCHANGED listener
  PROVE  TableInv'
  BY ZenonT(40) DEF TableInv, TypeOK, SlotsOpen, IndexFindsSlot, TopCoversSlots,
         Registered, Open, Refuse, CloseOther

LEMMA StutterTable == TableInv /\ UNCHANGED vars => TableInv'
  BY DEF TableInv, TypeOK, SlotsOpen, IndexFindsSlot, TopCoversSlots,
         Registered, vars

\* The table is consistent whatever the two threads insert and remove.
THEOREM TableConsistent == Spec => []TableInv
<1>1. TableInv /\ [Next]_vars => TableInv'
  BY InsertTable, RemoveTable, OutsideTable, StutterTable DEF Next
<1> QED BY InitTable, <1>1, PTL DEF Spec

\* Type correctness.
THEOREM TypeCorrect == Spec => []TypeOK
<1>1. TableInv => TypeOK
  BY DEF TableInv
<1> QED BY <1>1, TableConsistent, PTL

\* No descriptor is in two slots or in the table after it was closed.
THEOREM SlotsAreOpen == Spec => []SlotsOpen
<1>1. TableInv => SlotsOpen
  BY DEF TableInv
<1> QED BY <1>1, TableConsistent, PTL

\* remove(f) closes f whenever f is registered.
THEOREM IndexIsRight == Spec => []IndexFindsSlot
<1>1. TableInv => IndexFindsSlot
  BY DEF TableInv
<1> QED BY <1>1, TableConsistent, PTL

\* poll is always told about every registered descriptor.
THEOREM TopIsRight == Spec => []TopCoversSlots
<1>1. TableInv => TopCoversSlots
  BY DEF TableInv
<1> QED BY <1>1, TableConsistent, PTL

-----------------------------------------------------------------------------

\* No late remove closes the listener while no insert was refused.
THEOREM ListenerIsKept == Spec => []ListenerKeptUntilFull
<1>1. Init => ListenerKeptUntilFull
  BY SlotsAndFds DEF Init, ListenerKeptUntilFull, NewTable
<1>2. TypeOK /\ ListenerKeptUntilFull /\ [Next]_vars => ListenerKeptUntilFull'
  <2> SUFFICES ASSUME TypeOK, ListenerKeptUntilFull, [Next]_vars
               PROVE  ListenerKeptUntilFull'
    OBVIOUS
  <2>0. /\ table.fd \in [Slots -> Fds \cup {NoFd}]
        /\ table.index \in [Fds -> Slots]
        /\ known \subseteq Fds
    BY DEF TypeOK, Tables
  <2>1. ASSUME NEW f \in Fds, Insert(f), UNCHANGED listener
        PROVE  ListenerKeptUntilFull'
    BY <2>0, <2>1, SlotsAndFds
    DEF Insert, IsFirstFree, IsFree, InsertAt, ListenerKeptUntilFull
  <2>2. ASSUME NEW f \in Fds, Refuse(f) PROVE ListenerKeptUntilFull'
    BY <2>2 DEF Refuse, ListenerKeptUntilFull
  <2>3. ASSUME NEW f \in Fds, Remove(f), UNCHANGED listener
        PROVE  ListenerKeptUntilFull'
    <3>1. /\ table'.fd = [table.fd EXCEPT ![table.index[f]] = NoFd]
          /\ table'.index = table.index
      BY <2>0, <2>3 DEF Remove, Vacate, TypeOK, Tables
    <3>2. table.index[f] # 0 \/ listener = NoFd \/ refused
      BY <2>3 DEF Remove, Removable, ListenerKeptUntilFull
    <3> QED
      BY <2>0, <2>3, <3>1, <3>2, SlotsAndFds
      DEF Remove, ListenerKeptUntilFull
  <2>4. ASSUME NEW f \in Fds, Open(f) \/ CloseOther(f), UNCHANGED listener
        PROVE  ListenerKeptUntilFull'
    BY <2>4 DEF Open, CloseOther, ListenerKeptUntilFull
  <2>5. CASE UNCHANGED vars
    BY <2>5 DEF vars, ListenerKeptUntilFull
  <2> QED BY <2>1, <2>2, <2>3, <2>4, <2>5 DEF Next
<1> QED BY <1>1, <1>2, TypeCorrect, PTL DEF Spec

\* No insert runs over a registered descriptor.
THEOREM NothingOverwritten == Spec => NoOverwrite
<1> DEFINE Kept == \A i \in Slots :
             table.fd[i] # NoFd => table'.fd[i] \in {table.fd[i], NoFd}
<1>1. TypeOK /\ [Next]_vars => [Kept]_vars
  <2> SUFFICES ASSUME TypeOK, Next PROVE Kept
    OBVIOUS
  <2>0. /\ table.fd \in [Slots -> Fds \cup {NoFd}]
        /\ table.index \in [Fds -> Slots]
    BY DEF TypeOK, Tables
  <2>1. ASSUME NEW f \in Fds, Insert(f) PROVE Kept
    BY <2>0, <2>1 DEF Insert, IsFirstFree, IsFree, InsertAt
  <2>2. ASSUME NEW f \in Fds, Remove(f) PROVE Kept
    <3>1. table'.fd = [table.fd EXCEPT ![table.index[f]] = NoFd]
      BY <2>0, <2>2 DEF Remove, Vacate, TypeOK, Tables
    <3> QED BY <2>0, <3>1
  <2>3. ASSUME NEW f \in Fds, Open(f) \/ Refuse(f) \/ CloseOther(f)
        PROVE  Kept
    BY <2>3 DEF Open, Refuse, CloseOther
  <2> QED BY <2>1, <2>2, <2>3 DEF Next
<1> QED BY <1>1, TypeCorrect, PTL DEF Spec, NoOverwrite
==============================================================================
