------------------------------ MODULE PollTable ------------------------------
(***************************************************************************)
(* The descriptor table of pollDispatcher (dispatcher/pollDispatcher.h and *)
(* .cpp) as a value: the fd members of the pollfd array, the sockMap from  *)
(* descriptors to slots, and totfd.  The readiness bits of the array are   *)
(* written by poll alone and are kept by the modules that model the loop.  *)
(***************************************************************************)
EXTENDS Integers

CONSTANTS Fds,        \* the descriptor numbers the kernel hands out
          MaxClient   \* slots of the table, slot 0 being the listener's

ASSUME FdsAssumption == Fds \subseteq Nat
ASSUME MaxClientAssumption == MaxClient \in Nat \ {0}

NoFd == -1            \* an empty slot

Slots == 0 .. MaxClient - 1

Tables == [fd : [Slots -> Fds \cup {NoFd}], index : [Fds -> Slots], top : Slots]

\* init: only the listener, if there is one.  A descriptor that was never
\* inserted maps to slot 0, which is what operator[] of a std::map yields.
NewTable(listener) ==
    [fd |-> [i \in Slots |-> IF i = 0 THEN listener ELSE NoFd],
     index |-> [f \in Fds |-> 0],
     top |-> 0]

Registered(t) == {t.fd[i] : i \in Slots} \ {NoFd}

IsFree(t, i) == i \in Slots \ {0} /\ t.fd[i] = NoFd

IsFull(t) == \A i \in Slots : ~IsFree(t, i)

\* The slot the search loop of insert stops at.
IsFirstFree(t, i) == IsFree(t, i) /\ \A j \in 1 .. i - 1 : ~IsFree(t, j)

\* Mutants of InsertAt: sockMap, or totfd, is not updated, or counts slots.
InsertUnmapped(t, i, f) ==
    [t EXCEPT !.fd[i] = f, !.top = IF i > t.top THEN i ELSE t.top]
InsertUncovered(t, i, f) == [t EXCEPT !.fd[i] = f, !.index[f] = i]
InsertCounting(t, i, f) == [t EXCEPT !.fd[i] = f, !.index[f] = i, !.top = i + 1]

InsertAt(t, i, f) ==
    [fd |-> [t.fd EXCEPT ![i] = f],
     index |-> [t.index EXCEPT ![f] = i],
     top |-> IF i > t.top THEN i ELSE t.top]

\* remove(f) closes whatever sits in the slot sockMap has for f, and empties
\* the slot; sockMap keeps its entry.
Victim(t, f) == t.fd[t.index[f]]

\* Mutant of Vacate: the slot keeps the number of the closed descriptor.
VacateNothing(t, f) == t

Vacate(t, f) == [t EXCEPT !.fd[t.index[f]] = NoFd]
==============================================================================
