----------------------------- MODULE DuplexPipe ------------------------------
(***************************************************************************)
(* What a relay promises for the two ends of each connection: what one     *)
(* peer sends arrives at the other once, in order, and nothing else does;  *)
(* and the relay leaves a peer that is still there only after that peer    *)
(* has all that the other one ever sent.                                   *)
(***************************************************************************)
EXTENDS Integers, Sequences

CONSTANTS Conns,      \* connections
          Sides,      \* the two sides of the relay
          Other(_)    \* the other one of two sides

Ends == Sides \X Conns
Opposite(e) == <<Other(e[1]), e[2]>>

VARIABLES sent,       \* how many bytes each peer has sent
          got,        \* the bytes each peer has received
          here,       \* the ends whose peer is connected and sends
          open,       \* the ends the relay holds a descriptor for
          mixed,      \* it lost track of its descriptors: no promise left
          hasty       \* it closed without looking: no promise about closing

vars == <<sent, got, here, open, mixed, hasty>>

Init == /\ sent = [e \in Ends |-> 0]
        /\ got = [e \in Ends |-> <<>>]
        /\ here = {} /\ open = {}
        /\ mixed = FALSE /\ hasty = FALSE

Arrive(e) == /\ here' = here \cup {e}
             /\ open' \in {open, open \cup {e}}
             /\ UNCHANGED <<sent, got>>

Open(e) == /\ open' = open \cup {e}
           /\ UNCHANGED <<sent, got, here>>

Send(e) == /\ e \in here
           /\ sent' = [sent EXCEPT ![e] = @ + 1]
           /\ UNCHANGED <<got, here, open>>

Leave(E) == /\ here' = here \ E
            /\ UNCHANGED <<sent, got, open>>

\* The next n bytes for e, the k-th of which is <<side, connection, k>>.
Following(e, n) == [k \in 1 .. n |-> Opposite(e) \o <<Len(got[e]) + k>>]

\* e's peer receives them, and perhaps they were the last.
Deliver(e) == /\ \E n \in 1 .. sent[Opposite(e)] - Len(got[e]) :
                    got' = [got EXCEPT ![e] = @ \o Following(e, n)]
              /\ open' \in {open, open \ {e}}
              /\ UNCHANGED <<sent, here>>

Close(e) == /\ open' = open \ {e}
            /\ UNCHANGED <<sent, got, here>>

\* Nobody who is still there is left with less than everything.
ClosesLast == \A e \in open \ open' :
                 e \in here => Len(got'[e]) = sent[Opposite(e)]

Next == /\ mixed => mixed'
        /\ hasty => hasty'
        /\ hasty' \/ ClosesLast
        /\ \/ mixed'
           \/ \E e \in Ends : \/ Arrive(e) \/ Open(e) \/ Send(e)
                              \/ Deliver(e) \/ Close(e)
           \/ \E E \in SUBSET Ends : Leave(E)

Spec == Init /\ [][Next]_vars
==============================================================================
