------------------------------ MODULE FifoQueue ------------------------------
(***************************************************************************)
(* What safeQueue promises the two ends of a pipeline: a value that was    *)
(* pushed is handed out exactly once, in the order of the pushes, and a    *)
(* consumer that asked for a value gets one as soon as there is one.       *)
(***************************************************************************)
EXTENDS Naturals, Sequences

CONSTANTS Values,     \* what can be pushed
          None        \* "no value yet", not a member of Values

VARIABLES queue,      \* pushed and not handed out yet, oldest first
          status,     \* of the consumer: "idle", "asked" or "served"
          got         \* what the consumer was last given

fifoVars == <<queue, status, got>>

Init == queue = <<>> /\ status = "idle" /\ got = None

Push(v) == queue' = Append(queue, v) /\ UNCHANGED <<status, got>>

Ask == /\ status = "idle"
       /\ status' = "asked"
       /\ UNCHANGED <<queue, got>>

Serve == /\ status = "asked"
         /\ queue # <<>>
         /\ got' = Head(queue)
         /\ queue' = Tail(queue)
         /\ status' = "served"

Leave == /\ status = "served"
         /\ status' = "idle"
         /\ got' = None
         /\ UNCHANGED queue

Next == (\E v \in Values : Push(v)) \/ Ask \/ Serve \/ Leave

Spec == Init /\ [][Next]_fifoVars /\ WF_fifoVars(Serve)
==============================================================================
