------------------------------ MODULE SafeQueue ------------------------------
(***************************************************************************)
(* include/safeQueue.h: a std::queue guarded by `mutex`, with a condition  *)
(* variable `consumer` guarded by a second mutex, `syncLock`.              *)
(*                                                                         *)
(* Each critical section of `mutex` contains nothing but the access to the *)
(* std::queue, so it is one step.  `syncLock` is held across several of    *)
(* them by sync_pop, so its owner is part of the state.  The program gives *)
(* every safeQueue any number of pushing threads and one consuming thread; *)
(* the consumer of the server's queue also pushes: connectionManager puts  *)
(* the promise back when the control connection breaks.                    *)
(***************************************************************************)
EXTENDS Naturals, Sequences

CONSTANTS Pushers,    \* the threads that only push
          Consumer,   \* the thread that pops, and may push a value back
          Values,     \* the values that are queued (promises, descriptors)
          None,       \* a default-constructed value: pop returned false
          MaxLen      \* bound: no push starts while this many are queued

ASSUME ConsumerAssumption == Consumer \notin Pushers
ASSUME NoneAssumption == None \notin Values

Threads == Pushers \cup {Consumer}

VARIABLES queue,      \* the std::queue
          syncLock,   \* "held" while the consumer owns it, else "free"
          pc,         \* where each thread is in its operation
          got         \* the consumer's `value` argument

vars == <<queue, syncLock, pc, got>>

Init == /\ queue = <<>>
        /\ syncLock = "free"
        /\ pc = [t \in Threads |-> "idle"]
        /\ got = None

Goto(t, l) == pc' = [pc EXCEPT ![t] = l]

-----------------------------------------------------------------------------
(* push: enqueue under `mutex`, then notify_one under `syncLock`.          *)

\* The consumer may push as well, between two of its own pops.
Enqueue(t, v) ==
    /\ pc[t] = "idle"
    /\ Len(queue) < MaxLen
    /\ queue' = Append(queue, v)
    /\ Goto(t, "notify")
    /\ UNCHANGED <<syncLock, got>>

\* Mutant of Notify: notify_one without taking syncLock.
NotifyUnlocked(t) ==
    /\ pc[t] = "notify"
    /\ pc' = IF pc[Consumer] = "asleep"
             THEN [pc EXCEPT ![t] = "idle", ![Consumer] = "lock"]
             ELSE [pc EXCEPT ![t] = "idle"]
    /\ UNCHANGED <<queue, syncLock, got>>

\* The lock is taken and released around notify_one alone, hence one step,
\* taken when nobody holds it.  A notification without a sleeper is lost.
Notify(t) ==
    /\ pc[t] = "notify"
    /\ syncLock = "free"
    /\ pc' = IF pc[Consumer] = "asleep"
             THEN [pc EXCEPT ![t] = "idle", ![Consumer] = "lock"]
             ELSE [pc EXCEPT ![t] = "idle"]
    /\ UNCHANGED <<queue, syncLock, got>>

-----------------------------------------------------------------------------
(* sync_pop, and the `if (!empty()) pop()` of the polling consumers.       *)

\* Mutant of Dequeue: the front is handed out and stays.
DequeueCopy ==
    IF queue = <<>> THEN UNCHANGED <<queue, got>>
    ELSE got' = Head(queue) /\ UNCHANGED queue

\* The front moves into `value`; with an empty queue pop returns false and
\* `value` keeps what it had.  Both callers ignore the result.
Dequeue ==
    IF queue = <<>> THEN UNCHANGED <<queue, got>>
    ELSE got' = Head(queue) /\ queue' = Tail(queue)

\* sync_pop's first look at the queue, without syncLock.
SyncPop ==
    /\ pc[Consumer] = "idle"
    /\ Goto(Consumer, IF queue = <<>> THEN "lock" ELSE "pop")
    /\ UNCHANGED <<queue, syncLock, got>>

\* A caller that polls (tcpServer's onDispatch) goes on only if there is
\* something in the queue.
TryPop ==
    /\ pc[Consumer] = "idle"
    /\ queue # <<>>
    /\ Goto(Consumer, "pop")
    /\ UNCHANGED <<queue, syncLock, got>>

Pop ==
    /\ pc[Consumer] = "pop"
    /\ Dequeue
    /\ Goto(Consumer, "returned")
    /\ UNCHANGED syncLock

\* unique_lock on syncLock, on entry to the wait and after each wake-up.
LockSync ==
    /\ pc[Consumer] = "lock"
    /\ syncLock = "free"
    /\ syncLock' = "held"
    /\ Goto(Consumer, "predicate")
    /\ UNCHANGED <<queue, got>>

\* The predicate of consumer.wait, evaluated with syncLock held.
Predicate ==
    /\ pc[Consumer] = "predicate"
    /\ Goto(Consumer, IF queue = <<>> THEN "sleep" ELSE "lockedpop")
    /\ UNCHANGED <<queue, syncLock, got>>

\* Mutant of Sleep: the wait keeps the lock.
SleepLocked ==
    /\ pc[Consumer] = "sleep"
    /\ Goto(Consumer, "asleep")
    /\ UNCHANGED <<queue, syncLock, got>>

\* The wait releases syncLock and blocks, atomically.
Sleep ==
    /\ pc[Consumer] = "sleep"
    /\ syncLock' = "free"
    /\ Goto(Consumer, "asleep")
    /\ UNCHANGED <<queue, got>>

\* Mutant of SpuriousWakeup: consumer.wait(lck) without its predicate.
WakeupUnchecked ==
    /\ pc[Consumer] = "asleep"
    /\ syncLock = "free"
    /\ syncLock' = "held"
    /\ Goto(Consumer, "lockedpop")
    /\ UNCHANGED <<queue, got>>

SpuriousWakeup ==
    /\ pc[Consumer] = "asleep"
    /\ Goto(Consumer, "lock")
    /\ UNCHANGED <<queue, syncLock, got>>

LockedPop ==
    /\ pc[Consumer] = "lockedpop"
    /\ Dequeue
    /\ syncLock' = "free"
    /\ Goto(Consumer, "returned")

\* The consumer is done with the value; its next pop starts from a default.
Use ==
    /\ pc[Consumer] = "returned"
    /\ got' = None
    /\ Goto(Consumer, "idle")
    /\ UNCHANGED <<queue, syncLock>>

-----------------------------------------------------------------------------
\* What the consumer does inside a pop once it has started it.
Popping == Pop \/ LockSync \/ Predicate \/ Sleep \/ LockedPop

Next == \/ \E t \in Threads : Notify(t) \/ \E v \in Values : Enqueue(t, v)
        \/ SyncPop \/ TryPop \/ SpuriousWakeup \/ Use
        \/ Popping

\* A thread that has started an operation is scheduled until it is done;
\* nobody has to start one, and no wake-up comes by itself.
Fairness == WF_vars(Popping) /\ \A t \in Threads : WF_vars(Notify(t))

Spec == Init /\ [][Next]_vars /\ Fairness

-----------------------------------------------------------------------------
(* Properties. *)

PusherLabels == {"idle", "notify"}
ConsumerLabels == {"idle", "notify", "pop", "lock", "predicate", "sleep",
                   "asleep", "lockedpop", "returned"}

\* Type invariant; syncLock is held exactly while sync_pop is between the
\* lock and the pop or the wait.
TypeOK ==
    /\ queue \in Seq(Values)
    /\ got \in Values \cup {None}
    /\ pc \in [Threads -> ConsumerLabels]
    /\ \A t \in Pushers : pc[t] \in PusherLabels
    /\ syncLock = IF pc[Consumer] \in {"predicate", "sleep", "lockedpop"}
                  THEN "held" ELSE "free"

\* No wake-up is lost: a consumer that sleeps, or has decided to, while the
\* queue holds a value has a notification on its way, because push enqueues
\* before it takes syncLock and sync_pop decides while holding it.
NoLostWakeup ==
    (pc[Consumer] \in {"sleep", "asleep"} /\ queue # <<>>)
        => \E t \in Pushers : pc[t] = "notify"

\* pop's result is ignored by sync_pop and by the pollers: whenever the
\* consumer is about to pop there is a value, and what it returns with is one.
PopFindsValue ==
    /\ pc[Consumer] \in {"pop", "lockedpop"} => queue # <<>>
    /\ pc[Consumer] = "returned" => got # None

Inv == TypeOK /\ NoLostWakeup /\ PopFindsValue

\* The queue hands out what was pushed, in order and once, and serves a
\* waiting consumer: it implements FifoQueue.
Status == IF pc[Consumer] \in {"idle", "notify"} THEN "idle"
          ELSE IF pc[Consumer] = "returned" THEN "served" ELSE "asked"

Fifo == INSTANCE FifoQueue WITH status <- Status

ImplementsFifo == Fifo!Spec

\* The safety part of the same statement: every step of the queue is a step
\* of FifoQueue or leaves its variables alone.
ImplementsFifoSteps == Fifo!Init /\ [][Fifo!Next]_(Fifo!fifoVars)
==============================================================================
