--------------------------- MODULE SafeQueueProofs ---------------------------
(***************************************************************************)
(* Proofs about SafeQueue, for any set of pushing threads and any values.  *)
(* The inductive invariant is Inv: the type invariant carries who holds    *)
(* syncLock, and NoLostWakeup also covers the moment between the predicate *)
(* and the wait.                                                           *)
(***************************************************************************)
EXTENDS SafeQueue, SequenceTheorems, TLAPS

\* Initially nothing is queued and nobody is in an operation.
LEMMA InitInv == Init => Inv
  BY ConsumerAssumption
  DEF Init, Inv, TypeOK, NoLostWakeup, PopFindsValue, Threads, PusherLabels,
      ConsumerLabels

\* A thread that pushes keeps the invariant: between its two steps it is the
\* pending notification that NoLostWakeup asks for.
LEMMA PushInv ==
  ASSUME Inv, NEW t \in Threads,
         Notify(t) \/ \E v \in Values : Enqueue(t, v)
  PROVE  Inv'
<1> USE ConsumerAssumption, NoneAssumption DEF Threads, Goto
<1>1. CASE Notify(t)
  <2>1. TypeOK'
    BY <1>1 DEF Inv, TypeOK, Notify, PusherLabels, ConsumerLabels
  <2>2. NoLostWakeup'
    BY <1>1 DEF Inv, TypeOK, NoLostWakeup, Notify, PusherLabels,
                ConsumerLabels
  <2>3. PopFindsValue'
    BY <1>1 DEF Inv, TypeOK, PopFindsValue, Notify, PusherLabels,
                ConsumerLabels
  <2> QED BY <2>1, <2>2, <2>3 DEF Inv
<1>2. ASSUME NEW v \in Values, Enqueue(t, v) PROVE Inv'
  <2>1. queue' \in Seq(Values) /\ queue' # <<>>
    BY <1>2, AppendProperties DEF Inv, TypeOK, Enqueue
  <2>2. TypeOK'
    BY <1>2, <2>1 DEF Inv, TypeOK, Enqueue, PusherLabels, ConsumerLabels
  <2>3. NoLostWakeup'
    BY <1>2 DEF Inv, TypeOK, NoLostWakeup, Enqueue, PusherLabels
  <2>4. PopFindsValue'
    BY <1>2, <2>1 DEF Inv, TypeOK, PopFindsValue, Enqueue, PusherLabels
  <2> QED BY <2>2, <2>3, <2>4 DEF Inv
<1> QED BY <1>1, <1>2

\* What a pop takes from a non-empty queue.
LEMMA DequeueTakesValue ==
  ASSUME queue \in Seq(Values), queue # <<>>, Dequeue
  PROVE  got' \in Values /\ queue' \in Seq(Values)
  BY HeadTailProperties DEF Dequeue

\* The steps of the consumer keep the invariant.
LEMMA ConsumerInv ==
  ASSUME Inv, SyncPop \/ TryPop \/ SpuriousWakeup \/ Use \/ Popping
  PROVE  Inv'
<1> USE ConsumerAssumption, NoneAssumption
    DEF Threads, Goto, PusherLabels, ConsumerLabels
<1>1. CASE SyncPop
  BY <1>1 DEF Inv, TypeOK, NoLostWakeup, PopFindsValue, SyncPop
<1>2. CASE TryPop
  BY <1>2 DEF Inv, TypeOK, NoLostWakeup, PopFindsValue, TryPop
<1>3. CASE SpuriousWakeup
  BY <1>3 DEF Inv, TypeOK, NoLostWakeup, PopFindsValue, SpuriousWakeup
<1>4. CASE Use
  BY <1>4 DEF Inv, TypeOK, NoLostWakeup, PopFindsValue, Use
<1>5. CASE Pop
  <2>1. got' \in Values /\ queue' \in Seq(Values)
    BY <1>5, DequeueTakesValue DEF Inv, TypeOK, PopFindsValue, Pop
  <2> QED
    BY <1>5, <2>1 DEF Inv, TypeOK, NoLostWakeup, PopFindsValue, Pop
<1>6. CASE LockSync
  BY <1>6 DEF Inv, TypeOK, NoLostWakeup, PopFindsValue, LockSync
<1>7. CASE Predicate
  BY <1>7 DEF Inv, TypeOK, NoLostWakeup, PopFindsValue, Predicate
<1>8. CASE Sleep
  BY <1>8 DEF Inv, TypeOK, NoLostWakeup, PopFindsValue, Sleep
<1>9. CASE LockedPop
  <2>1. got' \in Values /\ queue' \in Seq(Values)
    BY <1>9, DequeueTakesValue DEF Inv, TypeOK, PopFindsValue, LockedPop
  <2> QED
    BY <1>9, <2>1 DEF Inv, TypeOK, NoLostWakeup, PopFindsValue, LockedPop
<1> QED BY <1>1, <1>2, <1>3, <1>4, <1>5, <1>6, <1>7, <1>8, <1>9 DEF Popping

LEMMA StutterInv == Inv /\ UNCHANGED vars => Inv'
  BY DEF vars, Inv, TypeOK, NoLostWakeup, PopFindsValue

LEMMA NextInv == Inv /\ [Next]_vars => Inv'
  BY PushInv, ConsumerInv, StutterInv DEF Next

\* The invariant of safeQueue, for every set of pushers and every bound.
THEOREM InvHolds == Spec => []Inv
<1>1. Init => Inv
  BY InitInv
<1>2. Inv /\ [Next]_vars => Inv'
  BY NextInv
<1> QED BY <1>1, <1>2, PTL DEF Spec

\* Type correctness, and the ownership of syncLock.
THEOREM TypeCorrect == Spec => []TypeOK
<1>1. Inv => TypeOK
  BY DEF Inv
<1> QED BY <1>1, InvHolds, PTL

\* push and sync_pop never leave a value in the queue with the consumer
\* asleep and no notification pending.
THEOREM WakeupsAreNotLost == Spec => []NoLostWakeup
<1>1. Inv => NoLostWakeup
  BY DEF Inv
<1> QED BY <1>1, InvHolds, PTL

\* The boolean that sync_pop and the pollers ignore is always true.
THEOREM PopsFindValues == Spec => []PopFindsValue
<1>1. Inv => PopFindsValue
  BY DEF Inv
<1> QED BY <1>1, InvHolds, PTL
-----------------------------------------------------------------------------
(* Refinement: each step is a step of FifoQueue or a stutter.              *)

LEMMA InitRefines == Init => Fifo!Init
  BY ConsumerAssumption DEF Init, Fifo!Init, Status, Threads

LEMMA StepRefines ==
  ASSUME Inv, [Next]_vars
  PROVE  [Fifo!Next]_(Fifo!fifoVars)
<1> USE ConsumerAssumption
    DEF Threads, Goto, Status, Fifo!fifoVars, PusherLabels, ConsumerLabels
<1>1. ASSUME NEW t \in Threads, Notify(t)
      PROVE  UNCHANGED Fifo!fifoVars
  BY <1>1 DEF Notify, Inv, TypeOK
<1>2. ASSUME NEW t \in Threads, NEW v \in Values, Enqueue(t, v)
      PROVE  Fifo!Push(v)
  BY <1>2 DEF Enqueue, Inv, TypeOK, Fifo!Push
<1>3. CASE SyncPop
  BY <1>3 DEF SyncPop, Inv, TypeOK, Fifo!Next, Fifo!Ask
<1>4. CASE TryPop
  BY <1>4 DEF TryPop, Inv, TypeOK, Fifo!Next, Fifo!Ask
<1>5. CASE SpuriousWakeup \/ LockSync \/ Predicate \/ Sleep
  BY <1>5 DEF SpuriousWakeup, LockSync, Predicate, Sleep, Inv, TypeOK
<1>6. CASE Use
  BY <1>6 DEF Use, Inv, TypeOK, Fifo!Next, Fifo!Leave
<1>7. CASE Pop \/ LockedPop
  BY <1>7 DEF Pop, LockedPop, Dequeue, Inv, TypeOK, PopFindsValue,
              Fifo!Next, Fifo!Serve
<1>8. CASE UNCHANGED vars
  BY <1>8 DEF vars
<1> QED
  BY <1>1, <1>2, <1>3, <1>4, <1>5, <1>6, <1>7, <1>8
  DEF Next, Popping, Fifo!Next

\* safeQueue implements FifoQueue: initial states map to initial states and
\* every step to a step of FifoQueue or to none.
THEOREM RefinesFifo == Spec => ImplementsFifoSteps
<1>1. Init => Fifo!Init
  BY InitRefines
<1>2. Inv /\ [Next]_vars => [Fifo!Next]_(Fifo!fifoVars)
  BY StepRefines
<1> QED
  BY <1>1, <1>2, InvHolds, PTL DEF Spec, ImplementsFifoSteps
==============================================================================
