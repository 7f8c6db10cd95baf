-------------------------- MODULE SyncQueueProofs ---------------------------
(***************************************************************************)
(* Proofs about SyncQueue, for any threads, values and number of pushes:   *)
(* the mutex serialises the operations, no wakeup is lost, and the class   *)
(* implements AtomicQueue.                                                 *)
(***************************************************************************)
EXTENDS SyncQueue, FiniteSetTheorems, SequenceTheorems, TLAPS

\* Exactly the holder of lock_ is between lock and unlock.
LockInv == \A t \in Thread : pc[t] \in Inside <=> lock = t

\* A thread in push has its argument.
ArgInv == \A t \in Thread : pc[t] \in {"push_lock", "push"} => arg[t] \in Value

\* A pop past its test has a nonempty queue, and what it read from the back
\* is still at the back when it removes the front.
PopInv == \A t \in Thread :
             /\ pc[t] \in {"back", "pop"} => queue # <<>>
             /\ pc[t] = "pop" => ret[t] = back(queue)

IInv == /\ TypeOK
        /\ LockInv
        /\ ArgInv
        /\ PopInv
        /\ QueueIsBacklog
        /\ TakenWerePushed
        /\ NoLostWakeup

-----------------------------------------------------------------------------
(* Facts about the operators. *)

\* The operations of QueueOps keep sequences sequences.
LEMMA QueueOpsType ==
  ASSUME NEW S, NEW q \in Seq(S)
  PROVE  /\ \A v \in S : push(q, v) \in Seq(S) /\ Len(push(q, v)) = Len(q) + 1
         /\ q # <<>> => /\ back(q) \in S
                        /\ pop_front(q) \in Seq(S)
                        /\ Len(pop_front(q)) = Len(q) - 1
BY DEF push, back, pop_front

\* A push at the end extends both the history and its unconsumed rest.
LEMMA BacklogPush ==
  ASSUME NEW S, NEW p \in Seq(S), NEW n \in Nat, n <= Len(p), NEW v \in S
  PROVE  push(SubSeq(p, n + 1, Len(p)), v)
           = SubSeq(Append(p, v), n + 1, Len(Append(p, v)))
<1> DEFINE L == push(SubSeq(p, n + 1, Len(p)), v)
           R == SubSeq(Append(p, v), n + 1, Len(Append(p, v)))
<1>1. L \in Seq(S) /\ R \in Seq(S) BY DEF push
<1>2. Len(L) = Len(p) - n + 1 /\ Len(R) = Len(p) - n + 1 BY DEF push
<1>3. \A i \in 1..Len(p) - n + 1 : L[i] = R[i] BY DEF push
<1> QED BY <1>1, <1>2, <1>3, SeqEqual

\* Taking the front off the unconsumed rest is consuming one value more.
LEMMA BacklogPop ==
  ASSUME NEW S, NEW p \in Seq(S), NEW n \in Nat, n < Len(p)
  PROVE  pop_front(SubSeq(p, n + 1, Len(p))) = SubSeq(p, n + 2, Len(p))
BY HeadTailOfSubSeq DEF pop_front

\* One thread more among the helpers ...
LEMMA AddHelper ==
  ASSUME NEW H \in SUBSET Thread, NEW t \in Thread, t \notin H
  PROVE  Cardinality(H \cup {t}) = Cardinality(H) + 1
BY ThreadAssumption, FS_Subset, FS_AddElement

\* ... and one thread less.
LEMMA RemoveHelper ==
  ASSUME NEW H \in SUBSET Thread, NEW t \in H
  PROVE  Cardinality(H \ {t}) = Cardinality(H) - 1
BY ThreadAssumption, FS_Subset, FS_RemoveElement

\* The helpers are finitely many.
LEMMA HelperCount ==
  ASSUME NEW H \in SUBSET Thread
  PROVE  Cardinality(H) \in Nat
BY ThreadAssumption, FS_Subset, FS_CardinalityType

\* There is a value to take off only if there was one push more than pops.
LEMMA BacklogLength ==
  ASSUME TypeOK, QueueIsBacklog, queue # <<>>
  PROVE  Len(taken) < Len(pushed)
BY DEF TypeOK, QueueIsBacklog

-----------------------------------------------------------------------------
(* The parts of IInv other than TakenWerePushed and NoLostWakeup. *)

Safe == TypeOK /\ LockInv /\ ArgInv /\ PopInv /\ QueueIsBacklog

\* The queue starts empty, with all threads outside it.
LEMMA InitIInv == Init => IInv
<1> SUFFICES ASSUME Init PROVE IInv OBVIOUS
<1> USE DEF Init
<1>1. TypeOK BY DEF TypeOK, Point
<1>2. LockInv BY ThreadAssumption DEF LockInv, Inside
<1>3. ArgInv /\ PopInv BY DEF ArgInv, PopInv
<1>4. QueueIsBacklog BY DEF QueueIsBacklog
<1>5. NoLostWakeup BY DEF NoLostWakeup, Waiters
<1>6. TakenWerePushed BY DEF TakenWerePushed
<1> QED BY <1>1, <1>2, <1>3, <1>4, <1>5, <1>6 DEF IInv

\* The thread that steps.
LEMMA NextCases ==
  ASSUME Next
  PROVE  \E t \in Thread :
           \/ \E v \in Value : CallPush(t, v)
           \/ CallPop(t)
           \/ CallPopNonblocking(t)
           \/ Lock(t)
           \/ Enqueue(t)
           \/ Signal(t)
           \/ SpuriousWake(t)
           \/ Park(t)
           \/ ReturnNull(t)
           \/ FoundNonempty(t)
           \/ ReadBack(t)
           \/ RemoveFront(t)
           \/ Unlock(t)
BY ThreadAssumption DEF Next, Step

\* Each action keeps the types, the mutual exclusion, what the threads know
\* about their operands, and the queue as the rest of the history.
LEMMA NextSafe ==
  ASSUME Safe, Next
  PROVE  Safe'
<1> PICK t \in Thread :
           \/ \E v \in Value : CallPush(t, v)
           \/ CallPop(t)
           \/ CallPopNonblocking(t)
           \/ Lock(t)
           \/ Enqueue(t)
           \/ Signal(t)
           \/ SpuriousWake(t)
           \/ Park(t)
           \/ ReturnNull(t)
           \/ FoundNonempty(t)
           \/ ReadBack(t)
           \/ RemoveFront(t)
           \/ Unlock(t)
      BY NextCases
<1> USE ThreadAssumption DEF Safe, TypeOK, Goto, Point, Asking, Inside
<1>1. CASE \E v \in Value : CallPush(t, v)
  <2>1. TypeOK' BY <1>1 DEF CallPush
  <2>2. LockInv' BY <1>1 DEF CallPush, LockInv
  <2>3. ArgInv' /\ PopInv' BY <1>1 DEF CallPush, ArgInv, PopInv, LockInv
  <2>4. QueueIsBacklog' BY <1>1 DEF CallPush, QueueIsBacklog
  <2> QED BY <2>1, <2>2, <2>3, <2>4
<1>2. CASE CallPop(t)
  <2>1. TypeOK' BY <1>2 DEF CallPop
  <2>2. LockInv' BY <1>2 DEF CallPop, LockInv
  <2>3. ArgInv' /\ PopInv' BY <1>2 DEF CallPop, ArgInv, PopInv, LockInv
  <2>4. QueueIsBacklog' BY <1>2 DEF CallPop, QueueIsBacklog
  <2> QED BY <2>1, <2>2, <2>3, <2>4
<1>3. CASE CallPopNonblocking(t)
  <2>1. TypeOK' BY <1>3 DEF CallPopNonblocking
  <2>2. LockInv' BY <1>3 DEF CallPopNonblocking, LockInv
  <2>3. ArgInv' /\ PopInv' BY <1>3 DEF CallPopNonblocking, ArgInv, PopInv, LockInv
  <2>4. QueueIsBacklog' BY <1>3 DEF CallPopNonblocking, QueueIsBacklog
  <2> QED BY <2>1, <2>2, <2>3, <2>4
<1>4. CASE Lock(t)
  <2>1. TypeOK' BY <1>4 DEF Lock, AfterLock
  <2>2. LockInv' BY <1>4 DEF Lock, AfterLock, LockInv
  <2>3. ArgInv' /\ PopInv' BY <1>4 DEF Lock, AfterLock, ArgInv, PopInv, LockInv
  <2>4. QueueIsBacklog' BY <1>4 DEF Lock, AfterLock, QueueIsBacklog
  <2> QED BY <2>1, <2>2, <2>3, <2>4
<1>5. CASE Enqueue(t)
  <2>1. /\ arg[t] \in Value
        /\ queue' = push(queue, arg[t]) /\ pushed' = Append(pushed, arg[t])
        /\ UNCHANGED <<lock, arg, ret, taken>>
        /\ pc' = [pc EXCEPT ![t] = "signal"]
    BY <1>5 DEF Enqueue, ArgInv
  <2>2. queue' \in Seq(Value) BY <2>1, QueueOpsType
  <2>3. TypeOK' BY <2>1, <2>2
  <2>4. LockInv' /\ ArgInv' BY <1>5, <2>1 DEF Enqueue, LockInv, ArgInv
  <2>5. PopInv' BY <1>5, <2>1 DEF Enqueue, LockInv, PopInv
  <2>6. QueueIsBacklog'
    BY <2>1, BacklogPush DEF QueueIsBacklog
  <2> QED BY <2>3, <2>4, <2>5, <2>6
<1>6. CASE Signal(t)
  <2>1. TypeOK' BY <1>6 DEF Signal, Waiters
  <2>2. LockInv' BY <1>6 DEF Signal, Waiters, LockInv
  <2>3. ArgInv' /\ PopInv' BY <1>6 DEF Signal, Waiters, ArgInv, PopInv, LockInv
  <2>4. QueueIsBacklog' BY <1>6 DEF Signal, Waiters, QueueIsBacklog
  <2> QED BY <2>1, <2>2, <2>3, <2>4
<1>7. CASE SpuriousWake(t)
  <2>1. TypeOK' BY <1>7 DEF SpuriousWake
  <2>2. LockInv' BY <1>7 DEF SpuriousWake, LockInv
  <2>3. ArgInv' /\ PopInv' BY <1>7 DEF SpuriousWake, ArgInv, PopInv, LockInv
  <2>4. QueueIsBacklog' BY <1>7 DEF SpuriousWake, QueueIsBacklog
  <2> QED BY <2>1, <2>2, <2>3, <2>4
<1>8. CASE Park(t)
  <2>1. TypeOK' BY <1>8 DEF Park
  <2>2. LockInv' BY <1>8 DEF Park, LockInv
  <2>3. ArgInv' /\ PopInv' BY <1>8 DEF Park, ArgInv, PopInv, LockInv
  <2>4. QueueIsBacklog' BY <1>8 DEF Park, QueueIsBacklog
  <2> QED BY <2>1, <2>2, <2>3, <2>4
<1>9. CASE ReturnNull(t)
  <2>1. TypeOK' BY <1>9 DEF ReturnNull
  <2>2. LockInv' BY <1>9 DEF ReturnNull, LockInv
  <2>3. ArgInv' /\ PopInv' BY <1>9 DEF ReturnNull, ArgInv, PopInv, LockInv
  <2>4. QueueIsBacklog' BY <1>9 DEF ReturnNull, QueueIsBacklog
  <2> QED BY <2>1, <2>2, <2>3, <2>4
<1>10. CASE FoundNonempty(t)
  <2>1. TypeOK' BY <1>10 DEF FoundNonempty
  <2>2. LockInv' BY <1>10 DEF FoundNonempty, LockInv
  <2>3. ArgInv' /\ PopInv' BY <1>10 DEF FoundNonempty, ArgInv, PopInv, LockInv
  <2>4. QueueIsBacklog' BY <1>10 DEF FoundNonempty, QueueIsBacklog
  <2> QED BY <2>1, <2>2, <2>3, <2>4
<1>11. CASE ReadBack(t)
  <2>1. TypeOK' BY <1>11, QueueOpsType DEF ReadBack, PopInv
  <2>2. LockInv' BY <1>11 DEF ReadBack, LockInv
  <2>3. ArgInv' /\ PopInv' BY <1>11 DEF ReadBack, ArgInv, PopInv, LockInv
  <2>4. QueueIsBacklog' BY <1>11 DEF ReadBack, QueueIsBacklog
  <2> QED BY <2>1, <2>2, <2>3, <2>4
<1>12. CASE RemoveFront(t)
  <2>1. /\ queue # <<>> /\ ret[t] = back(queue)
        /\ queue' = pop_front(queue) /\ taken' = Append(taken, ret[t])
        /\ UNCHANGED <<lock, arg, ret, pushed>>
        /\ pc' = [pc EXCEPT ![t] = "unlock"]
    BY <1>12 DEF RemoveFront, PopInv
  <2>2. queue' \in Seq(Value) /\ taken' \in Seq(Value) BY <2>1, QueueOpsType
  <2>3. TypeOK' BY <2>1, <2>2
  <2>4. LockInv' /\ ArgInv' BY <1>12, <2>1 DEF RemoveFront, LockInv, ArgInv
  <2>5. PopInv' BY <1>12, <2>1 DEF RemoveFront, LockInv, PopInv
  <2>6. QueueIsBacklog'
    BY <2>1, BacklogPop, BacklogLength DEF QueueIsBacklog
  <2> QED BY <2>3, <2>4, <2>5, <2>6
<1>13. CASE Unlock(t)
  <2>1. TypeOK' BY <1>13 DEF Unlock
  <2>2. LockInv' BY <1>13 DEF Unlock, LockInv
  <2>3. ArgInv' /\ PopInv' BY <1>13 DEF Unlock, ArgInv, PopInv, LockInv
  <2>4. QueueIsBacklog' BY <1>13 DEF Unlock, QueueIsBacklog
  <2> QED BY <2>1, <2>2, <2>3, <2>4
<1> QED BY <1>1, <1>2, <1>3, <1>4, <1>5, <1>6, <1>7, <1>8, <1>9, <1>10, <1>11, <1>12, <1>13

\* A pop hands out the newest value, which is at least as new as the one that
\* it removes; a push leaves the values before it where they are.
LEMMA NextTaken ==
  ASSUME Safe, TakenWerePushed, Next
  PROVE  TakenWerePushed'
<1>0. taken \in Seq(Value) /\ pushed \in Seq(Value) BY DEF Safe, TypeOK
<1> PICK t \in Thread :
           \/ \E v \in Value : CallPush(t, v)
           \/ CallPop(t)
           \/ CallPopNonblocking(t)
           \/ Lock(t)
           \/ Enqueue(t)
           \/ Signal(t)
           \/ SpuriousWake(t)
           \/ Park(t)
           \/ ReturnNull(t)
           \/ FoundNonempty(t)
           \/ ReadBack(t)
           \/ RemoveFront(t)
           \/ Unlock(t)
      BY NextCases
<1>1. CASE Enqueue(t)
  <2>1. /\ arg[t] \in Value /\ pushed' = Append(pushed, arg[t])
        /\ taken' = taken
    BY <1>1 DEF Enqueue, Safe, ArgInv
  <2>2. /\ Len(pushed') = Len(pushed) + 1
        /\ \A j \in 1..Len(pushed) : pushed'[j] = pushed[j]
    BY <1>0, <2>1
  <2> QED BY <1>0, <2>1, <2>2 DEF TakenWerePushed
<1>2. CASE RemoveFront(t)
  <2>1. /\ queue # <<>> /\ ret[t] = back(queue)
        /\ taken' = Append(taken, ret[t]) /\ pushed' = pushed
    BY <1>2 DEF RemoveFront, Safe, PopInv
  <2>2. Len(taken) < Len(pushed) BY <2>1, BacklogLength DEF Safe
  <2>3. ret[t] = pushed[Len(pushed)]
    <3> DEFINE n == Len(taken)
    <3>1. queue = SubSeq(pushed, n + 1, Len(pushed)) BY DEF Safe, QueueIsBacklog
    <3>2. n \in Nat /\ Len(pushed) \in Nat /\ n < Len(pushed) BY <1>0, <2>2
    <3> HIDE DEF n
    <3>3. /\ Len(queue) = Len(pushed) - n
          /\ \A k \in 1..Len(pushed) - n : queue[k] = pushed[n + k]
      BY <1>0, <3>1, <3>2
    <3>4. Len(pushed) - n \in 1..Len(pushed) - n /\ n + (Len(pushed) - n) = Len(pushed)
      BY <3>2
    <3> QED BY <2>1, <3>3, <3>4 DEF back
  <2>4. /\ Len(taken') = Len(taken) + 1 /\ taken'[Len(taken) + 1] = ret[t]
        /\ \A i \in 1..Len(taken) : taken'[i] = taken[i]
        /\ DOMAIN taken' = 1..Len(taken) + 1 /\ DOMAIN taken = 1..Len(taken)
    <3>1. ret[t] \in Value BY <1>0, <2>2, <2>3
    <3> QED BY <1>0, <2>1, <3>1
  <2>5. Len(pushed) \in Len(taken) + 1..Len(pushed) BY <1>0, <2>2
  <2> QED BY <1>0, <2>1, <2>3, <2>4, <2>5 DEF TakenWerePushed
<1>3. CASE ~Enqueue(t) /\ ~RemoveFront(t)
  <2>1. UNCHANGED <<pushed, taken>>
    BY <1>3 DEF CallPush, CallPop, CallPopNonblocking, Lock, Signal,
                SpuriousWake, Park, ReturnNull, FoundNonempty, ReadBack, Unlock
  <2> QED BY <2>1 DEF TakenWerePushed
<1> QED BY <1>1, <1>2, <1>3

-----------------------------------------------------------------------------
(* No lost wakeups.  Each action is accounted for by what it does to the    *)
(* waiters, to the helpers and to the length of the queue.                  *)

\* No step strands a value: each adds at most one value per helper it leaves.
LEMMA NextNoLostWakeup ==
  ASSUME IInv, Next
  PROVE  NoLostWakeup'
<1> PICK t \in Thread :
           \/ \E v \in Value : CallPush(t, v)
           \/ CallPop(t)
           \/ CallPopNonblocking(t)
           \/ Lock(t)
           \/ Enqueue(t)
           \/ Signal(t)
           \/ SpuriousWake(t)
           \/ Park(t)
           \/ ReturnNull(t)
           \/ FoundNonempty(t)
           \/ ReadBack(t)
           \/ RemoveFront(t)
           \/ Unlock(t)
      BY NextCases
<1> USE DEF IInv, TypeOK, Goto, Point, Asking, Inside
<1>a. /\ Helpers \in SUBSET Thread
      /\ Cardinality(Helpers) \in Nat
      /\ Len(queue) \in Nat
  BY HelperCount DEF Helpers
\* No thread starts to wait, no helper leaves, nothing is queued.
<1>b. ASSUME Waiters' \subseteq Waiters, UNCHANGED queue,
             Helpers' = Helpers
      PROVE  NoLostWakeup'
  BY <1>b DEF NoLostWakeup
\* ... and one helper joins.
<1>c. ASSUME Waiters' \subseteq Waiters, UNCHANGED queue,
             NEW u \in Thread, u \notin Helpers, Helpers' = Helpers \cup {u}
      PROVE  NoLostWakeup'
  BY <1>a, <1>c, AddHelper DEF NoLostWakeup
<1>1. CASE (\E v \in Value : CallPush(t, v)) \/ CallPopNonblocking(t)
           \/ Lock(t) \/ ReturnNull(t) \/ ReadBack(t) \/ Unlock(t)
  <2>1. Waiters' = Waiters /\ queue' = queue
    BY <1>1 DEF CallPush, CallPopNonblocking, Lock, AfterLock, ReturnNull,
                ReadBack, Unlock, Waiters
  <2>2. Helpers' = Helpers
    BY <1>1 DEF CallPush, CallPopNonblocking, Lock, AfterLock, ReturnNull,
                ReadBack, Unlock, Helpers
  <2> QED BY <2>1, <2>2, <1>b
<1>2. CASE CallPop(t)
  <2>1. /\ Waiters' = Waiters /\ queue' = queue
        /\ t \notin Helpers /\ Helpers' = Helpers \cup {t}
    BY <1>2 DEF CallPop, Waiters, Helpers
  <2> QED BY <2>1, <1>c
<1>3. CASE SpuriousWake(t)
  <2>1. /\ Waiters' \subseteq Waiters /\ queue' = queue
        /\ t \notin Helpers /\ Helpers' = Helpers \cup {t}
    BY <1>3 DEF SpuriousWake, Waiters, Helpers
  <2> QED BY <2>1, <1>c
\* The value pushed brings its own helper: the pusher, about to signal.
<1>4. CASE Enqueue(t)
  <2>1. /\ Waiters' = Waiters
        /\ t \notin Helpers /\ Helpers' = Helpers \cup {t}
    BY <1>4 DEF Enqueue, Waiters, Helpers
  <2>2. Len(queue') = Len(queue) + 1
    BY <1>4, QueueOpsType DEF Enqueue, ArgInv
  <2>3. Cardinality(Helpers') = Cardinality(Helpers) + 1
    BY <1>a, <2>1, AddHelper
  <2> QED BY <1>a, <2>1, <2>2, <2>3 DEF NoLostWakeup
\* The signalling thread hands its place over to the waiter it wakes.
<1>5. CASE Signal(t)
  <2>1. CASE Waiters = {}
    <3>1. Waiters' = {}
      BY <1>5, <2>1 DEF Signal, Waiters
    <3> QED BY <3>1 DEF NoLostWakeup
  <2>2. CASE Waiters # {}
    <3>1. PICK w \in Waiters :
                 pc' = [pc EXCEPT ![t] = "unlock", ![w] = "relock"]
      BY <1>5, <2>2 DEF Signal
    <3>2. /\ w \in Thread /\ w # t /\ t \in Helpers /\ w \notin Helpers
          /\ Helpers' = (Helpers \ {t}) \cup {w}
      BY <1>5, <3>1 DEF Signal, Waiters, Helpers
    <3>3. Cardinality(Helpers \ {t}) = Cardinality(Helpers) - 1
      BY <1>a, <3>2, RemoveHelper
    <3>4. Cardinality((Helpers \ {t}) \cup {w}) = Cardinality(Helpers \ {t}) + 1
      <4>1. (Helpers \ {t}) \in SUBSET Thread /\ w \notin Helpers \ {t}
        BY <1>a, <3>2
      <4> QED BY <3>2, <4>1, AddHelper
    <3>5. Cardinality(Helpers') = Cardinality(Helpers)
      BY <1>a, <3>2, <3>3, <3>4
    <3>6. UNCHANGED queue BY <1>5 DEF Signal
    <3> QED BY <1>a, <2>2, <3>5, <3>6 DEF NoLostWakeup
  <2> QED BY <2>1, <2>2
\* A thread parks only when there is nothing to strand.
<1>6. CASE Park(t)
  <2>1. queue' = <<>> BY <1>6 DEF Park
  <2>2. Cardinality(Helpers)' \in Nat BY HelperCount DEF Helpers
  <2> QED BY <2>1, <2>2 DEF NoLostWakeup
<1>7. CASE FoundNonempty(t)
  <2>1. Waiters' = Waiters /\ queue' = queue
    BY <1>7 DEF FoundNonempty, Waiters
  <2>2. Helpers' = Helpers \cup {t}
    BY <1>7 DEF FoundNonempty, Helpers
  <2> QED BY <2>1, <2>2, <1>b, <1>c
\* The popper leaves with the value it came for.
<1>8. CASE RemoveFront(t)
  <2>1. Waiters' = Waiters /\ t \in Helpers /\ Helpers' = Helpers \ {t}
    BY <1>8 DEF RemoveFront, Waiters, Helpers
  <2>2. Len(queue') = Len(queue) - 1
    BY <1>8, QueueOpsType DEF RemoveFront, PopInv
  <2>3. Cardinality(Helpers') = Cardinality(Helpers) - 1
    BY <1>a, <2>1, RemoveHelper
  <2> QED BY <1>a, <2>1, <2>2, <2>3 DEF NoLostWakeup
<1> QED BY <1>1, <1>2, <1>3, <1>4, <1>5, <1>6, <1>7, <1>8

-----------------------------------------------------------------------------
(* The theorems. *)

\* The invariant of synchronized_queue: whoever is past pthread_mutex_lock is
\* alone there, operands stay valid, the queue is the unconsumed rest of the
\* pushes, and no queued value is without a thread that will come for it.
THEOREM Invariance == Spec => []IInv
<1>1. IInv /\ [Next]_vars => IInv'
  <2> SUFFICES ASSUME IInv, [Next]_vars PROVE IInv' OBVIOUS
  <2>1. CASE Next
    BY <2>1, NextSafe, NextTaken, NextNoLostWakeup DEF IInv, Safe
  <2>2. CASE UNCHANGED vars
    BY <2>2 DEF vars, IInv, TypeOK, LockInv, ArgInv, PopInv, QueueIsBacklog,
                TakenWerePushed, NoLostWakeup, Waiters, Helpers
  <2> QED BY <2>1, <2>2
<1> QED BY <1>1, InitIInv, PTL DEF Spec

\* Every variable of synchronized_queue keeps its type; in particular no pop
\* returns before ret is set.
THEOREM TypeCorrect == Spec => []TypeOK
BY Invariance, PTL DEF IInv

\* push's one pthread_cond_signal per value never strands a value while a
\* pop is parked in pthread_cond_wait.
THEOREM WakeupsNotLost == Spec => []NoLostWakeup
BY Invariance, PTL DEF IInv

\* Each pop takes exactly one value, the oldest, off the queue.
THEOREM Backlog == Spec => []QueueIsBacklog
BY Invariance, PTL DEF IInv

\* What pop and pop_nonblocking hand out was pushed, and no earlier than the
\* value that they remove.
THEOREM TakenPushed == Spec => []TakenWerePushed
BY Invariance, PTL DEF IInv

\* push, pop and pop_nonblocking take effect atomically.
THEOREM Refinement == Spec => ImplementsAtomicQueue
<1>1. Init => AQ!Init BY DEF Init, AQ!Init
<1>2. IInv /\ [Next]_vars => [AQ!Next]_(AQ!vars)
  <2> SUFFICES ASSUME IInv, [Next]_vars PROVE [AQ!Next]_(AQ!vars) OBVIOUS
  <2>1. CASE Next
    <3> PICK t \in Thread :
           \/ \E v \in Value : CallPush(t, v)
           \/ CallPop(t)
           \/ CallPopNonblocking(t)
           \/ Lock(t)
           \/ Enqueue(t)
           \/ Signal(t)
           \/ SpuriousWake(t)
           \/ Park(t)
           \/ ReturnNull(t)
           \/ FoundNonempty(t)
           \/ ReadBack(t)
           \/ RemoveFront(t)
           \/ Unlock(t)
        BY <2>1, NextCases
    <3>1. CASE Enqueue(t)
      BY <3>1 DEF Enqueue, IInv, ArgInv, AQ!Next, AQ!Push, push, AQ!push
    <3>2. CASE RemoveFront(t)
      BY <3>2 DEF RemoveFront, IInv, PopInv, AQ!Next, AQ!Pop, back, AQ!back,
                  pop_front, AQ!pop_front
    <3>3. CASE ~Enqueue(t) /\ ~RemoveFront(t)
      BY <3>3 DEF CallPush, CallPop, CallPopNonblocking, Lock, Signal,
                  SpuriousWake, Park, ReturnNull, FoundNonempty, ReadBack,
                  Unlock, AQ!vars
    <3> QED BY <3>1, <3>2, <3>3
  <2>2. CASE UNCHANGED vars BY <2>2 DEF vars, AQ!vars
  <2> QED BY <2>1, <2>2
<1> QED BY <1>1, <1>2, Invariance, PTL DEF Spec, ImplementsAtomicQueue, AQ!Spec
=============================================================================
