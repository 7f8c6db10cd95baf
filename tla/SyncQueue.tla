----------------------------- MODULE SyncQueue ------------------------------
(***************************************************************************)
(* synchronized_queue<T> of processor.cpp: one mutex, one condition        *)
(* variable, and the operations push, pop and pop_nonblocking, step by     *)
(* step.  Any thread may push; Popper holds the threads that also pop (in  *)
(* a miner the processing thread; the gRPC handlers only push).            *)
(*                                                                         *)
(* pc[t] is where thread t stands:                                         *)
(*   idle       outside the class                                          *)
(*   push_lock, pop_lock, nb_lock   asking for lock_                       *)
(*   push, signal                   in push, holding lock_                 *)
(*   test, nb_test, back, pop       in a pop, holding lock_                *)
(*   wait       parked in pthread_cond_wait, lock_ released                *)
(*   relock     woken, asking for lock_ again                              *)
(*   unlock     about to release lock_ and return                          *)
(***************************************************************************)
EXTENDS Naturals, Sequences, FiniteSets, QueueOps

CONSTANTS Thread,   \* the threads that share the queue
          Popper,   \* those that call pop and pop_nonblocking
          Value,    \* what is queued
          Nobody,   \* lock_ is free
          NoValue,  \* the NULL of pop_nonblocking, and an unset ret
          MaxPush   \* bound: no push is started once this many took effect

ASSUME ThreadAssumption == /\ IsFiniteSet(Thread)
                           /\ Popper \subseteq Thread
                           /\ Nobody \notin Thread
ASSUME ValueAssumption == NoValue \notin Value
ASSUME MaxPushAssumption == MaxPush \in Nat

VARIABLES queue,   \* queue_, front first
          lock,    \* lock_: its holder, or Nobody
          pc,      \* control point of each thread
          arg,     \* argument of the thread's push
          ret,     \* ret of the thread's pop
          pushed,  \* history: every value pushed, in order
          taken    \* history: every value a pop returned, in order

vars == <<queue, lock, pc, arg, ret, pushed, taken>>

Asking == {"push_lock", "pop_lock", "nb_lock", "relock"}
Inside == {"push", "signal", "test", "nb_test", "back", "pop", "unlock"}
Point == {"idle", "wait"} \cup Asking \cup Inside

Init == /\ queue = <<>> /\ pushed = <<>> /\ taken = <<>>
        /\ lock = Nobody
        /\ pc = [t \in Thread |-> "idle"]
        /\ arg = [t \in Thread |-> NoValue]
        /\ ret = [t \in Thread |-> NoValue]

Goto(t, point) == pc' = [pc EXCEPT ![t] = point]

-----------------------------------------------------------------------------
(* Calls made by the threads. *)

CallPush(t, v) == /\ pc[t] = "idle"
                  /\ Len(pushed) < MaxPush
                  /\ Goto(t, "push_lock")
                  /\ arg' = [arg EXCEPT ![t] = v]
                  /\ UNCHANGED <<queue, lock, ret, pushed, taken>>

CallPop(t) == /\ pc[t] = "idle"
              /\ Goto(t, "pop_lock")
              /\ UNCHANGED <<queue, lock, arg, ret, pushed, taken>>

CallPopNonblocking(t) == /\ pc[t] = "idle"
                         /\ Goto(t, "nb_lock")
                         /\ UNCHANGED <<queue, lock, arg, ret, pushed, taken>>

-----------------------------------------------------------------------------
(* Steps of the operations. *)

\* Where pthread_mutex_lock, or the return of pthread_cond_wait, leads to:
\* a woken pop tests the queue again (the while loop).
AfterLock(point) == CASE point = "push_lock" -> "push"
                      [] point = "pop_lock" -> "test"
                      [] point = "relock" -> "test"
                      [] point = "nb_lock" -> "nb_test"

\* Variant: the mutex does not exclude.
LockUnguarded(t) == /\ pc[t] \in Asking
                    /\ lock' = t
                    /\ Goto(t, AfterLock(pc[t]))
                    /\ UNCHANGED <<queue, arg, ret, pushed, taken>>

Lock(t) == /\ pc[t] \in Asking
           /\ lock = Nobody
           /\ lock' = t
           /\ Goto(t, AfterLock(pc[t]))
           /\ UNCHANGED <<queue, arg, ret, pushed, taken>>

\* Variant: push without pthread_cond_signal.
EnqueueNoSignal(t) == /\ pc[t] = "push"
                      /\ queue' = push(queue, arg[t])
                      /\ pushed' = Append(pushed, arg[t])
                      /\ Goto(t, "unlock")
                      /\ UNCHANGED <<lock, arg, ret, taken>>

Enqueue(t) == /\ pc[t] = "push"
              /\ queue' = push(queue, arg[t])
              /\ pushed' = Append(pushed, arg[t])
              /\ Goto(t, "signal")
              /\ UNCHANGED <<lock, arg, ret, taken>>

Waiters == {w \in Thread : pc[w] = "wait"}

\* Variant: signal only when the queue was empty before the push.
SignalIfWasEmpty(t) ==
  /\ pc[t] = "signal"
  /\ \/ (Waiters = {} \/ Len(queue) > 1) /\ Goto(t, "unlock")
     \/ /\ Len(queue) = 1
        /\ \E w \in Waiters : pc' = [pc EXCEPT ![t] = "unlock", ![w] = "relock"]
  /\ UNCHANGED <<queue, lock, arg, ret, pushed, taken>>

\* pthread_cond_signal: one waiter wakes and asks for lock_ again.
Signal(t) == /\ pc[t] = "signal"
             /\ \/ Waiters = {} /\ Goto(t, "unlock")
                \/ \E w \in Waiters :
                      pc' = [pc EXCEPT ![t] = "unlock", ![w] = "relock"]
             /\ UNCHANGED <<queue, lock, arg, ret, pushed, taken>>

\* POSIX allows pthread_cond_wait to return without a signal.
SpuriousWake(t) == /\ pc[t] = "wait"
                   /\ Goto(t, "relock")
                   /\ UNCHANGED <<queue, lock, arg, ret, pushed, taken>>

\* pop with an empty queue: pthread_cond_wait parks and releases lock_ at once.
Park(t) == /\ pc[t] = "test"
           /\ queue = <<>>
           /\ lock' = Nobody
           /\ Goto(t, "wait")
           /\ UNCHANGED <<queue, arg, ret, pushed, taken>>

\* pop_nonblocking with an empty queue returns NULL.
ReturnNull(t) == /\ pc[t] = "nb_test"
                 /\ queue = <<>>
                 /\ ret' = [ret EXCEPT ![t] = NoValue]
                 /\ Goto(t, "unlock")
                 /\ UNCHANGED <<queue, lock, arg, pushed, taken>>

\* Variant: the assignment of ret is missing.
FoundNonemptyNoRead(t) == /\ pc[t] \in {"test", "nb_test"}
                          /\ queue # <<>>
                          /\ Goto(t, "pop")
                          /\ UNCHANGED <<queue, lock, arg, ret, pushed, taken>>

FoundNonempty(t) == /\ pc[t] \in {"test", "nb_test"}
                    /\ queue # <<>>
                    /\ Goto(t, "back")
                    /\ UNCHANGED <<queue, lock, arg, ret, pushed, taken>>

ReadBack(t) == /\ pc[t] = "back"
               /\ ret' = [ret EXCEPT ![t] = back(queue)]
               /\ Goto(t, "pop")
               /\ UNCHANGED <<queue, lock, arg, pushed, taken>>

\* Variant: the element read is the one removed.
RemoveBack(t) == /\ pc[t] = "pop"
                 /\ queue' = SubSeq(queue, 1, Len(queue) - 1)
                 /\ taken' = Append(taken, ret[t])
                 /\ Goto(t, "unlock")
                 /\ UNCHANGED <<lock, arg, ret, pushed>>

RemoveFront(t) == /\ pc[t] = "pop"
                  /\ queue' = pop_front(queue)
                  /\ taken' = Append(taken, ret[t])
                  /\ Goto(t, "unlock")
                  /\ UNCHANGED <<lock, arg, ret, pushed>>

\* The locals of the operation end with it.
Unlock(t) == /\ pc[t] = "unlock"
             /\ lock' = Nobody
             /\ Goto(t, "idle")
             /\ arg' = [arg EXCEPT ![t] = NoValue]
             /\ ret' = [ret EXCEPT ![t] = NoValue]
             /\ UNCHANGED <<queue, pushed, taken>>

Step(t) == \/ Enqueue(t) \/ Signal(t) \/ Park(t) \/ ReturnNull(t)
           \/ FoundNonempty(t) \/ ReadBack(t) \/ RemoveFront(t) \/ Unlock(t)

Next == \/ \E t \in Thread : \/ \E v \in Value : CallPush(t, v)
                             \/ Lock(t)
                             \/ Step(t)
                             \/ SpuriousWake(t)
        \/ \E t \in Popper : CallPop(t) \/ CallPopNonblocking(t)

Spec == Init /\ [][Next]_vars

(***************************************************************************)
(* A thread inside the class keeps running, and a thread that asks for     *)
(* lock_ again and again while it becomes free gets it.  No call, signal   *)
(* from POSIX or push is assumed to come.                                  *)
(***************************************************************************)
FairSpec == Spec /\ \A t \in Thread : WF_vars(Step(t)) /\ SF_vars(Lock(t))

-----------------------------------------------------------------------------
(* Properties. *)

\* Values of the members of synchronized_queue and of its operations' locals;
\* `taken' in Seq(Value) says that no pop hands out an unset ret.
TypeOK == /\ queue \in Seq(Value)
          /\ lock \in Thread \cup {Nobody}
          /\ pc \in [Thread -> Point]
          /\ arg \in [Thread -> Value \cup {NoValue}]
          /\ ret \in [Thread -> Value \cup {NoValue}]
          /\ pushed \in Seq(Value)
          /\ taken \in Seq(Value)

\* Threads that are on their way to test the queue, or to wake one that will.
Helpers == {t \in Thread : pc[t] \in {"signal", "pop_lock", "relock", "test",
                                      "back", "pop"}}

\* While a thread is parked in pop, every queued value has a thread of its own
\* that will come for it or will signal a waiter: one cond_signal per push
\* (and not per empty-to-nonempty change) never strands a value.
NoLostWakeup == Waiters # {} => Len(queue) <= Cardinality(Helpers)

\* The queue loses one value from its front per pop, whatever the pop
\* returned: what is queued is what was pushed, without as many of the
\* oldest values as there were pops.
QueueIsBacklog == /\ Len(taken) <= Len(pushed)
                  /\ queue = SubSeq(pushed, Len(taken) + 1, Len(pushed))

\* Every value handed out was pushed, and at least as late as the one removed
\* for it: the n-th value that a pop returns is the n-th pushed or a later one,
\* never one that an earlier pop has removed from the queue.
TakenWerePushed ==
  \A i \in DOMAIN taken : \E j \in i..Len(pushed) : taken[i] = pushed[j]

AQ == INSTANCE AtomicQueue WITH queue <- queue, pushed <- pushed, taken <- taken

\* Locking makes every operation take effect in one step: back() and pop()
\* of one call are not separated by another thread's operation.
ImplementsAtomicQueue == AQ!Spec

\* A thread parked in pop does not stay parked while the queue is nonempty.
ParkedPopReturns ==
  \A t \in Popper : (pc[t] = "wait" /\ queue # <<>>)
                       ~> (pc[t] # "wait" \/ queue = <<>>)

\* "Pop from the front of the queue" (processor.cpp, on pop and on
\* pop_nonblocking): values come out in the order they went in.
PopFromFront == taken = SubSeq(pushed, 1, Len(taken))
=============================================================================
