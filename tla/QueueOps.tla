------------------------------ MODULE QueueOps ------------------------------
(***************************************************************************)
(* The three std::queue operations that synchronized_queue (processor.cpp) *)
(* uses, on a sequence whose first element is the front of the queue.      *)
(*                                                                         *)
(* Both pops of the class read queue_.back() and then call queue_.pop(),   *)
(* which removes the front: the element returned is not the one removed    *)
(* unless the queue holds exactly one element.                             *)
(***************************************************************************)
LOCAL INSTANCE Sequences

\* queue_.push(t)
push(q, t) == Append(q, t)

\* ret = queue_.back()
back(q) == q[Len(q)]

\* queue_.pop()
pop_front(q) == Tail(q)
=============================================================================
