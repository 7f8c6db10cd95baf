---------------------------- MODULE AtomicQueue -----------------------------
(***************************************************************************)
(* What synchronized_queue offers its callers: every operation takes       *)
(* effect in one step.  Miner uses its queues through these steps, and     *)
(* SyncQueue shows that the locking code implements them.                  *)
(***************************************************************************)
EXTENDS Sequences, QueueOps

CONSTANT Value

VARIABLES queue,   \* queue_, front first
          pushed,  \* history: everything pushed so far
          taken    \* history: everything a pop returned so far

vars == <<queue, pushed, taken>>

Init == queue = <<>> /\ pushed = <<>> /\ taken = <<>>

Push(v) == /\ queue' = push(queue, v)
           /\ pushed' = Append(pushed, v)
           /\ UNCHANGED taken

Pop == /\ queue # <<>>
       /\ taken' = Append(taken, back(queue))
       /\ queue' = pop_front(queue)
       /\ UNCHANGED pushed

Next == Pop \/ \E v \in Value : Push(v)

Spec == Init /\ [][Next]_vars
=============================================================================
