---------------------------- MODULE AtomicPeers -----------------------------
(***************************************************************************)
(* What the comment above addNewPeer (client.cpp) promises of a client's   *)
(* peers: a set without the client itself, to which an address is added in *)
(* one step and only while there is room.  The promise ends for a client   *)
(* on which two additions have overlapped; PeerList shows that the         *)
(* unlocked code keeps it until then.                                      *)
(***************************************************************************)
EXTENDS Naturals, FiniteSets

CONSTANTS Miner,     \* addresses of miners
          Client,    \* who has a list of peers: miners and booths
          MAX_PEERS

VARIABLES known,  \* addresses each client knows
          broken  \* has the promise ended?

vars == <<known, broken>>

Init == /\ known = [c \in Client |-> {}]
        /\ broken = [c \in Client |-> FALSE]

Add(c, a) == /\ ~broken[c]
             /\ a \in Miner \ (known[c] \cup {c})
             /\ Cardinality(known[c]) < MAX_PEERS
             /\ known' = [known EXCEPT ![c] = @ \cup {a}]
             /\ UNCHANGED broken

Break(c) == /\ broken' = [broken EXCEPT ![c] = TRUE]
            /\ UNCHANGED known

\* Peers may then be forgotten, or added past the limit.
AnyChange(c) == /\ broken[c]
                /\ \E s \in SUBSET (Miner \ {c}) :
                     known' = [known EXCEPT ![c] = s]
                /\ UNCHANGED broken

Next == \E c \in Client : Break(c) \/ AnyChange(c) \/ \E a \in Miner : Add(c, a)

Spec == Init /\ [][Next]_vars
=============================================================================
