----------------------------- MODULE MCPeerList -----------------------------
(* Instances of PeerList for TLC. *)
EXTENDS PeerList

CONSTANTS m1, m2, m3

\* m1 is told of m2 and m2 of m3, which is up already; a booth is told of m1.
InARow == [c \in Client |-> CASE c = m1 -> m2 [] c = m2 -> m3 [] OTHER -> m1]
\* m1 and m2 are told of each other.
EachOther == [c \in Client |-> IF c = m1 THEN m2 ELSE m1]
\* One bootstrap each, and none of m3.
Once == [c \in Client |-> IF c = m3 THEN 0 ELSE 1]
=============================================================================
