------------------------------- MODULE Ledger -------------------------------
(***************************************************************************)
(* What the miners together promise the voters: every miner keeps a ledger *)
(* of blocks of voters, in which a voter is recorded at most once.  Blocks *)
(* are recorded at its end and taken back from its end, one at a time, and *)
(* the ledger of a miner that has ended stays as it is.  Miner shows that  *)
(* the network of processing threads and handlers keeps the promise.       *)
(***************************************************************************)
EXTENDS Naturals, Sequences

CONSTANTS Node, Key, MaxNumber

VARIABLES ledger,  \* per miner, the set of voters of each block, oldest first
          ended    \* has the miner's process ended?

vars == <<ledger, ended>>

Init == /\ ledger = [n \in Node |-> <<>>]
        /\ ended = [n \in Node |-> FALSE]

\* The miner may end on the assert that follows.
Record(n, voters) ==
  /\ ~ended[n]
  /\ Len(ledger[n]) < MaxNumber
  /\ voters # {}
  /\ \A i \in DOMAIN ledger[n] : ledger[n][i] \cap voters = {}
  /\ ledger' = [ledger EXCEPT ![n] = Append(@, voters)]
  /\ ended' \in {ended, [ended EXCEPT ![n] = TRUE]}

TakeBack(n) == /\ ~ended[n]
               /\ ledger[n] # <<>>
               /\ ledger' = [ledger EXCEPT ![n] = SubSeq(@, 1, Len(@) - 1)]
               /\ UNCHANGED ended

End(n) == /\ ended' = [ended EXCEPT ![n] = TRUE]
          /\ UNCHANGED ledger

Next == \E n \in Node : \/ TakeBack(n) \/ End(n)
                        \/ \E voters \in SUBSET Key : Record(n, voters)

Spec == Init /\ [][Next]_vars
=============================================================================
