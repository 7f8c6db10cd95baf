------------------------------ MODULE PeerList ------------------------------
(***************************************************************************)
(* Peer discovery: the list peer_clients_ of every client (client.cpp),    *)
(* bootstrapPeers as the processing threads and the voting booths call it, *)
(* and the GetAddr handlers (server.cpp) that run beside them.  No lock    *)
(* guards the list.                                                        *)
(*                                                                         *)
(* A thread is a client's own thread or the handler that serves the        *)
(* client's GetAddr call at callee[c].  pc[t] is its point:                *)
(*   idle                outside bootstrapPeers; no call to serve          *)
(*   test search begin link   in addNewPeer(adding[t]): before the size    *)
(*                       test, the search, the two halves of push_front    *)
(*   walk ask wait       in bootstrapPeers: before the loop over the       *)
(*                       peers, between calls or additions, in a call      *)
(*   reply               the handler is done                               *)
(*   vote cast           the booth broadcasts its vote, and has said so    *)
(*                                                                         *)
(* size() counts the nodes of the list, as the std::list of g++ 4 and of   *)
(* every g++ with the old ABI does.                                        *)
(***************************************************************************)
EXTENDS Naturals, Sequences, SequencesExt

CONSTANTS Miner,
          Booth,
          NOT_AN_IP_TOKEN, \* what a booth gives as its own address
          FirstPeer,       \* first_peer_ of each client
          MAX_PEERS,
          Rounds           \* bound: bootstraps per client

Client == Miner \cup Booth

ASSUME ClientAssumption == /\ Miner \cap Booth = {}
                           /\ NOT_AN_IP_TOKEN \notin Client
                           /\ FirstPeer \in [Client -> Miner]
ASSUME LimitAssumption == /\ MAX_PEERS \in Nat \ {0}
                          /\ Rounds \in [Client -> Nat]

Address == Miner \cup {NOT_AN_IP_TOKEN}

\* Variant: the constructor does not store the address.
my_address_unset(c) == NOT_AN_IP_TOKEN

my_address(c) == IF c \in Booth THEN NOT_AN_IP_TOKEN ELSE c

Thread == {"own", "handler"} \X Client
own(c) == <<"own", c>>
handler(c) == <<"handler", c>>

VARIABLES peers,     \* peer_clients_ of each client, front first
          pc,
          adding,    \* the argument of addNewPeer
          seen,      \* the list from the node that push_front read
          ret,       \* where addNewPeer returns to
          left,      \* peers that a loop over the list has still to call
          callee,    \* the miner that serves the client's GetAddr call,
                     \* or the client itself
          response,  \* what its handler found
          new_peers,
          rounds,    \* bootstraps started
          overlap,   \* history: have additions overlapped on this list?
          answered,  \* history: who answered the miner's GetAddr
          received,  \* history: miners that received the booth's vote
          failed     \* history: miners for which the booth's call failed

addvars == <<adding, seen, ret>>
callvars == <<left, callee, response, new_peers>>
history == <<overlap, answered, received, failed>>
vars == <<peers, pc, addvars, callvars, rounds, history>>

Init == /\ peers = [c \in Client |-> <<>>]
        /\ pc = [t \in Thread |-> "idle"]
        /\ adding = [t \in Thread |-> NOT_AN_IP_TOKEN]
        /\ seen = [t \in Thread |-> <<>>]
        /\ ret = [t \in Thread |-> "idle"]
        /\ left = [c \in Client |-> <<>>]
        /\ callee = [c \in Client |-> c]
        /\ response = [c \in Client |-> <<>>]
        /\ new_peers = [c \in Client |-> <<>>]
        /\ rounds = [c \in Client |-> 0]
        /\ overlap = [c \in Client |-> FALSE]
        /\ answered = [c \in Client |-> {}]
        /\ received = [c \in Client |-> <<>>]
        /\ failed = [c \in Client |-> {}]

Goto(t, point) == pc' = [pc EXCEPT ![t] = point]

\* Whose list the thread works on.
At(t) == IF t[1] = "own" THEN t[2] ELSE callee[t[2]]

-----------------------------------------------------------------------------
(* addNewPeer *)

\* The call addNewPeer(a), which returns to point.
Enter(t, a, point) == /\ Goto(t, "test")
                      /\ adding' = [adding EXCEPT ![t] = a]
                      /\ ret' = [ret EXCEPT ![t] = point]
                      /\ UNCHANGED seen

Return(t) == /\ Goto(t, ret[t])
             /\ adding' = [adding EXCEPT ![t] = NOT_AN_IP_TOKEN]
             /\ seen' = [seen EXCEPT ![t] = <<>>]
             /\ ret' = [ret EXCEPT ![t] = "idle"]

\* Past the first test and not yet linked.
Adding(t) == pc[t] \in {"search", "begin", "link"}
AddersAt(c) == {t \in Thread : Adding(t) /\ At(t) = c}

\* Variant: the own address and the dummy are not refused.
RefusableFull(t) == Len(peers[At(t)]) >= MAX_PEERS

\* "validate number of peers, address is not own, and it's not a dummy address"
Refusable(t) == \/ Len(peers[At(t)]) >= MAX_PEERS
                \/ adding[t] = my_address(At(t))
                \/ adding[t] = NOT_AN_IP_TOKEN

Refuse(t) == /\ pc[t] = "test"
             /\ Refusable(t)
             /\ Return(t)
             /\ UNCHANGED <<peers, callvars, rounds, history>>

Accept(t) == /\ pc[t] = "test"
             /\ ~Refusable(t)
             /\ Goto(t, "search")
             /\ overlap' = [overlap EXCEPT ![At(t)] = @ \/ AddersAt(At(t)) # {}]
             /\ UNCHANGED <<peers, addvars, callvars, rounds,
                            answered, received, failed>>

Found(t) == /\ pc[t] = "search"
            /\ adding[t] \in ToSet(peers[At(t)])
            /\ Return(t)
            /\ UNCHANGED <<peers, callvars, rounds, history>>

\* Variant: the list is not searched.
NotSearched(t) == /\ pc[t] = "search"
                  /\ Goto(t, "begin")
                  /\ UNCHANGED <<peers, addvars, callvars, rounds, history>>

NotFound(t) == /\ pc[t] = "search"
               /\ adding[t] \notin ToSet(peers[At(t)])
               /\ Goto(t, "begin")
               /\ UNCHANGED <<peers, addvars, callvars, rounds, history>>

\* push_front creates the channel and takes begin() ...
BeginPush(t) == /\ pc[t] = "begin"
                /\ Goto(t, "link")
                /\ seen' = [seen EXCEPT ![t] = peers[At(t)]]
                /\ UNCHANGED <<peers, adding, ret, callvars, rounds, history>>

\* ... and links the new node before the one that was first then.  If others
\* have been linked since, the node's prev pointer, read at some moment, leads
\* to the list's head or to one of them: what lies between is lost.  If the
\* node itself is no longer in its place, either list may win.
Linked(list, old, a) ==
  IF \E i \in 0..Len(list) : old = SubSeq(list, i + 1, Len(list))
  THEN {SubSeq(list, 1, j) \o <<a>> \o old : j \in 0..Len(list) - Len(old)}
  ELSE {<<a>> \o old, <<a>> \o list, list}

Link(t) == /\ pc[t] = "link"
           /\ \E list \in Linked(peers[At(t)], seen[t], adding[t]) :
                peers' = [peers EXCEPT ![At(t)] = list]
           /\ Return(t)
           /\ UNCHANGED <<callvars, rounds, history>>

AddNewPeer(t) == \/ Refuse(t) \/ Accept(t) \/ Found(t) \/ NotFound(t)
                 \/ BeginPush(t) \/ Link(t)

-----------------------------------------------------------------------------
(* bootstrapPeers *)

\* Variant: the first peer is not added.
BootstrapWithoutFirst(c) ==
  /\ pc[own(c)] = "idle"
  /\ rounds[c] < Rounds[c]
  /\ rounds' = [rounds EXCEPT ![c] = @ + 1]
  /\ Goto(own(c), "walk")
  /\ UNCHANGED <<peers, addvars, callvars, history>>

\* The processing thread calls it twice at its start and then in every
\* BOOTSTRAP_RETRY-th round of its loop; a booth calls it once.
Bootstrap(c) == /\ pc[own(c)] = "idle"
                /\ rounds[c] < Rounds[c]
                /\ rounds' = [rounds EXCEPT ![c] = @ + 1]
                /\ Enter(own(c), FirstPeer[c], "walk")
                /\ UNCHANGED <<peers, callvars, history>>

\* The loop follows the nodes from the first one: what is pushed to the
\* front later is not visited.
Walk(c) == /\ pc[own(c)] = "walk"
           /\ left' = [left EXCEPT ![c] = peers[c]]
           /\ Goto(own(c), "ask")
           /\ UNCHANGED <<peers, addvars, callee, response, new_peers, rounds,
                          history>>

\* A copy of the list.  It is made in reverse, and the caller's loop over the
\* response reverses it again.
getPeersList(c) == peers[c]

\* The call, and the first half of its handler: the list is copied into the
\* response, and the requester is to be added.  Bound: the handler of an
\* earlier call that broke off has ended.
CallGetAddr(c) ==
  /\ pc[own(c)] = "ask"
  /\ left[c] # <<>>
  /\ pc[handler(c)] = "idle"
  /\ callee' = [callee EXCEPT ![c] = Head(left[c])]
  /\ response' = [response EXCEPT ![c] = getPeersList(Head(left[c]))]
  /\ pc' = [pc EXCEPT ![own(c)] = "wait", ![handler(c)] = "test"]
  /\ adding' = [adding EXCEPT ![handler(c)] = my_address(c)]
  /\ ret' = [ret EXCEPT ![handler(c)] = "reply"]
  /\ UNCHANGED <<peers, seen, left, new_peers, rounds, history>>

\* Variant: the answer waits for a lock that bootstrapPeers holds.
AnswersLocked(c) == /\ pc[own(c)] = "wait"
                    /\ pc[handler(c)] = "reply"
                    /\ pc[own(callee[c])] # "wait"

Answers(c) == pc[own(c)] = "wait" /\ pc[handler(c)] = "reply"

\* The call returns: the peers found are put before the ones found so far.
GetAddrReturns(c) ==
  /\ Answers(c)
  /\ new_peers' = [new_peers EXCEPT ![c] = response[c] \o @]
  /\ response' = [response EXCEPT ![c] = <<>>]
  /\ left' = [left EXCEPT ![c] = Tail(@)]
  /\ answered' = IF c \in Miner
                  THEN [answered EXCEPT ![c] = @ \cup {callee[c]}] ELSE answered
  /\ callee' = [callee EXCEPT ![c] = c]
  /\ pc' = [pc EXCEPT ![own(c)] = "ask", ![handler(c)] = "idle"]
  /\ UNCHANGED <<peers, addvars, rounds, overlap, received, failed>>

\* Variant: a failed call is still waited for.
GetAddrFailsWaiting(c) ==
  /\ pc[own(c)] \in {"ask", "wait"}
  /\ left[c] # <<>>
  /\ left' = [left EXCEPT ![c] = Tail(@)]
  /\ UNCHANGED <<peers, pc, addvars, callee, response, new_peers, rounds,
                 history>>

\* The peer is not reached, or the connection breaks while its handler runs:
\* the status is not looked at and the response is empty.
GetAddrFails(c) == /\ pc[own(c)] \in {"ask", "wait"}
                   /\ left[c] # <<>>
                   /\ left' = [left EXCEPT ![c] = Tail(@)]
                   /\ Goto(own(c), "ask")
                   /\ UNCHANGED <<peers, addvars, callee, response, new_peers,
                                  rounds, history>>

\* All peers have been asked: the loop over new_peers.
NextNewPeer(c) == /\ pc[own(c)] = "ask"
                  /\ left[c] = <<>>
                  /\ new_peers[c] # <<>>
                  /\ Len(peers[c]) < MAX_PEERS
                  /\ Enter(own(c), Head(new_peers[c]), "ask")
                  /\ new_peers' = [new_peers EXCEPT ![c] = Tail(@)]
                  /\ UNCHANGED <<peers, left, callee, response, rounds, history>>

\* A miner's thread goes back to its loop, a booth goes on to its broadcast.
EndBootstrap(c) ==
  /\ pc[own(c)] = "ask"
  /\ left[c] = <<>>
  /\ new_peers[c] = <<>> \/ Len(peers[c]) >= MAX_PEERS
  /\ new_peers' = [new_peers EXCEPT ![c] = <<>>]
  /\ \/ c \in Miner /\ Goto(own(c), "idle") /\ UNCHANGED left
     \/ /\ c \in Booth
        /\ Goto(own(c), "vote")
        /\ left' = [left EXCEPT ![c] = peers[c]]
  /\ UNCHANGED <<peers, addvars, callee, response, rounds, history>>

BootstrapPeers(c) == \/ Walk(c) \/ CallGetAddr(c) \/ GetAddrReturns(c)
                     \/ NextNewPeer(c) \/ EndBootstrap(c)

-----------------------------------------------------------------------------
(* The second half of the GetAddr handler at callee[c] *)

\* Nobody waits for the answer any more.
DiscardReply(c) == /\ pc[handler(c)] = "reply"
                   /\ pc[own(c)] # "wait"
                   /\ Goto(handler(c), "idle")
                   /\ response' = [response EXCEPT ![c] = <<>>]
                   /\ callee' = [callee EXCEPT ![c] = c]
                   /\ UNCHANGED <<peers, addvars, left, new_peers, rounds,
                                  history>>

Handler(c) == AddNewPeer(handler(c)) \/ DiscardReply(c)

-----------------------------------------------------------------------------
(* The voting booth, after its bootstrap *)

\* What one BroadcastTransaction call to peer may come to: received or not,
\* and a status that tells of a failure or not.
VoteCall(c, peer) ==
  \/ /\ received' = [received EXCEPT ![c] = Append(@, peer)]
     /\ failed' \in {failed, [failed EXCEPT ![c] = @ \cup {peer}]}
  \/ /\ failed' = [failed EXCEPT ![c] = @ \cup {peer}]
     /\ UNCHANGED received

\* The status is only printed.
SendVote(c) == /\ pc[own(c)] = "vote"
               /\ left[c] # <<>>
               /\ VoteCall(c, Head(left[c]))
               /\ left' = [left EXCEPT ![c] = Tail(@)]
               /\ UNCHANGED <<peers, pc, addvars, callee, response, new_peers,
                              rounds, overlap, answered>>

\* "Your vote has been cast!"
SayCast(c) == /\ pc[own(c)] = "vote"
              /\ left[c] = <<>>
              /\ Goto(own(c), "cast")
              /\ UNCHANGED <<peers, addvars, callvars, rounds, history>>

-----------------------------------------------------------------------------
Own(c) == \/ BootstrapPeers(c) \/ AddNewPeer(own(c))
          \/ SendVote(c) \/ SayCast(c)

Next == \E c \in Client : \/ Bootstrap(c) \/ GetAddrFails(c)
                          \/ Own(c) \/ Handler(c)

Spec == Init /\ [][Next]_vars

\* Threads that are inside these functions keep running.  Nothing is assumed
\* of when a bootstrap starts, nor that a call which hangs breaks off.
FairSpec == Spec /\ \A c \in Client : WF_vars(Own(c)) /\ WF_vars(Handler(c))

-----------------------------------------------------------------------------
(* Properties. *)

OwnPoint == {"idle", "test", "search", "begin", "link", "walk", "ask", "wait",
             "vote", "cast"}
HandlerPoint == {"idle", "test", "search", "begin", "link", "reply"}

\* The types of client.hpp, the points that each kind of thread reaches, and
\* that a call in progress is one that the loop over the peers makes.
TypeOK ==
  /\ peers \in [Client -> Seq(Address)]
  /\ pc \in [Thread -> OwnPoint \cup HandlerPoint]
  /\ \A c \in Client : /\ pc[own(c)] \in OwnPoint
                       /\ pc[handler(c)] \in HandlerPoint
                       /\ pc[own(c)] = "wait" => left[c] # <<>>
  /\ adding \in [Thread -> Address]
  /\ seen \in [Thread -> Seq(Address)]
  /\ ret \in [Thread -> {"idle", "walk", "ask", "reply"}]
  /\ left \in [Client -> Seq(Address)]
  /\ callee \in [Client -> Client]
  /\ response \in [Client -> Seq(Address)]
  /\ new_peers \in [Client -> Seq(Address)]
  /\ rounds \in [Client -> Nat]
  /\ overlap \in [Client -> BOOLEAN]
  /\ answered \in [Client -> SUBSET Client]
  /\ received \in [Client -> Seq(Address)]
  /\ failed \in [Client -> SUBSET Address]

\* Invariant 2 of addNewPeer, races or not: no client is its own peer, and no
\* booth is anybody's, whatever other clients' lists say; a call is always
\* made to another miner.
PeersAreOthers ==
  \A c \in Client : /\ ToSet(peers[c]) \subseteq Miner \ {c}
                    /\ pc[own(c)] = "wait" => callee[c] \in Miner \ {c}

Distinct(s) == \A i, j \in DOMAIN s : s[i] = s[j] => i = j

\* Invariants 1 and 3 of addNewPeer: at most MAX_PEERS peers and no duplicate,
\* on every list on which no two additions have overlapped.
AddNewPeerInvariants ==
  \A c \in Client : ~overlap[c] => /\ Len(peers[c]) <= MAX_PEERS
                                   /\ Distinct(peers[c])

\* What keeps the graph connected: a miner whose GetAddr was answered is a
\* peer of the one that answered, unless that one's list is full or additions
\* have overlapped on it.
AnsweredIsKnown ==
  \A c \in Miner : \A p \in answered[c] :
     ~overlap[p] => c \in ToSet(peers[p]) \/ Len(peers[p]) >= MAX_PEERS

\* A booth sends its vote to no miner twice, although the lists it was given
\* may name a miner several times.
VoteAtMostOnce == \A b \in Booth : Distinct(received[b])

\* When the booth says that the vote has been cast, its first peer has it,
\* unless the call to this very peer failed.
VoteReachesFirstPeer ==
  \A b \in Booth : pc[own(b)] = "cast" =>
     FirstPeer[b] \in ToSet(received[b]) \cup failed[b]

\* Bootstraps end, and a booth casts its vote, although every client may be
\* waiting for a call to another one that is bootstrapping itself: with
\* finitely many bootstraps nobody is left inside.
BootstrapsEnd == <>[](\A c \in Client : pc[own(c)] \in {"idle", "cast"})

\* Up to the first overlap a list behaves as a set of peers to which addresses
\* are added one at a time.
AP == INSTANCE AtomicPeers WITH known <- [c \in Client |-> ToSet(peers[c])],
                                broken <- overlap
ImplementsAtomicPeers == AP!Spec

-----------------------------------------------------------------------------
(* A claim of the repository's comments that the code does not keep. *)

\* "None of the peers are duplicated" (client.cpp, addNewPeer).
NoDuplicatePeers == \A c \in Client : Distinct(peers[c])
=============================================================================
