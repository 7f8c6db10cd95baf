--------------------------- MODULE PeerListProofs ---------------------------
(* Proofs about PeerList, for any clients, limits and numbers of bootstraps. *)
EXTENDS PeerList, FiniteSetTheorems, TLAPS

-----------------------------------------------------------------------------
(* Sequences. *)

\* A list has its elements in S.
LEMMA Within ==
  ASSUME NEW S, NEW s \in Seq(S)
  PROVE  ToSet(s) \subseteq S
BY DEF ToSet

\* The elements of a list put before another one.
LEMMA Joined ==
  ASSUME NEW S, NEW s \in Seq(S), NEW u \in Seq(S)
  PROVE  s \o u \in Seq(S) /\ ToSet(s \o u) = ToSet(s) \cup ToSet(u)
<1>1. ASSUME NEW x \in ToSet(s) PROVE x \in ToSet(s \o u)
  <2>1. PICK i \in DOMAIN s : s[i] = x BY <1>1 DEF ToSet
  <2>2. i \in DOMAIN (s \o u) /\ (s \o u)[i] = x BY <2>1
  <2> QED BY <2>2 DEF ToSet
<1>2. ASSUME NEW x \in ToSet(u) PROVE x \in ToSet(s \o u)
  <2>1. PICK i \in DOMAIN u : u[i] = x BY <1>2 DEF ToSet
  <2>2. Len(s) + i \in DOMAIN (s \o u) /\ (s \o u)[Len(s) + i] = x BY <2>1
  <2> QED BY <2>2 DEF ToSet
<1>3. ASSUME NEW x \in ToSet(s \o u) PROVE x \in ToSet(s) \cup ToSet(u)
  <2>1. PICK i \in DOMAIN (s \o u) : (s \o u)[i] = x BY <1>3 DEF ToSet
  <2>2. CASE i <= Len(s)
    <3>1. i \in DOMAIN s /\ s[i] = x BY <2>1, <2>2
    <3> QED BY <3>1 DEF ToSet
  <2>3. CASE i > Len(s)
    <3>1. i - Len(s) \in DOMAIN u /\ u[i - Len(s)] = x BY <2>1, <2>3
    <3> QED BY <3>1 DEF ToSet
  <2> QED BY <2>1, <2>2, <2>3
<1>4. s \o u \in Seq(S) OBVIOUS
<1> QED BY <1>1, <1>2, <1>3, <1>4

\* A list put behind a new first element, as push_front does.
LEMMA Pushed ==
  ASSUME NEW S, NEW s \in Seq(S), NEW a \in S
  PROVE  <<a>> \o s \in Seq(S) /\ ToSet(<<a>> \o s) = {a} \cup ToSet(s)
<1> DEFINE one == <<a>>
<1>1. one \in Seq(S) /\ ToSet(one) = {a} BY DEF ToSet
<1>2. one \o s \in Seq(S) /\ ToSet(one \o s) = ToSet(one) \cup ToSet(s)
  <2> HIDE DEF one
  <2> QED BY <1>1, Joined
<1> QED BY <1>1, <1>2

\* A list with a new last element.
LEMMA Appended ==
  ASSUME NEW S, NEW s \in Seq(S), NEW a \in S
  PROVE  Append(s, a) \in Seq(S) /\ ToSet(Append(s, a)) = ToSet(s) \cup {a}
<1>1. Append(s, a) \in Seq(S) /\ DOMAIN Append(s, a) = 1..Len(s) + 1 OBVIOUS
<1>2. Append(s, a)[Len(s) + 1] = a OBVIOUS
<1>3. \A i \in 1..Len(s) : Append(s, a)[i] = s[i] OBVIOUS
<1>4. DOMAIN s = 1..Len(s) OBVIOUS
<1>5. \A i \in 1..Len(s) + 1 : i \in 1..Len(s) \/ i = Len(s) + 1 OBVIOUS
<1>6. \A i \in 1..Len(s) : i \in 1..Len(s) + 1 OBVIOUS
<1>7. Len(s) + 1 \in 1..Len(s) + 1 OBVIOUS
<1> QED BY <1>1, <1>2, <1>3, <1>4, <1>5, <1>6, <1>7, Zenon DEF ToSet

\* The first element of a list and the rest.
LEMMA HeadAndTail ==
  ASSUME NEW S, NEW s \in Seq(S), s # <<>>
  PROVE  /\ Head(s) \in S
         /\ Tail(s) \in Seq(S)
         /\ ToSet(s) = {Head(s)} \cup ToSet(Tail(s))
<1>1. Head(s) \in S /\ Tail(s) \in Seq(S) /\ Head(s) = s[1] OBVIOUS
<1>2. 1 \in 1..Len(s) /\ DOMAIN s = 1..Len(s) OBVIOUS
<1>3. DOMAIN Tail(s) = 1..Len(s) - 1 OBVIOUS
<1>4. \A i \in 1..Len(s) - 1 : Tail(s)[i] = s[i + 1] /\ i + 1 \in 1..Len(s)
  OBVIOUS
<1>5. ASSUME NEW i \in 1..Len(s), i # 1
      PROVE  i - 1 \in 1..Len(s) - 1 /\ Tail(s)[i - 1] = s[i]
  <2>1. i - 1 \in 1..Len(s) - 1 /\ (i - 1) + 1 = i BY <1>5
  <2> QED BY <2>1, <1>4
<1>6. ASSUME NEW x \in ToSet(s) PROVE x = Head(s) \/ x \in ToSet(Tail(s))
  <2>1. PICK i \in 1..Len(s) : s[i] = x BY <1>6, <1>2 DEF ToSet
  <2>2. CASE i # 1
    <3>1. i - 1 \in DOMAIN Tail(s) /\ Tail(s)[i - 1] = x BY <1>5, <1>3, <2>1, <2>2
    <3> QED BY <3>1 DEF ToSet
  <2> QED BY <2>1, <2>2, <1>1
<1>7. ASSUME NEW x \in ToSet(Tail(s)) PROVE x \in ToSet(s)
  <2>1. PICK i \in 1..Len(s) - 1 : Tail(s)[i] = x BY <1>7, <1>3 DEF ToSet
  <2>2. i + 1 \in DOMAIN s /\ s[i + 1] = x BY <2>1, <1>4, <1>2
  <2> QED BY <2>2 DEF ToSet
<1>8. Head(s) \in ToSet(s) BY <1>1, <1>2 DEF ToSet
<1> QED BY <1>1, <1>6, <1>7, <1>8

\* The first elements of a list.
LEMMA Beginning ==
  ASSUME NEW S, NEW s \in Seq(S), NEW j \in 0..Len(s)
  PROVE  SubSeq(s, 1, j) \in Seq(S) /\ ToSet(SubSeq(s, 1, j)) \subseteq ToSet(s)
<1>1. SubSeq(s, 1, j) \in Seq(S) /\ DOMAIN SubSeq(s, 1, j) = 1..j OBVIOUS
<1>2. \A i \in 1..j : SubSeq(s, 1, j)[i] = s[i] /\ i \in DOMAIN s OBVIOUS
<1> QED BY <1>1, <1>2, Zenon DEF ToSet

\* How Distinct fares under the same operations.
LEMMA DistinctSteps ==
  ASSUME NEW S, NEW s \in Seq(S), NEW a \in S, Distinct(s)
  PROVE  /\ a \notin ToSet(s) => Distinct(<<a>> \o s) /\ Distinct(Append(s, a))
         /\ s # <<>> => Distinct(Tail(s)) /\ Head(s) \notin ToSet(Tail(s))
<1>1. ASSUME a \notin ToSet(s) PROVE Distinct(<<a>> \o s)
  <2>1. DOMAIN (<<a>> \o s) = 1..Len(s) + 1 OBVIOUS
  <2>2. (<<a>> \o s)[1] = a OBVIOUS
  <2>3. \A i \in 1..Len(s) + 1 : i # 1 => (<<a>> \o s)[i] = s[i - 1] /\ i - 1 \in DOMAIN s
    OBVIOUS
  <2>4. \A i \in DOMAIN s : s[i] # a BY <1>1 DEF ToSet
  <2>5. \A i, j \in 1..Len(s) + 1 : i # 1 /\ j # 1 /\ i - 1 = j - 1 => i = j OBVIOUS
  <2> QED BY <2>1, <2>2, <2>3, <2>4, <2>5 DEF Distinct
<1>2. ASSUME a \notin ToSet(s) PROVE Distinct(Append(s, a))
  <2>1. DOMAIN Append(s, a) = 1..Len(s) + 1 OBVIOUS
  <2>2. Append(s, a)[Len(s) + 1] = a OBVIOUS
  <2>3. \A i \in 1..Len(s) + 1 : i # Len(s) + 1 => Append(s, a)[i] = s[i] /\ i \in DOMAIN s
    OBVIOUS
  <2>4. \A i \in DOMAIN s : s[i] # a BY <1>2 DEF ToSet
  <2> QED BY <2>1, <2>2, <2>3, <2>4 DEF Distinct
<1>3. ASSUME s # <<>> PROVE Distinct(Tail(s)) /\ Head(s) \notin ToSet(Tail(s))
  <2>1. DOMAIN Tail(s) = 1..Len(s) - 1 BY <1>3
  <2>2. \A i \in 1..Len(s) - 1 : Tail(s)[i] = s[i + 1] /\ i + 1 \in DOMAIN s /\ i + 1 # 1
    BY <1>3
  <2>3. Head(s) = s[1] /\ 1 \in DOMAIN s BY <1>3
  <2>4. Distinct(Tail(s)) BY <2>1, <2>2 DEF Distinct
  <2>5. \A i \in 1..Len(s) - 1 : Tail(s)[i] # s[1] BY <2>2, <2>3 DEF Distinct
  <2> QED BY <2>1, <2>3, <2>4, <2>5 DEF ToSet
<1> QED BY <1>1, <1>2, <1>3

\* push_front adds one address to the nodes it finds; when no other node has
\* been linked since it read the first one, it adds it in front and loses
\* nothing.
LEMMA LinkedLists ==
  ASSUME NEW S, NEW list \in Seq(S), NEW old \in Seq(S), NEW a \in S,
         NEW r \in Linked(list, old, a)
  PROVE  /\ r \in Seq(S)
         /\ ToSet(r) \subseteq ToSet(list) \cup ToSet(old) \cup {a}
         /\ old = list => r = <<a>> \o list
<1>1. CASE \E i \in 0..Len(list) : old = SubSeq(list, i + 1, Len(list))
  <2>1. PICK j \in 0..Len(list) - Len(old) : r = SubSeq(list, 1, j) \o <<a>> \o old
    BY <1>1 DEF Linked
  <2>2. j \in 0..Len(list) BY <2>1
  <2>3. SubSeq(list, 1, j) \in Seq(S) /\ ToSet(SubSeq(list, 1, j)) \subseteq ToSet(list)
    BY <2>2, Beginning
  <2> DEFINE first == SubSeq(list, 1, j)
             one == <<a>>
             front == first \o one
  <2>4. first \in Seq(S) BY <2>3
  <2>5. one \in Seq(S) /\ ToSet(one) = {a} BY DEF ToSet
  <2>6. front \in Seq(S) /\ ToSet(front) = ToSet(first) \cup ToSet(one)
    <3> HIDE DEF first, one
    <3> QED BY <2>4, <2>5, Joined
  <2>7. front \o old \in Seq(S) /\ ToSet(front \o old) = ToSet(front) \cup ToSet(old)
    <3> HIDE DEF front
    <3> QED BY <2>6, Joined
  <2>8. ASSUME old = list PROVE front = one
    <3>1. j = 0 BY <2>1, <2>8
    <3>2. first = <<>> BY <3>1
    <3>3. <<>> \o one = one OBVIOUS
    <3> HIDE DEF first
    <3> QED BY <3>2, <3>3
  <2>9. r = front \o old BY <2>1
  <2> HIDE DEF front, one
  <2>10. r \in Seq(S) BY <2>7, <2>9
  <2>11. ToSet(r) \subseteq ToSet(list) \cup ToSet(old) \cup {a}
    BY <2>3, <2>5, <2>6, <2>7, <2>9
  <2> QED BY <2>8, <2>9, <2>10, <2>11 DEF one
<1>2. CASE ~\E i \in 0..Len(list) : old = SubSeq(list, i + 1, Len(list))
  <2>1. r \in {<<a>> \o old, <<a>> \o list, list} BY <1>2 DEF Linked
  <2>2. /\ <<a>> \o old \in Seq(S) /\ ToSet(<<a>> \o old) = {a} \cup ToSet(old)
        /\ <<a>> \o list \in Seq(S) /\ ToSet(<<a>> \o list) = {a} \cup ToSet(list)
    BY Pushed
  <2>3. SubSeq(list, 1, Len(list)) = list OBVIOUS
  <2>4. 0 \in 0..Len(list) /\ 0 + 1 = 1 OBVIOUS
  <2>5. old # list BY <1>2, <2>3, <2>4
  <2> QED BY <2>1, <2>2, <2>5
<1> QED BY <1>1, <1>2
-----------------------------------------------------------------------------
(* The inductive invariant. *)

AddPoint == {"test", "search", "begin", "link"}

\* Additions are to one of the other miners.  Up to the first overlap a thread
\* that is past the size test is alone: there is still room, what it found out
\* about the list is still so, and push_front loses nothing.
AddInv(t) ==
  Adding(t) =>
    /\ adding[t] \in Miner \ {At(t)}
    /\ pc[t] = "link" => ToSet(seen[t]) \subseteq Miner \ {At(t)}
    /\ ~overlap[At(t)] =>
         /\ \A u \in Thread : Adding(u) /\ At(u) = At(t) => u = t
         /\ Len(peers[At(t)]) < MAX_PEERS
         /\ pc[t] # "search" => adding[t] \notin ToSet(peers[At(t)])
         /\ pc[t] = "link" => seen[t] = peers[At(t)]

\* AnsweredIsKnown, for one answer.
Known(c, p) ==
  ~overlap[p] => c \in ToSet(peers[p]) \/ Len(peers[p]) >= MAX_PEERS

\* The lists name other miners; a call is to another miner and its handler is
\* there to answer it, adds the caller and answers only when that is done.
ClientInv(c) ==
  /\ ToSet(peers[c]) \subseteq Miner \ {c}
  /\ ToSet(left[c]) \subseteq Miner \ {c}
  /\ ~overlap[c] => Len(peers[c]) <= MAX_PEERS /\ Distinct(peers[c])
  /\ pc[own(c)] \in {"vote", "cast"} => c \in Booth
  /\ pc[own(c)] = "wait" => pc[handler(c)] # "idle"
  /\ pc[own(c)] \in AddPoint => ret[own(c)] \in {"walk", "ask"}
  /\ pc[handler(c)] # "idle" => callee[c] \in Miner \ {c}
  /\ pc[handler(c)] \in AddPoint => /\ adding[handler(c)] = my_address(c)
                                    /\ ret[handler(c)] = "reply"
  /\ c \in Miner => /\ pc[handler(c)] = "reply" => Known(c, callee[c])
                    /\ \A p \in answered[c] : Known(c, p)

\* A booth serves no call, so no addition overlaps on its list: its first peer
\* is there from its first addition on, and the list it sends its vote along
\* names every miner once.
Knows(b) == \/ pc[own(b)] \in {"walk", "ask", "wait", "vote", "cast"}
            \/ pc[own(b)] \in AddPoint /\ ret[own(b)] = "ask"

BoothInv(b) ==
  /\ ~overlap[b]
  /\ pc[own(b)] \in {"idle", "test"} /\ ~Knows(b) => peers[b] = <<>>
  /\ pc[own(b)] \in AddPoint /\ ~Knows(b) => adding[own(b)] = FirstPeer[b]
  /\ Knows(b) => FirstPeer[b] \in ToSet(peers[b])
  /\ pc[own(b)] \notin {"vote", "cast"} => received[b] = <<>>
  /\ pc[own(b)] \in {"vote", "cast"} =>
       /\ Distinct(received[b])
       /\ Distinct(left[b])
       /\ ToSet(received[b]) \cap ToSet(left[b]) = {}
       /\ FirstPeer[b] \in ToSet(received[b]) \cup failed[b] \cup ToSet(left[b])
  /\ pc[own(b)] = "cast" => left[b] = <<>>

Inv == /\ TypeOK
       /\ \A t \in Thread : AddInv(t)
       /\ \A c \in Client : ClientInv(c)
       /\ \A b \in Booth : BoothInv(b)
-----------------------------------------------------------------------------
(* Threads, and what a step of one client leaves alone. *)

\* Every thread is one of the two threads of a client, and works on the
\* client's own list or on the list of the miner it called.
LEMMA Threads ==
  /\ \A c \in Client : /\ own(c) \in Thread /\ handler(c) \in Thread
                       /\ At(own(c)) = c /\ At(handler(c)) = callee[c]
                       /\ At(own(c))' = c /\ At(handler(c))' = callee'[c]
  /\ \A c, d \in Client : /\ own(c) # handler(d)
                          /\ own(c) = own(d) => c = d
                          /\ handler(c) = handler(d) => c = d
  /\ \A t \in Thread : \E c \in Client : t = own(c) \/ t = handler(c)
<1>1. \A c \in Client : own(c) \in Thread /\ handler(c) \in Thread
  BY DEF own, handler, Thread
<1>2. \A c : own(c)[1] = "own" /\ own(c)[2] = c BY DEF own
<1>3. \A c : handler(c)[1] = "handler" /\ handler(c)[2] = c BY DEF handler
<1>4. \A c \in Client : /\ At(own(c)) = c /\ At(handler(c)) = callee[c]
                        /\ At(own(c))' = c /\ At(handler(c))' = callee'[c]
  BY <1>2, <1>3 DEF At
<1>5. \A c, d \in Client : /\ own(c) # handler(d)
                           /\ own(c) = own(d) => c = d
                           /\ handler(c) = handler(d) => c = d
  BY <1>2, <1>3
<1>6. \A t \in Thread : \E c \in Client : t = own(c) \/ t = handler(c)
  BY DEF own, handler, Thread
<1> QED BY <1>1, <1>4, <1>5, <1>6

Elsewhere(c) ==
  /\ \A t \in Thread \ {own(c), handler(c)} :
       pc'[t] = pc[t] /\ adding'[t] = adding[t] /\ seen'[t] = seen[t] /\ ret'[t] = ret[t]
  /\ \A d \in Client \ {c} :
       /\ left'[d] = left[d] /\ callee'[d] = callee[d]
       /\ answered'[d] = answered[d] /\ received'[d] = received[d]
       /\ failed'[d] = failed[d]

\* The threads of other clients keep their points, and so their types.
LEMMA PointsType ==
  ASSUME TypeOK, NEW c \in Client, NEW p \in OwnPoint, NEW q \in HandlerPoint,
         pc' = [pc EXCEPT ![own(c)] = p, ![handler(c)] = q],
         \A d \in Client \ {c} : left'[d] = left[d],
         p = "wait" => left'[c] # <<>>
  PROVE  /\ pc' \in [Thread -> OwnPoint \cup HandlerPoint]
         /\ \A d \in Client : /\ pc'[own(d)] \in OwnPoint
                              /\ pc'[handler(d)] \in HandlerPoint
                              /\ pc'[own(d)] = "wait" => left'[d] # <<>>
         /\ pc'[own(c)] = p /\ pc'[handler(c)] = q
         /\ \A t \in Thread \ {own(c), handler(c)} : pc'[t] = pc[t]
<1>1. pc \in [Thread -> OwnPoint \cup HandlerPoint] BY DEF TypeOK
<1>2. \A d \in Client : /\ pc[own(d)] \in OwnPoint
                        /\ pc[handler(d)] \in HandlerPoint
                        /\ pc[own(d)] = "wait" => left[d] # <<>>
  BY DEF TypeOK
<1> HIDE DEF OwnPoint, HandlerPoint
<1>3. pc' \in [Thread -> OwnPoint \cup HandlerPoint] BY <1>1
<1>4. pc'[own(c)] = p /\ pc'[handler(c)] = q BY <1>1, Threads
<1>5. \A t \in Thread \ {own(c), handler(c)} : pc'[t] = pc[t] BY <1>1
<1>6. ASSUME NEW d \in Client \ {c}
      PROVE  pc'[own(d)] = pc[own(d)] /\ pc'[handler(d)] = pc[handler(d)]
  BY <1>5, Threads
<1> QED BY <1>2, <1>3, <1>4, <1>5, <1>6

\* Steps of a client's own thread change only the two entries of pc at most.
LEMMA OwnPoints ==
  ASSUME TypeOK, NEW c \in Client, NEW p \in OwnPoint, Goto(own(c), p),
         \A d \in Client \ {c} : left'[d] = left[d],
         p = "wait" => left'[c] # <<>>
  PROVE  /\ pc' \in [Thread -> OwnPoint \cup HandlerPoint]
         /\ \A d \in Client : /\ pc'[own(d)] \in OwnPoint
                              /\ pc'[handler(d)] \in HandlerPoint
                              /\ pc'[own(d)] = "wait" => left'[d] # <<>>
         /\ pc'[own(c)] = p /\ pc'[handler(c)] = pc[handler(c)]
         /\ \A t \in Thread \ {own(c), handler(c)} : pc'[t] = pc[t]
<1>1. pc \in [Thread -> OwnPoint \cup HandlerPoint] /\ pc[handler(c)] \in HandlerPoint
  BY DEF TypeOK
<1> HIDE DEF OwnPoint, HandlerPoint
<1>2. pc' = [pc EXCEPT ![own(c)] = p, ![handler(c)] = pc[handler(c)]]
  BY <1>1, Threads DEF Goto
<1> QED BY <1>1, <1>2, PointsType

\* The same for the handler of the client's call.
LEMMA HandlerPoints ==
  ASSUME TypeOK, NEW c \in Client, NEW q \in HandlerPoint, Goto(handler(c), q),
         UNCHANGED left
  PROVE  /\ pc' \in [Thread -> OwnPoint \cup HandlerPoint]
         /\ \A d \in Client : /\ pc'[own(d)] \in OwnPoint
                              /\ pc'[handler(d)] \in HandlerPoint
                              /\ pc'[own(d)] = "wait" => left'[d] # <<>>
         /\ pc'[own(c)] = pc[own(c)] /\ pc'[handler(c)] = q
         /\ \A t \in Thread \ {own(c), handler(c)} : pc'[t] = pc[t]
<1>1. /\ pc \in [Thread -> OwnPoint \cup HandlerPoint] /\ pc[own(c)] \in OwnPoint
      /\ pc[own(c)] = "wait" => left[c] # <<>>
  BY DEF TypeOK
<1> HIDE DEF OwnPoint, HandlerPoint
<1>2. pc' = [pc EXCEPT ![own(c)] = pc[own(c)], ![handler(c)] = q]
  BY <1>1, Threads DEF Goto
<1> QED BY <1>1, <1>2, PointsType

\* A step of c that leaves the lists and the overlaps alone, and lets nobody
\* past the size test, preserves what concerns other clients.
LEMMA Quiet ==
  ASSUME Inv, TypeOK', NEW c \in Client, Elsewhere(c), UNCHANGED <<peers, overlap>>,
         \A t \in {own(c), handler(c)} :
           Adding(t)' => /\ Adding(t) /\ At(t)' = At(t) /\ adding'[t] = adding[t]
                         /\ (pc'[t] = pc[t] /\ seen'[t] = seen[t]) \/ AddInv(t)',
         ClientInv(c)', c \in Booth => BoothInv(c)'
  PROVE  Inv'
<1>1. ASSUME NEW d \in Client, d # c
      PROVE  /\ own(d) \in Thread \ {own(c), handler(c)}
             /\ handler(d) \in Thread \ {own(c), handler(c)}
  BY <1>1, Threads
<1>2. ASSUME NEW t \in Thread, Adding(t)'
      PROVE  /\ Adding(t) /\ At(t)' = At(t) /\ adding'[t] = adding[t]
             /\ (pc'[t] = pc[t] /\ seen'[t] = seen[t]) \/ AddInv(t)'
  <2>1. CASE t \in {own(c), handler(c)} BY <1>2, <2>1
  <2>2. CASE t \notin {own(c), handler(c)}
    <3>1. pc'[t] = pc[t] /\ adding'[t] = adding[t] /\ seen'[t] = seen[t]
      BY <2>2 DEF Elsewhere
    <3>2. PICK d \in Client : t = own(d) \/ t = handler(d) BY Threads
    <3>3. d # c BY <2>2, <3>2
    <3>4. At(t)' = At(t) BY <3>2, <3>3, Threads DEF Elsewhere
    <3> QED BY <3>1, <3>4, <1>2 DEF Adding
  <2> QED BY <2>1, <2>2
<1>3. ASSUME NEW t \in Thread PROVE AddInv(t)'
  <2>1. SUFFICES ASSUME Adding(t)', pc'[t] = pc[t], seen'[t] = seen[t] PROVE AddInv(t)'
    BY <1>2 DEF AddInv
  <2>2. Adding(t) /\ At(t)' = At(t) /\ adding'[t] = adding[t] BY <1>2, <2>1
  <2>3. AddInv(t) BY DEF Inv
  <2>4. \A u \in Thread : (Adding(u) /\ At(u) = At(t))' => Adding(u) /\ At(u) = At(t)
    BY <1>2, <2>2
  <2>5. peers' = peers /\ overlap' = overlap OBVIOUS
  <2> HIDE DEF Adding, At
  <2> QED BY <2>1, <2>2, <2>3, <2>4, <2>5 DEF AddInv
<1>4. \A d \in Client : \A p : Known(d, p)' <=> Known(d, p) BY DEF Known
<1>5. ASSUME NEW d \in Client PROVE ClientInv(d)'
  <2>1. CASE d # c
    <3>1. ClientInv(d) BY DEF Inv
    <3>2. /\ pc'[own(d)] = pc[own(d)] /\ pc'[handler(d)] = pc[handler(d)]
          /\ ret'[own(d)] = ret[own(d)] /\ ret'[handler(d)] = ret[handler(d)]
          /\ adding'[handler(d)] = adding[handler(d)]
          /\ left'[d] = left[d] /\ callee'[d] = callee[d] /\ answered'[d] = answered[d]
      BY <1>1, <2>1 DEF Elsewhere
    <3>3. peers' = peers /\ overlap' = overlap OBVIOUS
    <3> QED BY <3>1, <3>2, <3>3, <1>4 DEF ClientInv
  <2> QED BY <2>1
<1>6. ASSUME NEW b \in Booth PROVE BoothInv(b)'
  <2>1. CASE b # c
    <3>1. BoothInv(b) BY DEF Inv
    <3>2. b \in Client BY DEF Client
    <3>3. /\ pc'[own(b)] = pc[own(b)] /\ ret'[own(b)] = ret[own(b)]
          /\ adding'[own(b)] = adding[own(b)]
          /\ left'[b] = left[b] /\ received'[b] = received[b] /\ failed'[b] = failed[b]
      BY <1>1, <2>1, <3>2 DEF Elsewhere
    <3>4. peers' = peers /\ overlap' = overlap OBVIOUS
    <3> QED BY <3>1, <3>3, <3>4 DEF BoothInv, Knows
  <2> QED BY <2>1
<1> QED BY <1>3, <1>5, <1>6 DEF Inv
-----------------------------------------------------------------------------
(* The steps of bootstrapPeers. *)

\* What is known of the variables when the invariant holds.
LEMMA Types ==
  ASSUME TypeOK
  PROVE  /\ pc \in [Thread -> OwnPoint \cup HandlerPoint]
         /\ adding \in [Thread -> Address] /\ seen \in [Thread -> Seq(Address)]
         /\ ret \in [Thread -> {"idle", "walk", "ask", "reply"}]
         /\ peers \in [Client -> Seq(Address)] /\ left \in [Client -> Seq(Address)]
         /\ callee \in [Client -> Client] /\ response \in [Client -> Seq(Address)]
         /\ new_peers \in [Client -> Seq(Address)] /\ rounds \in [Client -> Nat]
         /\ overlap \in [Client -> BOOLEAN] /\ answered \in [Client -> SUBSET Client]
         /\ received \in [Client -> Seq(Address)] /\ failed \in [Client -> SUBSET Address]
         /\ Miner \subseteq Client /\ Booth \subseteq Client
         /\ Miner \subseteq Address /\ NOT_AN_IP_TOKEN \in Address
BY DEF TypeOK, Client, Address

\* A bootstrap starts with the addition of the first peer.
LEMMA BootstrapInv ==
  ASSUME Inv, NEW c \in Client, Bootstrap(c)
  PROVE  Inv'
<1>0. TypeOK /\ ClientInv(c) /\ (c \in Booth => BoothInv(c)) BY DEF Inv
<1>1. /\ pc[own(c)] = "idle" /\ Goto(own(c), "test")
      /\ adding' = [adding EXCEPT ![own(c)] = FirstPeer[c]]
      /\ ret' = [ret EXCEPT ![own(c)] = "walk"]
      /\ rounds' = [rounds EXCEPT ![c] = @ + 1]
      /\ UNCHANGED <<seen, peers, left, callee, response, new_peers, overlap,
                     answered, received, failed>>
  BY DEF Bootstrap, Enter, callvars, history
<1>2. "test" \in OwnPoint BY DEF OwnPoint
<1>3. FirstPeer[c] \in Miner BY ClientAssumption
<1>4. /\ pc' \in [Thread -> OwnPoint \cup HandlerPoint]
      /\ \A d \in Client : /\ pc'[own(d)] \in OwnPoint
                           /\ pc'[handler(d)] \in HandlerPoint
                           /\ pc'[own(d)] = "wait" => left'[d] # <<>>
      /\ pc'[own(c)] = "test" /\ pc'[handler(c)] = pc[handler(c)]
      /\ \A t \in Thread \ {own(c), handler(c)} : pc'[t] = pc[t]
  BY <1>0, <1>1, <1>2, OwnPoints
<1>5. TypeOK'
  <2>1. adding' \in [Thread -> Address] BY <1>0, <1>1, <1>3, Types
  <2>2. rounds' \in [Client -> Nat] BY <1>0, <1>1, Types
  <2>3. ret' \in [Thread -> {"idle", "walk", "ask", "reply"}] BY <1>0, <1>1, Types
  <2> QED BY <1>0, <1>1, <1>4, <2>1, <2>2, <2>3 DEF TypeOK
<1>6. /\ adding'[own(c)] = FirstPeer[c] /\ ret'[own(c)] = "walk"
      /\ \A t \in Thread \ {own(c)} : adding'[t] = adding[t] /\ ret'[t] = ret[t]
  BY <1>0, <1>1, Types, Threads
<1>7. Elsewhere(c) BY <1>1, <1>4, <1>6 DEF Elsewhere
<1>8. ASSUME NEW t \in {own(c), handler(c)}, Adding(t)'
      PROVE  /\ Adding(t) /\ At(t)' = At(t) /\ adding'[t] = adding[t]
             /\ pc'[t] = pc[t] /\ seen'[t] = seen[t]
  BY <1>8, <1>1, <1>4, <1>6, Threads DEF Adding
<1>9. ClientInv(c)'
  BY <1>0, <1>1, <1>4, <1>6, Threads DEF ClientInv, Known, AddPoint
<1>10. c \in Booth => BoothInv(c)'
  BY <1>0, <1>1, <1>4, <1>6 DEF BoothInv, Knows, AddPoint
<1> QED BY <1>1, <1>5, <1>7, <1>8, <1>9, <1>10, Quiet

\* The loop over the peers starts with the list as it is.
LEMMA WalkInv ==
  ASSUME Inv, NEW c \in Client, Walk(c)
  PROVE  Inv'
<1>0. TypeOK /\ ClientInv(c) /\ (c \in Booth => BoothInv(c)) BY DEF Inv
<1>1. /\ pc[own(c)] = "walk" /\ Goto(own(c), "ask")
      /\ left' = [left EXCEPT ![c] = peers[c]]
      /\ UNCHANGED <<peers, adding, seen, ret, callee, response, new_peers, rounds,
                     overlap, answered, received, failed>>
  BY DEF Walk, addvars, history
<1>2. "ask" \in OwnPoint BY DEF OwnPoint
<1>3. left'[c] = peers[c] /\ \A d \in Client \ {c} : left'[d] = left[d]
  BY <1>0, <1>1, Types
<1>4. /\ pc' \in [Thread -> OwnPoint \cup HandlerPoint]
      /\ \A d \in Client : /\ pc'[own(d)] \in OwnPoint
                           /\ pc'[handler(d)] \in HandlerPoint
                           /\ pc'[own(d)] = "wait" => left'[d] # <<>>
      /\ pc'[own(c)] = "ask" /\ pc'[handler(c)] = pc[handler(c)]
      /\ \A t \in Thread \ {own(c), handler(c)} : pc'[t] = pc[t]
  BY <1>0, <1>1, <1>2, <1>3, OwnPoints
<1>5. TypeOK'
  <2>1. left' \in [Client -> Seq(Address)] BY <1>0, <1>1, Types
  <2> QED BY <1>0, <1>1, <1>4, <2>1 DEF TypeOK
<1>6. Elsewhere(c) BY <1>1, <1>3, <1>4 DEF Elsewhere
<1>7. ASSUME NEW t \in {own(c), handler(c)}, Adding(t)'
      PROVE  /\ Adding(t) /\ At(t)' = At(t) /\ adding'[t] = adding[t]
             /\ pc'[t] = pc[t] /\ seen'[t] = seen[t]
  BY <1>7, <1>1, <1>4, Threads DEF Adding
<1>8. ClientInv(c)'
  BY <1>0, <1>1, <1>3, <1>4 DEF ClientInv, Known, AddPoint
<1>9. c \in Booth => BoothInv(c)'
  BY <1>0, <1>1, <1>4 DEF BoothInv, Knows, AddPoint
<1> QED BY <1>1, <1>5, <1>6, <1>7, <1>8, <1>9, Quiet

\* A call is made to the next peer of the loop, which is another miner.
LEMMA CallGetAddrInv ==
  ASSUME Inv, NEW c \in Client, CallGetAddr(c)
  PROVE  Inv'
<1>0. TypeOK /\ ClientInv(c) /\ (c \in Booth => BoothInv(c)) BY DEF Inv
<1>1. /\ pc[own(c)] = "ask" /\ left[c] # <<>> /\ pc[handler(c)] = "idle"
      /\ callee' = [callee EXCEPT ![c] = Head(left[c])]
      /\ response' = [response EXCEPT ![c] = peers[Head(left[c])]]
      /\ pc' = [pc EXCEPT ![own(c)] = "wait", ![handler(c)] = "test"]
      /\ adding' = [adding EXCEPT ![handler(c)] = my_address(c)]
      /\ ret' = [ret EXCEPT ![handler(c)] = "reply"]
      /\ UNCHANGED <<peers, seen, left, new_peers, rounds, overlap, answered,
                     received, failed>>
  BY DEF CallGetAddr, getPeersList, history
<1>2. "wait" \in OwnPoint /\ "test" \in HandlerPoint BY DEF OwnPoint, HandlerPoint
<1>3. Head(left[c]) \in ToSet(left[c]) BY <1>0, <1>1, Types, HeadAndTail
<1>4. Head(left[c]) \in Miner \ {c} BY <1>0, <1>3 DEF ClientInv
<1>5. my_address(c) \in Address BY <1>0, Types DEF my_address, Client
<1>6. /\ pc' \in [Thread -> OwnPoint \cup HandlerPoint]
      /\ \A d \in Client : /\ pc'[own(d)] \in OwnPoint
                           /\ pc'[handler(d)] \in HandlerPoint
                           /\ pc'[own(d)] = "wait" => left'[d] # <<>>
      /\ pc'[own(c)] = "wait" /\ pc'[handler(c)] = "test"
      /\ \A t \in Thread \ {own(c), handler(c)} : pc'[t] = pc[t]
  BY <1>0, <1>1, <1>2, PointsType
<1>7. callee'[c] = Head(left[c]) /\ \A d \in Client \ {c} : callee'[d] = callee[d]
  BY <1>0, <1>1, Types
<1>8. /\ adding'[handler(c)] = my_address(c) /\ ret'[handler(c)] = "reply"
      /\ \A t \in Thread \ {handler(c)} : adding'[t] = adding[t] /\ ret'[t] = ret[t]
  BY <1>0, <1>1, Types, Threads
<1>9. TypeOK'
  <2>1. callee' \in [Client -> Client] /\ response' \in [Client -> Seq(Address)]
    BY <1>0, <1>1, <1>4, Types
  <2>2. adding' \in [Thread -> Address] /\ ret' \in [Thread -> {"idle", "walk", "ask", "reply"}]
    BY <1>0, <1>1, <1>5, Types
  <2> QED BY <1>0, <1>1, <1>6, <2>1, <2>2 DEF TypeOK
<1>10. Elsewhere(c) BY <1>1, <1>6, <1>7, <1>8 DEF Elsewhere
<1>11. ASSUME NEW t \in {own(c), handler(c)}, Adding(t)'
       PROVE  /\ Adding(t) /\ At(t)' = At(t) /\ adding'[t] = adding[t]
              /\ pc'[t] = pc[t] /\ seen'[t] = seen[t]
  BY <1>11, <1>6 DEF Adding
<1>12. ClientInv(c)'
  BY <1>0, <1>1, <1>4, <1>6, <1>7, <1>8 DEF ClientInv, Known, AddPoint
<1>13. c \in Booth => BoothInv(c)'
  BY <1>0, <1>1, <1>6 DEF BoothInv, Knows, AddPoint
<1> QED BY <1>1, <1>9, <1>10, <1>11, <1>12, <1>13, Quiet

\* The answer is taken when the handler has added the caller.
LEMMA GetAddrReturnsInv ==
  ASSUME Inv, NEW c \in Client, GetAddrReturns(c)
  PROVE  Inv'
<1>0. TypeOK /\ ClientInv(c) /\ (c \in Booth => BoothInv(c)) BY DEF Inv
<1>1. /\ pc[own(c)] = "wait" /\ pc[handler(c)] = "reply"
      /\ new_peers' = [new_peers EXCEPT ![c] = response[c] \o @]
      /\ response' = [response EXCEPT ![c] = <<>>]
      /\ left' = [left EXCEPT ![c] = Tail(@)]
      /\ answered' = IF c \in Miner
                     THEN [answered EXCEPT ![c] = @ \cup {callee[c]}] ELSE answered
      /\ callee' = [callee EXCEPT ![c] = c]
      /\ pc' = [pc EXCEPT ![own(c)] = "ask", ![handler(c)] = "idle"]
      /\ UNCHANGED <<peers, adding, seen, ret, rounds, overlap, received, failed>>
  BY DEF GetAddrReturns, Answers, addvars
<1>2. "ask" \in OwnPoint /\ "idle" \in HandlerPoint BY DEF OwnPoint, HandlerPoint
<1>3. left[c] # <<>> /\ left[c] \in Seq(Address) BY <1>0, <1>1, Types DEF TypeOK
<1>4. /\ Tail(left[c]) \in Seq(Address)
      /\ ToSet(Tail(left[c])) \subseteq ToSet(left[c])
  BY <1>3, HeadAndTail
<1>5. left'[c] = Tail(left[c]) /\ \A d \in Client \ {c} : left'[d] = left[d]
  BY <1>0, <1>1, Types
<1>6. /\ pc' \in [Thread -> OwnPoint \cup HandlerPoint]
      /\ \A d \in Client : /\ pc'[own(d)] \in OwnPoint
                           /\ pc'[handler(d)] \in HandlerPoint
                           /\ pc'[own(d)] = "wait" => left'[d] # <<>>
      /\ pc'[own(c)] = "ask" /\ pc'[handler(c)] = "idle"
      /\ \A t \in Thread \ {own(c), handler(c)} : pc'[t] = pc[t]
  BY <1>0, <1>1, <1>2, <1>5, PointsType
<1>7. \A d \in Client \ {c} : callee'[d] = callee[d] /\ answered'[d] = answered[d]
  BY <1>0, <1>1, Types
<1>8. c \in Miner => answered'[c] = answered[c] \cup {callee[c]}
  BY <1>0, <1>1, Types
<1>9. TypeOK'
  <2>1. response[c] \o new_peers[c] \in Seq(Address) BY <1>0, Types
  <2>2. new_peers' \in [Client -> Seq(Address)] BY <1>0, <1>1, <2>1, Types
  <2>3. response' \in [Client -> Seq(Address)] BY <1>0, <1>1, Types
  <2>4. left' \in [Client -> Seq(Address)] BY <1>0, <1>1, <1>4, Types
  <2>5. answered' \in [Client -> SUBSET Client] /\ callee' \in [Client -> Client]
    BY <1>0, <1>1, Types
  <2> QED BY <1>0, <1>1, <1>6, <2>2, <2>3, <2>4, <2>5 DEF TypeOK
<1>10. Elsewhere(c) BY <1>1, <1>5, <1>6, <1>7 DEF Elsewhere
<1>11. ASSUME NEW t \in {own(c), handler(c)}, Adding(t)'
       PROVE  /\ Adding(t) /\ At(t)' = At(t) /\ adding'[t] = adding[t]
              /\ pc'[t] = pc[t] /\ seen'[t] = seen[t]
  BY <1>11, <1>6 DEF Adding
<1>12. ASSUME c \in Miner, NEW p \in answered'[c] PROVE Known(c, p)'
  BY <1>0, <1>1, <1>8, <1>12 DEF ClientInv, Known
<1>13. ClientInv(c)'
  BY <1>0, <1>1, <1>4, <1>5, <1>6, <1>12 DEF ClientInv, AddPoint
<1>14. c \in Booth => BoothInv(c)'
  BY <1>0, <1>1, <1>6 DEF BoothInv, Knows, AddPoint
<1> QED BY <1>1, <1>9, <1>10, <1>11, <1>13, <1>14, Quiet

\* A call that fails is left out of the loop; its handler may go on.
LEMMA GetAddrFailsInv ==
  ASSUME Inv, NEW c \in Client, GetAddrFails(c)
  PROVE  Inv'
<1>0. TypeOK /\ ClientInv(c) /\ (c \in Booth => BoothInv(c)) BY DEF Inv
<1>1. /\ pc[own(c)] \in {"ask", "wait"} /\ left[c] # <<>> /\ Goto(own(c), "ask")
      /\ left' = [left EXCEPT ![c] = Tail(@)]
      /\ UNCHANGED <<peers, adding, seen, ret, callee, response, new_peers, rounds,
                     overlap, answered, received, failed>>
  BY DEF GetAddrFails, addvars, history
<1>2. "ask" \in OwnPoint BY DEF OwnPoint
<1>3. /\ Tail(left[c]) \in Seq(Address)
      /\ ToSet(Tail(left[c])) \subseteq ToSet(left[c])
  BY <1>0, <1>1, Types, HeadAndTail
<1>4. left'[c] = Tail(left[c]) /\ \A d \in Client \ {c} : left'[d] = left[d]
  BY <1>0, <1>1, Types
<1>5. /\ pc' \in [Thread -> OwnPoint \cup HandlerPoint]
      /\ \A d \in Client : /\ pc'[own(d)] \in OwnPoint
                           /\ pc'[handler(d)] \in HandlerPoint
                           /\ pc'[own(d)] = "wait" => left'[d] # <<>>
      /\ pc'[own(c)] = "ask" /\ pc'[handler(c)] = pc[handler(c)]
      /\ \A t \in Thread \ {own(c), handler(c)} : pc'[t] = pc[t]
  BY <1>0, <1>1, <1>2, <1>4, OwnPoints
<1>6. TypeOK' BY <1>0, <1>1, <1>3, <1>5, Types DEF TypeOK
<1>7. Elsewhere(c) BY <1>1, <1>4, <1>5 DEF Elsewhere
<1>8. ASSUME NEW t \in {own(c), handler(c)}, Adding(t)'
      PROVE  /\ Adding(t) /\ At(t)' = At(t) /\ adding'[t] = adding[t]
             /\ pc'[t] = pc[t] /\ seen'[t] = seen[t]
  BY <1>8, <1>1, <1>5, Threads DEF Adding
<1>9. ClientInv(c)'
  BY <1>0, <1>1, <1>3, <1>4, <1>5 DEF ClientInv, Known, AddPoint
<1>10. c \in Booth => BoothInv(c)'
  BY <1>0, <1>1, <1>5 DEF BoothInv, Knows, AddPoint
<1> QED BY <1>1, <1>6, <1>7, <1>8, <1>9, <1>10, Quiet

\* One of the addresses found is tried.
LEMMA NextNewPeerInv ==
  ASSUME Inv, NEW c \in Client, NextNewPeer(c)
  PROVE  Inv'
<1>0. TypeOK /\ ClientInv(c) /\ (c \in Booth => BoothInv(c)) BY DEF Inv
<1>1. /\ pc[own(c)] = "ask" /\ new_peers[c] # <<>> /\ Goto(own(c), "test")
      /\ adding' = [adding EXCEPT ![own(c)] = Head(new_peers[c])]
      /\ ret' = [ret EXCEPT ![own(c)] = "ask"]
      /\ new_peers' = [new_peers EXCEPT ![c] = Tail(@)]
      /\ UNCHANGED <<seen, peers, left, callee, response, rounds, overlap,
                     answered, received, failed>>
  BY DEF NextNewPeer, Enter, history
<1>2. "test" \in OwnPoint BY DEF OwnPoint
<1>3. Head(new_peers[c]) \in Address /\ Tail(new_peers[c]) \in Seq(Address)
  BY <1>0, <1>1, Types, HeadAndTail
<1>4. /\ pc' \in [Thread -> OwnPoint \cup HandlerPoint]
      /\ \A d \in Client : /\ pc'[own(d)] \in OwnPoint
                           /\ pc'[handler(d)] \in HandlerPoint
                           /\ pc'[own(d)] = "wait" => left'[d] # <<>>
      /\ pc'[own(c)] = "test" /\ pc'[handler(c)] = pc[handler(c)]
      /\ \A t \in Thread \ {own(c), handler(c)} : pc'[t] = pc[t]
  BY <1>0, <1>1, <1>2, OwnPoints
<1>5. TypeOK'
  <2>1. /\ adding' \in [Thread -> Address] /\ new_peers' \in [Client -> Seq(Address)]
        /\ ret' \in [Thread -> {"idle", "walk", "ask", "reply"}]
    BY <1>0, <1>1, <1>3, Types
  <2> QED BY <1>0, <1>1, <1>4, <2>1 DEF TypeOK
<1>6. /\ ret'[own(c)] = "ask"
      /\ \A t \in Thread \ {own(c)} : adding'[t] = adding[t] /\ ret'[t] = ret[t]
  BY <1>0, <1>1, Types, Threads
<1>7. Elsewhere(c) BY <1>1, <1>4, <1>6 DEF Elsewhere
<1>8. ASSUME NEW t \in {own(c), handler(c)}, Adding(t)'
      PROVE  /\ Adding(t) /\ At(t)' = At(t) /\ adding'[t] = adding[t]
             /\ pc'[t] = pc[t] /\ seen'[t] = seen[t]
  BY <1>8, <1>1, <1>4, <1>6, Threads DEF Adding
<1>9. ClientInv(c)'
  BY <1>0, <1>1, <1>4, <1>6, Threads DEF ClientInv, Known, AddPoint
<1>10. c \in Booth => BoothInv(c)'
  BY <1>0, <1>1, <1>4, <1>6 DEF BoothInv, Knows, AddPoint
<1> QED BY <1>1, <1>5, <1>7, <1>8, <1>9, <1>10, Quiet

\* A booth's list is complete when its broadcast starts: nobody else adds to it.
LEMMA EndBootstrapInv ==
  ASSUME Inv, NEW c \in Client, EndBootstrap(c)
  PROVE  Inv'
<1>0. TypeOK /\ ClientInv(c) /\ (c \in Booth => BoothInv(c)) BY DEF Inv
<1>1. /\ pc[own(c)] = "ask"
      /\ new_peers' = [new_peers EXCEPT ![c] = <<>>]
      /\ \/ c \in Miner /\ Goto(own(c), "idle") /\ left' = left
         \/ /\ c \in Booth /\ Goto(own(c), "vote")
            /\ left' = [left EXCEPT ![c] = peers[c]]
      /\ UNCHANGED <<adding, seen, ret, peers, callee, response, rounds, overlap,
                     answered, received, failed>>
  BY DEF EndBootstrap, addvars, history
<1>2. c \in Miner <=> c \notin Booth BY ClientAssumption DEF Client
<1>3. /\ left'[c] = IF c \in Miner THEN left[c] ELSE peers[c]
      /\ \A d \in Client \ {c} : left'[d] = left[d]
  BY <1>0, <1>1, <1>2, Types
<1> DEFINE point == IF c \in Miner THEN "idle" ELSE "vote"
<1>4. point \in OwnPoint /\ Goto(own(c), point) /\ point # "wait"
  BY <1>1, <1>2 DEF OwnPoint
<1>5. /\ pc' \in [Thread -> OwnPoint \cup HandlerPoint]
      /\ \A d \in Client : /\ pc'[own(d)] \in OwnPoint
                           /\ pc'[handler(d)] \in HandlerPoint
                           /\ pc'[own(d)] = "wait" => left'[d] # <<>>
      /\ pc'[own(c)] = point /\ pc'[handler(c)] = pc[handler(c)]
      /\ \A t \in Thread \ {own(c), handler(c)} : pc'[t] = pc[t]
  <2> HIDE DEF point
  <2> QED BY <1>0, <1>3, <1>4, OwnPoints
<1>6. TypeOK'
  <2>1. left' \in [Client -> Seq(Address)] BY <1>0, <1>1, Types
  <2>2. new_peers' \in [Client -> Seq(Address)] BY <1>0, <1>1, Types
  <2> QED BY <1>0, <1>1, <1>5, <2>1, <2>2 DEF TypeOK
<1>7. Elsewhere(c) BY <1>1, <1>3, <1>5 DEF Elsewhere
<1>8. ASSUME NEW t \in {own(c), handler(c)}, Adding(t)'
      PROVE  /\ Adding(t) /\ At(t)' = At(t) /\ adding'[t] = adding[t]
             /\ pc'[t] = pc[t] /\ seen'[t] = seen[t]
  BY <1>8, <1>1, <1>5, Threads DEF Adding
<1>9. ClientInv(c)'
  BY <1>0, <1>1, <1>3, <1>5 DEF ClientInv, Known, AddPoint
<1>10. c \in Booth => BoothInv(c)'
  <2>1. SUFFICES ASSUME c \in Booth PROVE BoothInv(c)' OBVIOUS
  <2>2. pc'[own(c)] = "vote" /\ left'[c] = peers[c] BY <1>2, <1>3, <1>5, <2>1
  <2>3. ~overlap[c] /\ FirstPeer[c] \in ToSet(peers[c]) /\ received[c] = <<>>
    BY <1>0, <1>1, <2>1 DEF BoothInv, Knows
  <2>4. Distinct(peers[c]) BY <1>0, <2>3 DEF ClientInv
  <2>5. Distinct(<<>>) /\ ToSet(<<>>) = {} BY DEF Distinct, ToSet
  <2> QED BY <1>1, <2>2, <2>3, <2>4, <2>5 DEF BoothInv, Knows, AddPoint
<1> QED BY <1>1, <1>6, <1>7, <1>8, <1>9, <1>10, Quiet

\* The handler of a call that broke off ends.
LEMMA DiscardReplyInv ==
  ASSUME Inv, NEW c \in Client, DiscardReply(c)
  PROVE  Inv'
<1>0. TypeOK /\ ClientInv(c) /\ (c \in Booth => BoothInv(c)) BY DEF Inv
<1>1. /\ pc[handler(c)] = "reply" /\ pc[own(c)] # "wait" /\ Goto(handler(c), "idle")
      /\ response' = [response EXCEPT ![c] = <<>>]
      /\ callee' = [callee EXCEPT ![c] = c]
      /\ UNCHANGED <<peers, adding, seen, ret, left, new_peers, rounds, overlap,
                     answered, received, failed>>
  BY DEF DiscardReply, addvars, history
<1>2. "idle" \in HandlerPoint BY DEF HandlerPoint
<1>3. /\ pc' \in [Thread -> OwnPoint \cup HandlerPoint]
      /\ \A d \in Client : /\ pc'[own(d)] \in OwnPoint
                           /\ pc'[handler(d)] \in HandlerPoint
                           /\ pc'[own(d)] = "wait" => left'[d] # <<>>
      /\ pc'[own(c)] = pc[own(c)] /\ pc'[handler(c)] = "idle"
      /\ \A t \in Thread \ {own(c), handler(c)} : pc'[t] = pc[t]
  BY <1>0, <1>1, <1>2, HandlerPoints
<1>4. \A d \in Client \ {c} : callee'[d] = callee[d] BY <1>0, <1>1, Types
<1>5. TypeOK'
  <2>1. callee' \in [Client -> Client] /\ response' \in [Client -> Seq(Address)]
    BY <1>0, <1>1, Types
  <2> QED BY <1>0, <1>1, <1>3, <2>1 DEF TypeOK
<1>6. Elsewhere(c) BY <1>1, <1>3, <1>4 DEF Elsewhere
<1>7. ASSUME NEW t \in {own(c), handler(c)}, Adding(t)'
      PROVE  /\ Adding(t) /\ At(t)' = At(t) /\ adding'[t] = adding[t]
             /\ pc'[t] = pc[t] /\ seen'[t] = seen[t]
  BY <1>7, <1>1, <1>3, Threads DEF Adding
<1>8. ClientInv(c)'
  BY <1>0, <1>1, <1>3 DEF ClientInv, Known, AddPoint
<1>9. c \in Booth => BoothInv(c)'
  BY <1>0, <1>1, <1>3 DEF BoothInv, Knows, AddPoint
<1> QED BY <1>1, <1>5, <1>6, <1>7, <1>8, <1>9, Quiet

-----------------------------------------------------------------------------
(* The booth's broadcast. *)

\* A call of the broadcast takes the miner off the list: it is received there,
\* or the call failed.
LEMMA SendVoteInv ==
  ASSUME Inv, NEW c \in Client, SendVote(c)
  PROVE  Inv'
<1>0. c \in Booth /\ TypeOK /\ ClientInv(c) /\ BoothInv(c)
  BY DEF Inv, SendVote, ClientInv
<1> DEFINE peer == Head(left[c])
           rest == Tail(left[c])
<1>1. /\ pc[own(c)] = "vote" /\ left[c] # <<>> /\ VoteCall(c, peer)
      /\ left' = [left EXCEPT ![c] = rest]
      /\ UNCHANGED <<peers, pc, adding, seen, ret, callee, response, new_peers, rounds,
                     overlap, answered>>
  BY DEF SendVote, addvars
<1>2. /\ peer \in Address /\ rest \in Seq(Address)
      /\ ToSet(left[c]) = {peer} \cup ToSet(rest)
  BY <1>0, <1>1, Types, HeadAndTail
<1>3. /\ Distinct(received[c]) /\ Distinct(left[c])
      /\ ToSet(received[c]) \cap ToSet(left[c]) = {}
      /\ FirstPeer[c] \in ToSet(received[c]) \cup failed[c] \cup ToSet(left[c])
  BY <1>0, <1>1 DEF BoothInv
<1>4. Distinct(rest) /\ peer \notin ToSet(rest)
  BY <1>0, <1>1, <1>2, <1>3, Types, DistinctSteps
<1> HIDE DEF peer, rest
<1>5. left'[c] = rest /\ \A d \in Client \ {c} : left'[d] = left[d]
  BY <1>0, <1>1, Types
<1>6. \/ /\ received' = [received EXCEPT ![c] = Append(received[c], peer)]
         /\ failed' \in {failed, [failed EXCEPT ![c] = failed[c] \cup {peer}]}
      \/ /\ received' = received
         /\ failed' = [failed EXCEPT ![c] = failed[c] \cup {peer}]
  BY <1>1 DEF VoteCall
<1>7. received[c] \in Seq(Address) BY <1>0, Types
<1>8. /\ Append(received[c], peer) \in Seq(Address)
      /\ ToSet(Append(received[c], peer)) = ToSet(received[c]) \cup {peer}
  BY <1>2, <1>7, Appended
<1>9. peer \notin ToSet(received[c]) BY <1>2, <1>3
<1>10. Distinct(Append(received[c], peer)) BY <1>2, <1>3, <1>7, <1>9, DistinctSteps
<1>11. \/ /\ received'[c] = Append(received[c], peer)
          /\ failed'[c] \in {failed[c], failed[c] \cup {peer}}
       \/ /\ received'[c] = received[c]
          /\ failed'[c] = failed[c] \cup {peer}
  BY <1>0, <1>6, Types
<1>12. \A d \in Client \ {c} : received'[d] = received[d] /\ failed'[d] = failed[d]
  BY <1>0, <1>6, Types
<1>13. TypeOK'
  <2>1. left' \in [Client -> Seq(Address)] BY <1>0, <1>1, <1>2, Types
  <2>2. received' \in [Client -> Seq(Address)] BY <1>0, <1>6, <1>8, Types
  <2>3. failed[c] \cup {peer} \in SUBSET Address BY <1>0, <1>2, Types
  <2>4. failed' \in [Client -> SUBSET Address] BY <1>0, <1>6, <2>3, Types
  <2>5. \A d \in Client : pc'[own(d)] = "wait" => left'[d] # <<>>
    BY <1>0, <1>1, <1>5 DEF TypeOK
  <2> QED BY <1>0, <1>1, <2>1, <2>2, <2>4, <2>5 DEF TypeOK
<1>14. Elsewhere(c) BY <1>1, <1>5, <1>12 DEF Elsewhere
<1>15. ASSUME NEW t \in {own(c), handler(c)}, Adding(t)'
       PROVE  /\ Adding(t) /\ At(t)' = At(t) /\ adding'[t] = adding[t]
              /\ pc'[t] = pc[t] /\ seen'[t] = seen[t]
  BY <1>15, <1>0, <1>1, Threads DEF Adding
<1>16. ClientInv(c)'
  <2>1. ToSet(left'[c]) \subseteq Miner \ {c} BY <1>0, <1>2, <1>5 DEF ClientInv
  <2> QED BY <1>0, <1>1, <2>1 DEF ClientInv, Known
<1>17. BoothInv(c)'
  <2>1. Distinct(received'[c]) /\ Distinct(left'[c])
    BY <1>3, <1>4, <1>5, <1>10, <1>11
  <2>2. ToSet(received'[c]) \cap ToSet(left'[c]) = {}
    BY <1>2, <1>3, <1>4, <1>5, <1>8, <1>11
  <2>3. FirstPeer[c] \in ToSet(received'[c]) \cup failed'[c] \cup ToSet(left'[c])
    BY <1>2, <1>3, <1>5, <1>8, <1>11
  <2> QED BY <1>0, <1>1, <2>1, <2>2, <2>3 DEF BoothInv, Knows
<1> QED BY <1>0, <1>1, <1>13, <1>14, <1>15, <1>16, <1>17, Quiet

\* The booth says that the vote has been cast when every call has been made.
LEMMA SayCastInv ==
  ASSUME Inv, NEW c \in Client, SayCast(c)
  PROVE  Inv'
<1>0. c \in Booth /\ TypeOK /\ ClientInv(c) /\ BoothInv(c)
  BY DEF Inv, SayCast, ClientInv
<1>1. /\ pc[own(c)] = "vote" /\ left[c] = <<>> /\ Goto(own(c), "cast")
      /\ UNCHANGED <<peers, adding, seen, ret, left, callee, response, new_peers, rounds,
                     overlap, answered, received, failed>>
  BY DEF SayCast, addvars, callvars, history
<1>2. "cast" \in OwnPoint BY DEF OwnPoint
<1>3. /\ pc' \in [Thread -> OwnPoint \cup HandlerPoint]
      /\ \A d \in Client : /\ pc'[own(d)] \in OwnPoint
                           /\ pc'[handler(d)] \in HandlerPoint
                           /\ pc'[own(d)] = "wait" => left'[d] # <<>>
      /\ pc'[own(c)] = "cast" /\ pc'[handler(c)] = pc[handler(c)]
      /\ \A t \in Thread \ {own(c), handler(c)} : pc'[t] = pc[t]
  BY <1>0, <1>1, <1>2, OwnPoints
<1>4. TypeOK' BY <1>0, <1>1, <1>3 DEF TypeOK
<1>5. Elsewhere(c) BY <1>1, <1>3 DEF Elsewhere
<1>6. ASSUME NEW t \in {own(c), handler(c)}, Adding(t)'
      PROVE  /\ Adding(t) /\ At(t)' = At(t) /\ adding'[t] = adding[t]
             /\ pc'[t] = pc[t] /\ seen'[t] = seen[t]
  BY <1>6, <1>0, <1>1, <1>3, Threads DEF Adding
<1>7. ClientInv(c)'
  BY <1>0, <1>1, <1>3 DEF ClientInv, Known, AddPoint
<1>8. BoothInv(c)'
  BY <1>0, <1>1, <1>3 DEF BoothInv, Knows, AddPoint
<1> QED BY <1>0, <1>1, <1>4, <1>5, <1>6, <1>7, <1>8, Quiet

-----------------------------------------------------------------------------
(* The steps of addNewPeer. *)

\* addNewPeer moves only the thread that calls it.
LEMMA AddPoints ==
  ASSUME Inv, NEW c \in Client, NEW t \in {own(c), handler(c)}, NEW p,
         t = own(c) => p \in OwnPoint \ {"wait"},
         t = handler(c) => p \in HandlerPoint,
         Goto(t, p), UNCHANGED left
  PROVE  /\ pc' \in [Thread -> OwnPoint \cup HandlerPoint]
         /\ \A d \in Client : /\ pc'[own(d)] \in OwnPoint
                              /\ pc'[handler(d)] \in HandlerPoint
                              /\ pc'[own(d)] = "wait" => left'[d] # <<>>
         /\ pc'[t] = p
         /\ \A u \in Thread \ {t} : pc'[u] = pc[u]
<1>0. TypeOK BY DEF Inv
<1>1. t \in Thread /\ pc \in [Thread -> OwnPoint \cup HandlerPoint] BY <1>0, Threads, Types
<1>2. pc'[t] = p /\ \A u \in Thread \ {t} : pc'[u] = pc[u] BY <1>1 DEF Goto
<1> HIDE DEF OwnPoint, HandlerPoint
<1>3. CASE t = own(c) BY <1>0, <1>2, <1>3, OwnPoints
<1>4. CASE t = handler(c) BY <1>0, <1>2, <1>4, HandlerPoints
<1> QED BY <1>3, <1>4

\* A return from addNewPeer that leaves the list alone: a handler may answer
\* when the caller is known, a booth may go on when it knows its first peer.
LEMMA QuietReturn ==
  ASSUME Inv, NEW c \in Client, NEW t \in {own(c), handler(c)}, pc[t] \in AddPoint,
         Return(t), UNCHANGED <<peers, callvars, rounds, history>>,
         t = handler(c) /\ c \in Miner => Known(c, callee[c]),
         t = own(c) /\ c \in Booth => FirstPeer[c] \in ToSet(peers[c])
  PROVE  Inv'
<1>0. TypeOK /\ ClientInv(c) /\ (c \in Booth => BoothInv(c)) BY DEF Inv
<1>1. /\ Goto(t, ret[t])
      /\ adding' = [adding EXCEPT ![t] = NOT_AN_IP_TOKEN]
      /\ seen' = [seen EXCEPT ![t] = <<>>]
      /\ ret' = [ret EXCEPT ![t] = "idle"]
      /\ UNCHANGED <<peers, left, callee, response, new_peers, rounds, overlap,
                     answered, received, failed>>
  BY DEF Return, callvars, history
<1>2. /\ t = own(c) => ret[t] \in {"walk", "ask"}
      /\ t = handler(c) => ret[t] = "reply"
  BY <1>0 DEF ClientInv
<1>3. /\ t = own(c) => ret[t] \in OwnPoint \ {"wait"}
      /\ t = handler(c) => ret[t] \in HandlerPoint
  BY <1>2 DEF OwnPoint, HandlerPoint
<1>4. /\ pc' \in [Thread -> OwnPoint \cup HandlerPoint]
      /\ \A d \in Client : /\ pc'[own(d)] \in OwnPoint
                           /\ pc'[handler(d)] \in HandlerPoint
                           /\ pc'[own(d)] = "wait" => left'[d] # <<>>
      /\ pc'[t] = ret[t]
      /\ \A u \in Thread \ {t} : pc'[u] = pc[u]
  BY <1>1, <1>3, AddPoints
<1>5. \A u \in Thread \ {t} : adding'[u] = adding[u] /\ seen'[u] = seen[u] /\ ret'[u] = ret[u]
  BY <1>0, <1>1, Types
<1>6. TypeOK'
  <2>1. adding' \in [Thread -> Address] BY <1>0, <1>1, Types
  <2>2. seen' \in [Thread -> Seq(Address)]
    <3>1. <<>> \in Seq(Address) /\ seen \in [Thread -> Seq(Address)] BY <1>0, Types
    <3> QED BY <1>1, <3>1
  <2>3. ret' \in [Thread -> {"idle", "walk", "ask", "reply"}] BY <1>0, <1>1, Types
  <2> QED BY <1>0, <1>1, <1>4, <2>1, <2>2, <2>3 DEF TypeOK
<1>7. Elsewhere(c) BY <1>1, <1>4, <1>5 DEF Elsewhere
<1>8. ASSUME NEW u \in {own(c), handler(c)}, Adding(u)'
      PROVE  /\ Adding(u) /\ At(u)' = At(u) /\ adding'[u] = adding[u]
             /\ pc'[u] = pc[u] /\ seen'[u] = seen[u]
  <2>1. pc'[t] \notin {"search", "begin", "link"} BY <1>2, <1>4
  <2>2. u # t /\ u \in Thread BY <1>8, <2>1, Threads DEF Adding
  <2> QED BY <1>8, <1>1, <1>4, <1>5, <2>2, Threads DEF Adding
<1>9. ClientInv(c)'
  <2>1. CASE t = own(c)
    <3>1. pc'[handler(c)] = pc[handler(c)] /\ pc'[own(c)] \in {"walk", "ask"}
      BY <1>2, <1>4, <2>1, Threads
    <3>2. adding'[handler(c)] = adding[handler(c)] /\ ret'[handler(c)] = ret[handler(c)]
      BY <1>5, <2>1, Threads
    <3> QED BY <1>0, <1>1, <3>1, <3>2 DEF ClientInv, Known, AddPoint
  <2>2. CASE t = handler(c)
    <3>1. pc'[own(c)] = pc[own(c)] /\ pc'[handler(c)] = "reply"
      BY <1>2, <1>4, <2>2, Threads
    <3>2. ret'[own(c)] = ret[own(c)] BY <1>5, <2>2, Threads
    <3>3. callee[c] \in Miner \ {c} BY <1>0, <2>2 DEF ClientInv, AddPoint
    <3> QED BY <1>0, <1>1, <2>2, <3>1, <3>2, <3>3 DEF ClientInv, Known, AddPoint
  <2> QED BY <2>1, <2>2
<1>10. ASSUME c \in Booth PROVE BoothInv(c)'
  <2>1. CASE t = own(c)
    <3>1. pc'[own(c)] \in {"walk", "ask"} BY <1>2, <1>4, <2>1
    <3>2. received[c] = <<>> /\ ~overlap[c]
      BY <1>0, <1>10, <2>1 DEF BoothInv, AddPoint
    <3> QED BY <1>1, <1>10, <2>1, <3>1, <3>2 DEF BoothInv, Knows, AddPoint
  <2>2. CASE t = handler(c)
    <3>1. /\ pc'[own(c)] = pc[own(c)] /\ ret'[own(c)] = ret[own(c)]
          /\ adding'[own(c)] = adding[own(c)]
      BY <1>4, <1>5, <2>2, Threads
    <3> QED BY <1>0, <1>1, <1>10, <3>1 DEF BoothInv, Knows
  <2> QED BY <2>1, <2>2
<1> QED BY <1>1, <1>6, <1>7, <1>8, <1>9, <1>10, Quiet

\* A refused address leaves the list full, or it is none of another miner.
LEMMA RefuseInv ==
  ASSUME Inv, NEW c \in Client, NEW t \in {own(c), handler(c)}, Refuse(t)
  PROVE  Inv'
<1>0. TypeOK /\ ClientInv(c) /\ (c \in Booth => BoothInv(c)) BY DEF Inv
<1>1. pc[t] = "test" /\ Refusable(t) /\ Return(t)
  BY DEF Refuse
<1>2. ASSUME t = handler(c), c \in Miner PROVE Known(c, callee[c])
  <2>1. adding[t] = c /\ callee[c] \in Miner \ {c}
    BY <1>0, <1>1, <1>2, ClientAssumption DEF ClientInv, AddPoint, my_address
  <2>2. At(t) = callee[c] /\ my_address(callee[c]) = callee[c]
    BY <1>2, <2>1, Threads, ClientAssumption DEF my_address
  <2>3. c # NOT_AN_IP_TOKEN BY ClientAssumption
  <2> QED BY <1>1, <2>1, <2>2, <2>3 DEF Refusable, Known
<1>3. ASSUME t = own(c), c \in Booth PROVE FirstPeer[c] \in ToSet(peers[c])
  <2>1. SUFFICES ASSUME ~Knows(c) PROVE FALSE BY <1>0, <1>3 DEF BoothInv
  <2>2. peers[c] = <<>> /\ adding[t] = FirstPeer[c]
    BY <1>0, <1>1, <1>3, <2>1 DEF BoothInv, AddPoint
  <2>3. Len(peers[c]) = 0 /\ MAX_PEERS > 0 BY <2>2, LimitAssumption
  <2>4. adding[t] \in Miner BY <2>2, ClientAssumption
  <2>5. my_address(c) = NOT_AN_IP_TOKEN /\ NOT_AN_IP_TOKEN \notin Miner
    BY <1>3, ClientAssumption DEF my_address, Client
  <2>6. At(t) = c BY <1>3, Threads
  <2>7. ~(Len(peers[c]) >= MAX_PEERS) BY <2>3, LimitAssumption
  <2> QED BY <1>1, <2>4, <2>5, <2>6, <2>7 DEF Refusable
<1>4. UNCHANGED <<peers, callvars, rounds, history>> BY DEF Refuse
<1>5. pc[t] \in AddPoint BY <1>1 DEF AddPoint
<1> QED BY <1>1, <1>2, <1>3, <1>4, <1>5, QuietReturn

\* An address that is found is known.
LEMMA FoundInv ==
  ASSUME Inv, NEW c \in Client, NEW t \in {own(c), handler(c)}, Found(t)
  PROVE  Inv'
<1>0. TypeOK /\ ClientInv(c) /\ (c \in Booth => BoothInv(c)) BY DEF Inv
<1>1. pc[t] = "search" /\ adding[t] \in ToSet(peers[At(t)]) /\ Return(t)
  BY DEF Found
<1>2. ASSUME t = handler(c), c \in Miner PROVE Known(c, callee[c])
  <2>1. adding[t] = c
    BY <1>0, <1>1, <1>2, ClientAssumption DEF ClientInv, AddPoint, my_address
  <2> QED BY <1>1, <1>2, <2>1, Threads DEF Known
<1>3. ASSUME t = own(c), c \in Booth PROVE FirstPeer[c] \in ToSet(peers[c])
  <2>1. Knows(c) \/ adding[t] = FirstPeer[c]
    BY <1>0, <1>1, <1>3 DEF BoothInv, AddPoint
  <2> QED BY <1>0, <1>1, <1>3, <2>1, Threads DEF BoothInv
<1>4. UNCHANGED <<peers, callvars, rounds, history>> BY DEF Found
<1>5. pc[t] \in AddPoint BY <1>1 DEF AddPoint
<1> QED BY <1>1, <1>2, <1>3, <1>4, <1>5, QuietReturn

\* A step inside addNewPeer, from one point to the next, that leaves the list
\* alone.
LEMMA QuietMove ==
  ASSUME Inv, NEW c \in Client, NEW t \in {own(c), handler(c)}, Adding(t),
         NEW p \in {"begin", "link"}, Goto(t, p), AddInv(t)',
         \A u \in Thread \ {t} : seen'[u] = seen[u],
         seen' \in [Thread -> Seq(Address)],
         UNCHANGED <<peers, adding, ret, callvars, rounds, history>>
  PROVE  Inv'
<1>0. TypeOK /\ ClientInv(c) /\ (c \in Booth => BoothInv(c)) BY DEF Inv
<1>1. UNCHANGED <<peers, adding, ret, left, callee, response, new_peers, rounds,
                  overlap, answered, received, failed>>
  BY DEF callvars, history
<1>2. p \in OwnPoint \ {"wait"} /\ p \in HandlerPoint BY DEF OwnPoint, HandlerPoint
<1>3. /\ pc' \in [Thread -> OwnPoint \cup HandlerPoint]
      /\ \A d \in Client : /\ pc'[own(d)] \in OwnPoint
                           /\ pc'[handler(d)] \in HandlerPoint
                           /\ pc'[own(d)] = "wait" => left'[d] # <<>>
      /\ pc'[t] = p
      /\ \A u \in Thread \ {t} : pc'[u] = pc[u]
  BY <1>1, <1>2, AddPoints
<1>4. TypeOK' BY <1>0, <1>1, <1>3 DEF TypeOK
<1>5. Elsewhere(c) BY <1>1, <1>3 DEF Elsewhere
<1>6. ASSUME NEW u \in {own(c), handler(c)}, Adding(u)'
      PROVE  /\ Adding(u) /\ At(u)' = At(u) /\ adding'[u] = adding[u]
             /\ (pc'[u] = pc[u] /\ seen'[u] = seen[u]) \/ AddInv(u)'
  <2>1. At(u)' = At(u) /\ adding'[u] = adding[u] BY <1>1, Threads
  <2>2. u # t => pc'[u] = pc[u] /\ seen'[u] = seen[u] BY <1>3, Threads
  <2>3. Adding(u) BY <1>6, <2>2 DEF Adding
  <2> QED BY <2>1, <2>2, <2>3
<1>7. /\ \A d \in {own(c), handler(c)} : pc'[d] \in AddPoint => pc[d] \in AddPoint
      /\ \A d \in {own(c), handler(c)} : pc'[d] \notin AddPoint => pc'[d] = pc[d]
      /\ pc[t] \notin {"idle", "test", "wait", "reply"} /\ pc[t] \in AddPoint
  BY <1>3, Threads DEF Adding, AddPoint
<1>8. ClientInv(c)'
  <2>1. pc'[own(c)] \in {"vote", "cast"} => c \in Booth
    BY <1>0, <1>7 DEF ClientInv, AddPoint
  <2>2. pc'[own(c)] = "wait" => pc'[handler(c)] # "idle"
    BY <1>0, <1>7 DEF ClientInv, AddPoint
  <2>3. pc'[handler(c)] # "idle" => callee[c] \in Miner \ {c}
    BY <1>0, <1>7 DEF ClientInv, AddPoint
  <2>4. pc'[handler(c)] = "reply" => pc[handler(c)] = "reply"
    BY <1>7 DEF AddPoint
  <2> QED BY <1>0, <1>1, <1>7, <2>1, <2>2, <2>3, <2>4 DEF ClientInv, Known
<1>9. ASSUME c \in Booth PROVE BoothInv(c)'
  <2>1. CASE t = own(c)
    <3>1. pc'[own(c)] = p /\ pc[own(c)] \in AddPoint BY <1>3, <1>7, <2>1
    <3> QED BY <1>0, <1>1, <1>9, <3>1 DEF BoothInv, Knows, AddPoint
  <2>2. CASE t = handler(c)
    <3>1. pc'[own(c)] = pc[own(c)] BY <1>3, <2>2, Threads
    <3> QED BY <1>0, <1>1, <1>9, <3>1 DEF BoothInv, Knows
  <2> QED BY <2>1, <2>2
<1> QED BY <1>1, <1>4, <1>5, <1>6, <1>8, <1>9, Quiet

\* The search has not found the address.
LEMMA NotFoundInv ==
  ASSUME Inv, NEW c \in Client, NEW t \in {own(c), handler(c)}, NotFound(t)
  PROVE  Inv'
<1>0. TypeOK /\ AddInv(t) /\ t \in Thread BY Threads DEF Inv
<1>1. /\ pc[t] = "search" /\ adding[t] \notin ToSet(peers[At(t)]) /\ Goto(t, "begin")
      /\ UNCHANGED <<peers, adding, seen, ret, callvars, rounds, history>>
  BY DEF NotFound, addvars
<1>2. Adding(t) BY <1>1 DEF Adding
<1>3. pc'[t] = "begin" /\ \A u \in Thread \ {t} : pc'[u] = pc[u]
  BY <1>0, <1>1, Types DEF Goto
<1>4. \A u \in Thread : At(u)' = At(u) BY <1>1 DEF At, callvars
<1>5. \A u \in Thread : Adding(u)' => Adding(u) BY <1>2, <1>3 DEF Adding
<1>6. overlap' = overlap BY <1>1 DEF history
<1>7. AddInv(t)'
  <2> HIDE DEF Adding, At
  <2> QED BY <1>0, <1>1, <1>2, <1>3, <1>4, <1>5, <1>6 DEF AddInv
<1>8. seen' \in [Thread -> Seq(Address)] BY <1>0, <1>1, Types
<1> QED BY <1>1, <1>2, <1>7, <1>8, QuietMove

\* push_front reads the first node.
LEMMA BeginPushInv ==
  ASSUME Inv, NEW c \in Client, NEW t \in {own(c), handler(c)}, BeginPush(t)
  PROVE  Inv'
<1>0. TypeOK /\ AddInv(t) /\ t \in Thread BY Threads DEF Inv
<1>1. /\ pc[t] = "begin" /\ Goto(t, "link")
      /\ seen' = [seen EXCEPT ![t] = peers[At(t)]]
      /\ UNCHANGED <<peers, adding, ret, callvars, rounds, history>>
  BY DEF BeginPush
<1>2. Adding(t) BY <1>1 DEF Adding
<1>3. pc'[t] = "link" /\ \A u \in Thread \ {t} : pc'[u] = pc[u]
  BY <1>0, <1>1, Types DEF Goto
<1>4. \A u \in Thread : At(u)' = At(u) BY <1>1 DEF At, callvars
<1>5. \A u \in Thread : Adding(u)' => Adding(u) BY <1>2, <1>3 DEF Adding
<1>6. overlap' = overlap BY <1>1 DEF history
<1>7. At(t) \in Client
  <2>1. callee[c] \in Client BY <1>0, Types
  <2> QED BY <2>1, Threads
<1>8. /\ seen'[t] = peers[At(t)] /\ \A u \in Thread \ {t} : seen'[u] = seen[u]
      /\ seen' \in [Thread -> Seq(Address)]
  BY <1>0, <1>1, <1>7, Types
<1>9. ToSet(peers[At(t)]) \subseteq Miner \ {At(t)} BY <1>7 DEF Inv, ClientInv
<1>10. AddInv(t)'
  <2> HIDE DEF Adding, At
  <2> QED BY <1>0, <1>1, <1>2, <1>3, <1>4, <1>5, <1>6, <1>8, <1>9 DEF AddInv
<1> QED BY <1>1, <1>2, <1>8, <1>10, QuietMove

\* A booth's list is changed by its own thread only: calls are to miners.
LEMMA BoothAlone ==
  ASSUME Inv, NEW b \in Booth, NEW t \in Thread, pc[t] \in AddPoint, At(t) = b
  PROVE  t = own(b)
<1>1. PICK c \in Client : t = own(c) \/ t = handler(c) BY Threads
<1>2. CASE t = handler(c)
  <2>1. callee[c] \in Miner BY <1>2 DEF Inv, ClientInv, AddPoint
  <2>2. callee[c] = b BY <1>2, Threads
  <2> QED BY <2>1, <2>2, ClientAssumption
<1>3. CASE t = own(c) BY <1>3, Threads
<1> QED BY <1>1, <1>2, <1>3

\* A step of addNewPeer that may change the list it works on, or find that
\* additions overlap there, preserves what concerns other clients: a list on
\* which none overlap only grows, so who is known stays known.
LEMMA Growth ==
  ASSUME Inv, TypeOK', NEW c \in Client, NEW t \in {own(c), handler(c)},
         pc[t] \in AddPoint,
         \A u \in Thread \ {t} : /\ pc'[u] = pc[u] /\ adding'[u] = adding[u]
                                 /\ seen'[u] = seen[u] /\ ret'[u] = ret[u],
         UNCHANGED <<left, callee, answered, received, failed>>,
         \A d \in Client \ {At(t)} : peers'[d] = peers[d] /\ overlap'[d] = overlap[d],
         overlap[At(t)] => overlap'[At(t)],
         ~overlap'[At(t)] => /\ ToSet(peers[At(t)]) \subseteq ToSet(peers'[At(t)])
                             /\ Len(peers[At(t)]) <= Len(peers'[At(t)])
                             /\ Len(peers'[At(t)]) <= MAX_PEERS
                             /\ Distinct(peers'[At(t)]),
         ToSet(peers'[At(t)]) \subseteq Miner \ {At(t)},
         \A u \in Thread : AddInv(u)',
         t = own(c) => /\ pc'[t] \in {"search", "walk", "ask"}
                       /\ pc'[t] = "search" => ret'[t] = ret[t]
                       /\ c \in Booth => BoothInv(c)',
         t = handler(c) => /\ pc'[t] \in {"search", "reply"}
                           /\ pc'[t] = "search" => /\ adding'[t] = adding[t]
                                                   /\ ret'[t] = ret[t]
                           /\ pc'[t] = "reply" /\ c \in Miner => Known(c, callee[c])'
  PROVE  Inv'
<1>0. TypeOK BY DEF Inv
<1>1. At(t) \in Client
  <2>1. callee[c] \in Client BY <1>0, Types
  <2> QED BY <2>1, Threads
<1>2. ASSUME NEW d, NEW p \in Client, Known(d, p) PROVE Known(d, p)'
  <2>1. CASE p # At(t) BY <1>2, <2>1 DEF Known
  <2>2. CASE p = At(t)
    <3>1. SUFFICES ASSUME ~overlap'[p]
                   PROVE  d \in ToSet(peers'[p]) \/ Len(peers'[p]) >= MAX_PEERS
      BY DEF Known
    <3>2. d \in ToSet(peers[p]) \/ Len(peers[p]) >= MAX_PEERS
      BY <1>2, <2>2, <3>1 DEF Known
    <3>3. Len(peers[p]) \in Nat BY <1>0, Types
    <3>4. peers'[p] \in Seq(Address) BY DEF TypeOK
    <3>5. Len(peers'[p]) \in Nat BY <3>4
    <3> QED BY <2>2, <3>1, <3>2, <3>3, <3>5, LimitAssumption
  <2> QED BY <2>1, <2>2
<1>3. ASSUME NEW d \in Client
      PROVE  /\ ToSet(peers'[d]) \subseteq Miner \ {d}
             /\ ~overlap'[d] => Len(peers'[d]) <= MAX_PEERS /\ Distinct(peers'[d])
  <2>1. CASE d = At(t) BY <2>1
  <2>2. CASE d # At(t) BY <2>2 DEF Inv, ClientInv
  <2> QED BY <2>1, <2>2
<1>4. ASSUME NEW d \in Client PROVE ClientInv(d)'
  <2>1. ClientInv(d) /\ answered[d] \subseteq Client /\ callee[d] \in Client
    BY <1>0, Types DEF Inv
  <2>2. ASSUME d \in Miner
        PROVE  /\ Known(d, callee[d]) => Known(d, callee[d])'
               /\ \A p \in answered[d] : Known(d, p) => Known(d, p)'
    BY <1>2, <2>1
  <2>3. \A p \in answered'[d] : d \in Miner => Known(d, p)'
    BY <2>1, <2>2 DEF ClientInv
  <2>4. CASE own(d) # t /\ handler(d) # t
    <3>1. /\ pc'[own(d)] = pc[own(d)] /\ pc'[handler(d)] = pc[handler(d)]
          /\ ret'[own(d)] = ret[own(d)] /\ ret'[handler(d)] = ret[handler(d)]
          /\ adding'[handler(d)] = adding[handler(d)]
      BY <2>4, Threads
    <3>2. d \in Miner /\ pc'[handler(d)] = "reply" => Known(d, callee[d])'
      BY <2>1, <2>2, <3>1 DEF ClientInv
    <3> QED BY <1>3, <2>1, <2>3, <3>1, <3>2 DEF ClientInv
  <2>5. CASE own(d) = t
    <3>1. d = c BY <2>5, Threads
    <3>2. /\ pc'[handler(d)] = pc[handler(d)] /\ ret'[handler(d)] = ret[handler(d)]
          /\ adding'[handler(d)] = adding[handler(d)]
      BY <2>5, Threads
    <3>3. d \in Miner /\ pc'[handler(d)] = "reply" => Known(d, callee[d])'
      BY <2>1, <2>2, <3>2 DEF ClientInv
    <3>4. /\ pc'[own(d)] \in {"search", "walk", "ask"}
          /\ pc'[own(d)] = "search" => ret'[own(d)] = ret[own(d)]
          /\ pc[own(d)] \in AddPoint
      BY <2>5, <3>1
    <3> QED BY <1>3, <2>1, <2>3, <3>2, <3>3, <3>4 DEF ClientInv, AddPoint
  <2>6. CASE handler(d) = t
    <3>1. d = c /\ pc[handler(d)] \in AddPoint BY <2>6, Threads
    <3>2. pc'[own(d)] = pc[own(d)] /\ ret'[own(d)] = ret[own(d)] BY <2>6, Threads
    <3>3. /\ pc'[handler(d)] \in {"search", "reply"}
          /\ pc'[handler(d)] = "search" => /\ adding'[handler(d)] = adding[handler(d)]
                                           /\ ret'[handler(d)] = ret[handler(d)]
      BY <2>6, <3>1
    <3>4. d \in Miner /\ pc'[handler(d)] = "reply" => Known(d, callee[d])'
      BY <2>6, <3>1
    <3>5. callee[d] \in Miner \ {d} BY <2>1, <3>1 DEF ClientInv, AddPoint
    <3> QED BY <1>3, <2>1, <2>3, <3>1, <3>2, <3>3, <3>4, <3>5 DEF ClientInv, AddPoint
  <2> QED BY <2>4, <2>5, <2>6
<1>5. ASSUME NEW b \in Booth PROVE BoothInv(b)'
  <2>1. CASE t = own(b)
    <3>1. b = c BY <2>1, Threads DEF Client
    <3> QED BY <2>1, <3>1
  <2>2. CASE t # own(b)
    <3>1. b \in Client /\ t \in Thread BY Threads DEF Client
    <3>2. At(t) # b BY <2>2, <3>1, BoothAlone
    <3>3. peers'[b] = peers[b] /\ overlap'[b] = overlap[b] BY <3>1, <3>2
    <3>4. /\ pc'[own(b)] = pc[own(b)] /\ ret'[own(b)] = ret[own(b)]
          /\ adding'[own(b)] = adding[own(b)]
      BY <2>2, <3>1, Threads
    <3>5. BoothInv(b) BY DEF Inv
    <3> QED BY <3>3, <3>4, <3>5 DEF BoothInv, Knows
  <2> QED BY <2>1, <2>2
<1> QED BY <1>4, <1>5 DEF Inv

\* The address passes the tests: it is another miner's, and there is room
\* unless another thread is past the test too, which is then an overlap.
LEMMA AcceptInv ==
  ASSUME Inv, NEW c \in Client, NEW t \in {own(c), handler(c)}, Accept(t)
  PROVE  Inv'
<1>0. TypeOK /\ ClientInv(c) /\ (c \in Booth => BoothInv(c)) BY DEF Inv
<1> DEFINE a == At(t)
<1>1. /\ pc[t] = "test" /\ ~Refusable(t) /\ Goto(t, "search")
      /\ overlap' = [overlap EXCEPT ![a] = overlap[a] \/ AddersAt(a) # {}]
      /\ UNCHANGED <<peers, adding, seen, ret, left, callee, response, new_peers,
                     rounds, answered, received, failed>>
  BY DEF Accept, addvars, callvars
<1>2. t \in Thread /\ a \in Client
  <2>1. callee[c] \in Client BY <1>0, Types
  <2> QED BY <2>1, Threads
<1>3. /\ overlap'[a] = (overlap[a] \/ AddersAt(a) # {})
      /\ \A d \in Client \ {a} : overlap'[d] = overlap[d]
      /\ overlap' \in [Client -> BOOLEAN]
  <2>1. (overlap[a] \/ AddersAt(a) # {}) \in BOOLEAN OBVIOUS
  <2> HIDE DEF a
  <2> QED BY <1>0, <1>1, <1>2, <2>1, Types
<1>4. "search" \in OwnPoint \ {"wait"} /\ "search" \in HandlerPoint
  BY DEF OwnPoint, HandlerPoint
<1>5. /\ pc' \in [Thread -> OwnPoint \cup HandlerPoint]
      /\ \A d \in Client : /\ pc'[own(d)] \in OwnPoint
                           /\ pc'[handler(d)] \in HandlerPoint
                           /\ pc'[own(d)] = "wait" => left'[d] # <<>>
      /\ pc'[t] = "search"
      /\ \A u \in Thread \ {t} : pc'[u] = pc[u]
  BY <1>1, <1>4, AddPoints
<1>6. TypeOK' BY <1>0, <1>1, <1>3, <1>5 DEF TypeOK
<1>7. \A u \in Thread : At(u)' = At(u) BY <1>1 DEF At
<1>8. adding[t] \in Miner \ {a} /\ Len(peers[a]) < MAX_PEERS
  <2>1. /\ adding[t] \in Address /\ adding[t] # NOT_AN_IP_TOKEN
        /\ adding[t] # my_address(a) /\ ~(Len(peers[a]) >= MAX_PEERS)
    BY <1>0, <1>1, <1>2, Types DEF Refusable
  <2>2. adding[t] \in Miner BY <2>1 DEF Address
  <2>3. adding[t] # a BY <2>1, <2>2, ClientAssumption DEF my_address
  <2>4. Len(peers[a]) \in Nat BY <1>0, <1>2, Types
  <2> QED BY <2>1, <2>2, <2>3, <2>4, LimitAssumption
<1>9. ASSUME NEW u \in Thread PROVE AddInv(u)'
  <2>1. CASE u = t
    <3>1. ASSUME ~overlap'[a], NEW v \in Thread, Adding(v)', At(v)' = a PROVE v = t
      <4>1. SUFFICES ASSUME v # t PROVE FALSE OBVIOUS
      <4>2. Adding(v) BY <1>5, <3>1, <4>1 DEF Adding
      <4>3. v \in AddersAt(a) BY <1>7, <3>1, <4>2 DEF AddersAt
      <4> QED BY <1>3, <3>1, <4>3
    <3>2. At(t)' = a BY <1>2, <1>7
    <3>3. peers' = peers /\ adding' = adding BY <1>1
    <3> HIDE DEF a
    <3> QED BY <1>5, <1>8, <2>1, <3>1, <3>2, <3>3 DEF AddInv
  <2>2. CASE u # t
    <3>1. pc'[u] = pc[u] /\ At(u)' = At(u) BY <1>5, <1>7, <2>2
    <3>2. SUFFICES ASSUME Adding(u) PROVE AddInv(u)' BY <3>1 DEF AddInv, Adding
    <3>3. AddInv(u) BY DEF Inv
    <3>4. peers' = peers /\ adding' = adding /\ seen' = seen BY <1>1
    <3>5. CASE At(u) = a
      <4>1. u \in AddersAt(a) BY <3>2, <3>5 DEF AddersAt
      <4>2. overlap'[a] BY <1>3, <4>1
      <4> HIDE DEF a, Adding, At
      <4> QED BY <3>1, <3>2, <3>3, <3>4, <3>5, <4>2 DEF AddInv
    <3>6. CASE At(u) # a
      <4>1. At(u) \in Client
        <5>1. PICK d \in Client : u = own(d) \/ u = handler(d) BY Threads
        <5>2. callee[d] \in Client BY <1>0, Types
        <5> QED BY <5>1, <5>2, Threads
      <4>2. overlap'[At(u)] = overlap[At(u)] BY <1>3, <3>6, <4>1
      <4>3. ASSUME NEW v \in Thread, Adding(v)', At(v)' = At(u) PROVE Adding(v)
        <5>1. v # t BY <1>7, <3>6, <4>3
        <5> QED BY <1>5, <4>3, <5>1 DEF Adding
      <4>4. \A v \in Thread : At(v)' = At(v) BY <1>7
      <4> HIDE DEF a, Adding, At
      <4> QED BY <3>1, <3>2, <3>3, <3>4, <4>2, <4>3, <4>4 DEF AddInv
    <3> QED BY <3>5, <3>6
  <2> QED BY <2>1, <2>2
<1>10. ASSUME t = own(c), c \in Booth PROVE BoothInv(c)'
  <2>1. a = c BY <1>10, Threads
  <2>2. AddersAt(c) = {}
    <3>1. SUFFICES ASSUME NEW v \in AddersAt(c) PROVE FALSE OBVIOUS
    <3>2. v \in Thread /\ pc[v] \in AddPoint /\ At(v) = c /\ pc[v] # "test"
      BY <3>1 DEF AddersAt, Adding, AddPoint
    <3>3. v = t BY <3>2, <1>10, BoothAlone
    <3> QED BY <1>1, <3>2, <3>3
  <2>3. ~overlap'[c] BY <1>0, <1>3, <1>10, <2>1, <2>2 DEF BoothInv
  <2>4. pc[own(c)] = "test" /\ pc'[own(c)] = "search" BY <1>1, <1>5, <1>10
  <2> QED BY <1>0, <1>1, <1>10, <2>3, <2>4 DEF BoothInv, Knows, AddPoint
<1>11. /\ \A d \in Client \ {a} : peers'[d] = peers[d] /\ overlap'[d] = overlap[d]
       /\ overlap[a] => overlap'[a]
       /\ ToSet(peers'[a]) \subseteq Miner \ {a}
       /\ ~overlap'[a] => /\ ToSet(peers[a]) \subseteq ToSet(peers'[a])
                          /\ Len(peers[a]) <= Len(peers'[a])
                          /\ Len(peers'[a]) <= MAX_PEERS
                          /\ Distinct(peers'[a])
  <2>1. /\ ToSet(peers[a]) \subseteq Miner \ {a}
        /\ ~overlap[a] => Len(peers[a]) <= MAX_PEERS /\ Distinct(peers[a])
    BY <1>2 DEF Inv, ClientInv
  <2>2. Len(peers[a]) \in Nat BY <1>0, <1>2, Types
  <2>3. peers' = peers BY <1>1
  <2> HIDE DEF a
  <2>4. overlap[a] => overlap'[a] BY <1>3, Zenon
  <2> QED BY <1>3, <2>1, <2>2, <2>3, <2>4
<1>12. pc[t] \in AddPoint BY <1>1 DEF AddPoint
<1>13. \A u \in Thread \ {t} : /\ pc'[u] = pc[u] /\ adding'[u] = adding[u]
                               /\ seen'[u] = seen[u] /\ ret'[u] = ret[u]
  BY <1>1, <1>5
<1>14. /\ t = own(c) => /\ pc'[t] \in {"search", "walk", "ask"}
                        /\ pc'[t] = "search" => ret'[t] = ret[t]
                        /\ c \in Booth => BoothInv(c)'
       /\ t = handler(c) => /\ pc'[t] \in {"search", "reply"}
                            /\ pc'[t] = "search" => /\ adding'[t] = adding[t]
                                                    /\ ret'[t] = ret[t]
                            /\ pc'[t] = "reply" /\ c \in Miner => Known(c, callee[c])'
  BY <1>1, <1>5, <1>10
<1>15. UNCHANGED <<left, callee, answered, received, failed>> BY <1>1
<1> QED BY <1>6, <1>9, <1>11, <1>12, <1>13, <1>14, <1>15, Growth

\* push_front keeps to other miners' addresses; up to the first overlap it
\* adds the one address, and nothing is lost.
LEMMA LinkFacts ==
  ASSUME Inv, NEW c \in Client, NEW t \in {own(c), handler(c)}, Link(t)
  PROVE  /\ At(t) \in Client /\ adding[t] \in Miner \ {At(t)}
         /\ peers' \in [Client -> Seq(Address)]
         /\ \A d \in Client \ {At(t)} : peers'[d] = peers[d]
         /\ ToSet(peers'[At(t)]) \subseteq Miner \ {At(t)}
         /\ ~overlap[At(t)] =>
              /\ adding[t] \notin ToSet(peers[At(t)])
              /\ Len(peers[At(t)]) < MAX_PEERS
              /\ Len(peers'[At(t)]) = Len(peers[At(t)]) + 1
              /\ ToSet(peers'[At(t)]) = {adding[t]} \cup ToSet(peers[At(t)])
              /\ Distinct(peers'[At(t)])
<1>0. TypeOK BY DEF Inv
<1> DEFINE a == At(t)
           x == adding[t]
<1>1. t \in Thread /\ a \in Client
  <2>1. callee[c] \in Client BY <1>0, Types
  <2> QED BY <2>1, Threads
<1>2. pc[t] = "link" /\ Adding(t) BY DEF Link, Adding
<1>3. PICK list \in Linked(peers[a], seen[t], x) : peers' = [peers EXCEPT ![a] = list]
  BY DEF Link
<1>4. AddInv(t) BY <1>1 DEF Inv
<1>5. /\ x \in Miner \ {a} /\ ToSet(seen[t]) \subseteq Miner \ {a}
      /\ ~overlap[a] => /\ Len(peers[a]) < MAX_PEERS
                        /\ x \notin ToSet(peers[a]) /\ seen[t] = peers[a]
  BY <1>2, <1>4 DEF AddInv
<1>6. peers[a] \in Seq(Address) /\ seen[t] \in Seq(Address) /\ x \in Address
  BY <1>0, <1>1, Types
<1>7. /\ ToSet(peers[a]) \subseteq Miner \ {a}
      /\ ~overlap[a] => Distinct(peers[a])
  BY <1>1 DEF Inv, ClientInv
<1> HIDE DEF a, x
<1>8. /\ list \in Seq(Address)
      /\ ToSet(list) \subseteq ToSet(peers[a]) \cup ToSet(seen[t]) \cup {x}
      /\ seen[t] = peers[a] => list = <<x>> \o peers[a]
  BY <1>3, <1>6, LinkedLists
<1>9. /\ peers' \in [Client -> Seq(Address)] /\ peers'[a] = list
      /\ \A d \in Client \ {a} : peers'[d] = peers[d]
  BY <1>0, <1>1, <1>3, <1>8, Types
<1>10. ToSet(peers'[a]) \subseteq Miner \ {a} BY <1>5, <1>7, <1>8, <1>9
<1>11. ASSUME ~overlap[a]
       PROVE  /\ Len(peers'[a]) = Len(peers[a]) + 1
              /\ ToSet(peers'[a]) = {x} \cup ToSet(peers[a])
              /\ Distinct(peers'[a])
  <2>1. peers'[a] = <<x>> \o peers[a] BY <1>5, <1>8, <1>9, <1>11
  <2>2. ToSet(<<x>> \o peers[a]) = {x} \cup ToSet(peers[a]) BY <1>6, Pushed
  <2>3. Len(<<x>> \o peers[a]) = Len(peers[a]) + 1 BY <1>6
  <2>4. Distinct(<<x>> \o peers[a]) BY <1>5, <1>6, <1>7, <1>11, DistinctSteps
  <2> QED BY <2>1, <2>2, <2>3, <2>4
<1> QED BY <1>1, <1>5, <1>9, <1>10, <1>11 DEF a, x

\* The address is linked into the list.
LEMMA LinkInv ==
  ASSUME Inv, NEW c \in Client, NEW t \in {own(c), handler(c)}, Link(t)
  PROVE  Inv'
<1>0. TypeOK /\ ClientInv(c) /\ (c \in Booth => BoothInv(c)) BY DEF Inv
<1> DEFINE a == At(t)
<1>1. /\ pc[t] = "link" /\ Goto(t, ret[t])
      /\ adding' = [adding EXCEPT ![t] = NOT_AN_IP_TOKEN]
      /\ seen' = [seen EXCEPT ![t] = <<>>]
      /\ ret' = [ret EXCEPT ![t] = "idle"]
      /\ UNCHANGED <<left, callee, response, new_peers, rounds, overlap,
                     answered, received, failed>>
  BY DEF Link, Return, callvars, history
<1>2. t \in Thread /\ Adding(t) /\ pc[t] \in AddPoint
  BY <1>1, Threads DEF Adding, AddPoint
<1>3. /\ a \in Client /\ adding[t] \in Miner \ {a}
      /\ peers' \in [Client -> Seq(Address)]
      /\ \A d \in Client \ {a} : peers'[d] = peers[d]
      /\ ToSet(peers'[a]) \subseteq Miner \ {a}
      /\ ~overlap[a] => /\ Len(peers[a]) < MAX_PEERS
                        /\ Len(peers'[a]) = Len(peers[a]) + 1
                        /\ ToSet(peers'[a]) = {adding[t]} \cup ToSet(peers[a])
                        /\ Distinct(peers'[a])
  BY LinkFacts
<1>4. /\ t = own(c) => ret[t] \in {"walk", "ask"}
      /\ t = handler(c) => ret[t] = "reply"
  BY <1>0, <1>2 DEF ClientInv
<1>5. /\ t = own(c) => ret[t] \in OwnPoint \ {"wait"}
      /\ t = handler(c) => ret[t] \in HandlerPoint
  BY <1>4 DEF OwnPoint, HandlerPoint
<1>6. /\ pc' \in [Thread -> OwnPoint \cup HandlerPoint]
      /\ \A d \in Client : /\ pc'[own(d)] \in OwnPoint
                           /\ pc'[handler(d)] \in HandlerPoint
                           /\ pc'[own(d)] = "wait" => left'[d] # <<>>
      /\ pc'[t] = ret[t]
      /\ \A u \in Thread \ {t} : pc'[u] = pc[u]
  BY <1>1, <1>5, AddPoints
<1>7. \A u \in Thread \ {t} : adding'[u] = adding[u] /\ seen'[u] = seen[u] /\ ret'[u] = ret[u]
  BY <1>0, <1>1, Types
<1>8. TypeOK'
  <2>1. adding' \in [Thread -> Address] BY <1>0, <1>1, Types
  <2>2. seen' \in [Thread -> Seq(Address)]
    <3>1. <<>> \in Seq(Address) /\ seen \in [Thread -> Seq(Address)] BY <1>0, Types
    <3> QED BY <1>1, <3>1
  <2>3. ret' \in [Thread -> {"idle", "walk", "ask", "reply"}] BY <1>0, <1>1, Types
  <2> QED BY <1>0, <1>1, <1>3, <1>6, <2>1, <2>2, <2>3 DEF TypeOK
<1>9. \A u \in Thread : At(u)' = At(u) BY <1>1 DEF At
<1>10. pc'[t] \in {"walk", "ask", "reply"} BY <1>4, <1>6
<1>11. ASSUME NEW u \in Thread PROVE AddInv(u)'
  <2>1. SUFFICES ASSUME Adding(u)' PROVE AddInv(u)' BY DEF AddInv
  <2>2. u # t BY <1>10, <2>1 DEF Adding
  <2>3. /\ pc'[u] = pc[u] /\ adding'[u] = adding[u] /\ seen'[u] = seen[u]
        /\ At(u)' = At(u) /\ Adding(u)
    BY <1>6, <1>7, <1>9, <2>1, <2>2 DEF Adding
  <2>4. AddInv(u) /\ AddInv(t) BY <1>2 DEF Inv
  <2>5. \A v \in Thread : (Adding(v) /\ At(v) = At(u))' => Adding(v) /\ At(v) = At(u)
    BY <1>6, <1>9, <1>10, <2>3 DEF Adding
  <2>6. overlap' = overlap BY <1>1
  <2>7. CASE At(u) = a
    <3>1. overlap[a] BY <1>2, <2>2, <2>3, <2>4, <2>7 DEF AddInv
    <3> HIDE DEF a, Adding, At
    <3> QED BY <2>1, <2>3, <2>4, <2>6, <2>7, <3>1 DEF AddInv
  <2>8. CASE At(u) # a
    <3>1. At(u) \in Client
      <4>1. PICK d \in Client : u = own(d) \/ u = handler(d) BY Threads
      <4>2. callee[d] \in Client BY <1>0, Types
      <4> QED BY <4>1, <4>2, Threads
    <3>2. peers'[At(u)] = peers[At(u)] BY <1>3, <2>8, <3>1
    <3> HIDE DEF a, Adding, At
    <3> QED BY <2>1, <2>3, <2>4, <2>5, <2>6, <3>2 DEF AddInv
  <2> QED BY <2>7, <2>8
<1>12. ASSUME t = own(c), c \in Booth PROVE BoothInv(c)'
  <2>1. a = c /\ ~overlap[c] BY <1>0, <1>12, Threads DEF BoothInv
  <2>2. ToSet(peers'[c]) = {adding[t]} \cup ToSet(peers[c]) BY <1>3, <2>1
  <2>3. FirstPeer[c] \in ToSet(peers'[c])
    BY <1>0, <1>2, <1>12, <2>2 DEF BoothInv
  <2>4. pc'[own(c)] \in {"walk", "ask"} BY <1>4, <1>6, <1>12
  <2>5. received[c] = <<>> BY <1>0, <1>1, <1>12 DEF BoothInv
  <2> QED BY <1>1, <2>1, <2>3, <2>4, <2>5 DEF BoothInv, Knows, AddPoint
<1>13. ASSUME t = handler(c), c \in Miner PROVE Known(c, callee[c])'
  <2>1. adding[t] = c /\ a = callee[c]
    BY <1>0, <1>2, <1>13, Threads, ClientAssumption DEF ClientInv, my_address
  <2>2. callee' = callee /\ overlap' = overlap BY <1>1
  <2> QED BY <1>3, <2>1, <2>2 DEF Known
<1>14. /\ overlap[a] => overlap'[a]
       /\ \A d \in Client \ {a} : peers'[d] = peers[d] /\ overlap'[d] = overlap[d]
       /\ ~overlap'[a] => /\ ToSet(peers[a]) \subseteq ToSet(peers'[a])
                          /\ Len(peers[a]) <= Len(peers'[a])
                          /\ Len(peers'[a]) <= MAX_PEERS
                          /\ Distinct(peers'[a])
  <2>1. Len(peers[a]) \in Nat BY <1>0, <1>3, Types
  <2>2. overlap' = overlap BY <1>1
  <2> HIDE DEF a
  <2> QED BY <1>3, <2>1, <2>2, LimitAssumption
<1>15. /\ t = own(c) => /\ pc'[t] \in {"search", "walk", "ask"}
                        /\ pc'[t] = "search" => ret'[t] = ret[t]
                        /\ c \in Booth => BoothInv(c)'
       /\ t = handler(c) => /\ pc'[t] \in {"search", "reply"}
                            /\ pc'[t] = "search" => /\ adding'[t] = adding[t]
                                                    /\ ret'[t] = ret[t]
                            /\ pc'[t] = "reply" /\ c \in Miner => Known(c, callee[c])'
  BY <1>4, <1>6, <1>12, <1>13
<1>16. UNCHANGED <<left, callee, answered, received, failed>> BY <1>1
<1>17. \A u \in Thread \ {t} : /\ pc'[u] = pc[u] /\ adding'[u] = adding[u]
                               /\ seen'[u] = seen[u] /\ ret'[u] = ret[u]
  BY <1>6, <1>7
<1> QED BY <1>2, <1>3, <1>8, <1>11, <1>14, <1>15, <1>16, <1>17, Growth

-----------------------------------------------------------------------------
(* The theorems. *)

\* The initial states satisfy the invariant.
LEMMA InitInv == Init => Inv
<1> SUFFICES ASSUME Init PROVE Inv OBVIOUS
<1>1. TypeOK
  <2>1. NOT_AN_IP_TOKEN \in Address /\ <<>> \in Seq(Address) BY DEF Address
  <2>2. \A c \in Client : pc[own(c)] = "idle" /\ pc[handler(c)] = "idle"
    BY Threads DEF Init
  <2>3. pc \in [Thread -> OwnPoint \cup HandlerPoint] BY DEF Init, OwnPoint
  <2>4. "idle" \in OwnPoint /\ "idle" \in HandlerPoint BY DEF OwnPoint, HandlerPoint
  <2>5. \A c \in Client : /\ pc[own(c)] \in OwnPoint
                          /\ pc[handler(c)] \in HandlerPoint
                          /\ pc[own(c)] = "wait" => left[c] # <<>>
    BY <2>2, <2>4
  <2> QED BY <2>1, <2>3, <2>5 DEF Init, TypeOK
<1>2. \A t \in Thread : pc[t] = "idle" BY DEF Init
<1>3. \A t \in Thread : AddInv(t) BY <1>2 DEF AddInv, Adding
<1>4. ToSet(<<>>) = {} /\ Distinct(<<>>) /\ Len(<<>>) = 0 BY DEF ToSet, Distinct
<1>5. ASSUME NEW c \in Client PROVE ClientInv(c)
  <2>1. pc[own(c)] = "idle" /\ pc[handler(c)] = "idle" BY <1>2, Threads
  <2>2. peers[c] = <<>> /\ left[c] = <<>> /\ answered[c] = {} BY DEF Init
  <2>3. 0 <= MAX_PEERS BY LimitAssumption
  <2> QED BY <1>4, <2>1, <2>2, <2>3 DEF ClientInv, AddPoint
<1>6. ASSUME NEW b \in Booth PROVE BoothInv(b)
  <2>1. b \in Client BY DEF Client
  <2>2. pc[own(b)] = "idle" BY <1>2, <2>1, Threads
  <2>3. peers[b] = <<>> /\ received[b] = <<>> /\ ~overlap[b] BY <2>1 DEF Init
  <2> QED BY <2>2, <2>3 DEF BoothInv, Knows, AddPoint
<1> QED BY <1>1, <1>3, <1>5, <1>6 DEF Inv

\* Every step is one of the actions of a client or of its handler.
LEMMA NextInv == Inv /\ [Next]_vars => Inv'
<1> SUFFICES ASSUME Inv, [Next]_vars PROVE Inv' OBVIOUS
<1>1. ASSUME NEW c \in Client, NEW t \in {own(c), handler(c)}, AddNewPeer(t)
      PROVE  Inv'
  BY <1>1, RefuseInv, AcceptInv, FoundInv, NotFoundInv, BeginPushInv, LinkInv
  DEF AddNewPeer
<1>2. CASE Next
  <2>1. PICK c \in Client : Bootstrap(c) \/ GetAddrFails(c) \/ Own(c) \/ Handler(c)
    BY <1>2 DEF Next
  <2>2. CASE Bootstrap(c) BY <2>2, BootstrapInv
  <2>3. CASE GetAddrFails(c) BY <2>3, GetAddrFailsInv
  <2>4. CASE Own(c)
    <3>1. CASE BootstrapPeers(c)
      BY <3>1, WalkInv, CallGetAddrInv, GetAddrReturnsInv, NextNewPeerInv,
         EndBootstrapInv DEF BootstrapPeers
    <3>2. CASE AddNewPeer(own(c)) BY <1>1, <3>2
    <3>3. CASE SendVote(c) \/ SayCast(c) BY <3>3, SendVoteInv, SayCastInv
    <3> QED BY <2>4, <3>1, <3>2, <3>3 DEF Own
  <2>5. CASE Handler(c)
    <3>1. CASE AddNewPeer(handler(c)) BY <1>1, <3>1
    <3>2. CASE DiscardReply(c) BY <3>2, DiscardReplyInv
    <3> QED BY <2>5, <3>1, <3>2 DEF Handler
  <2> QED BY <2>1, <2>2, <2>3, <2>4, <2>5
<1>3. CASE UNCHANGED vars
  <2>1. UNCHANGED <<peers, pc, adding, seen, ret, left, callee, response, new_peers,
                    rounds, overlap, answered, received, failed>>
    BY <1>3 DEF vars, addvars, callvars, history
  <2>2. \A t \in Thread : AddInv(t)'
    BY <2>1 DEF Inv, AddInv, Adding, At
  <2>3. \A c \in Client : ClientInv(c)' BY <2>1 DEF Inv, ClientInv, Known
  <2>4. \A b \in Booth : BoothInv(b)' BY <2>1 DEF Inv, BoothInv, Knows
  <2>5. TypeOK' BY <2>1 DEF Inv, TypeOK
  <2> QED BY <2>2, <2>3, <2>4, <2>5 DEF Inv
<1> QED BY <1>2, <1>3

\* The inductive invariant holds, whatever the clients, the limits and the
\* interleaving of their threads and handlers.
THEOREM Invariance == Spec => []Inv
BY InitInv, NextInv, PTL DEF Spec

\* The types of client.hpp hold, and a call in progress is one of the loop's.
THEOREM TypeCorrect == Spec => []TypeOK
<1>1. Inv => TypeOK BY DEF Inv
<1> QED BY <1>1, Invariance, PTL

\* Races or not, addNewPeer lets no client become its own peer, nor a booth
\* anybody's.
THEOREM OthersOnly == Spec => []PeersAreOthers
<1>1. Inv => PeersAreOthers
  BY DEF Inv, ClientInv, PeersAreOthers
<1> QED BY <1>1, Invariance, PTL

\* Up to the first overlap a list has at most MAX_PEERS peers and no duplicate.
THEOREM ListsWellFormed == Spec => []AddNewPeerInvariants
<1>1. Inv => AddNewPeerInvariants BY DEF Inv, ClientInv, AddNewPeerInvariants
<1> QED BY <1>1, Invariance, PTL

\* A miner whose GetAddr was answered is a peer of the one that answered, as
\* far as that one's list has room and no additions overlap on it.
THEOREM AnswersLink == Spec => []AnsweredIsKnown
<1>1. Inv => AnsweredIsKnown
  BY DEF Inv, ClientInv, AnsweredIsKnown, Known, Client
<1> QED BY <1>1, Invariance, PTL

\* No miner receives a booth's vote twice.
THEOREM OneCopyOfAVote == Spec => []VoteAtMostOnce
<1>1. Inv => VoteAtMostOnce
  <2>1. Distinct(<<>>) BY DEF Distinct
  <2> QED BY <2>1 DEF Inv, BoothInv, VoteAtMostOnce
<1> QED BY <1>1, Invariance, PTL

\* A vote that the booth calls cast has been received by its first peer, or
\* the call to this peer failed.
THEOREM CastMeansSent == Spec => []VoteReachesFirstPeer
<1>1. Inv => VoteReachesFirstPeer
  <2>1. ToSet(<<>>) = {} BY DEF ToSet
  <2> QED BY <2>1 DEF Inv, BoothInv, VoteReachesFirstPeer
<1> QED BY <1>1, Invariance, PTL

-----------------------------------------------------------------------------
(* The implementation of AtomicPeers. *)

\* A list has no more different elements than nodes.
LEMMA Few ==
  ASSUME NEW S, NEW s \in Seq(S)
  PROVE  Cardinality(ToSet(s)) <= Len(s)
<1>1. Len(s) \in Nat /\ DOMAIN s = 1..Len(s) OBVIOUS
<1>2. s \in [1..Len(s) -> ToSet(s)] BY <1>1 DEF ToSet
<1>3. s \in Surjection(1..Len(s), ToSet(s)) BY <1>1, <1>2 DEF Surjection, ToSet
<1>4. IsFiniteSet(1..Len(s)) /\ Cardinality(1..Len(s)) = Len(s) BY <1>1, FS_Interval
<1> QED BY <1>3, <1>4, FS_Surjection

\* A step that changes neither a list nor an overlap is a stuttering step of
\* AtomicPeers.
LEMMA Stutters ==
  ASSUME UNCHANGED <<peers, overlap>>
  PROVE  UNCHANGED AP!vars
BY DEF AP!vars

\* An addition that passes the tests while another is in progress ends the
\* promise for this list; otherwise it changes nothing yet.
LEMMA AcceptRefines ==
  ASSUME Inv, NEW c \in Client, NEW t \in {own(c), handler(c)}, Accept(t)
  PROVE  AP!Next \/ UNCHANGED AP!vars
<1> DEFINE a == At(t)
<1>0. TypeOK BY DEF Inv
<1>1. a \in Client
  <2>1. callee[c] \in Client BY <1>0, Types
  <2> QED BY <2>1, Threads
<1>2. /\ overlap' = [overlap EXCEPT ![a] = overlap[a] \/ AddersAt(a) # {}]
      /\ peers' = peers /\ overlap \in [Client -> BOOLEAN]
  BY <1>0, Types DEF Accept
<1> HIDE DEF a
<1>3. CASE overlap[a] \/ AddersAt(a) # {}
  <2>1. (overlap[a] \/ AddersAt(a) # {}) = TRUE BY <1>3
  <2>2. overlap' = [overlap EXCEPT ![a] = TRUE] BY <1>2, <2>1
  <2>3. AP!Break(a) BY <1>2, <2>2 DEF AP!Break
  <2> QED BY <1>1, <2>3 DEF AP!Next
<1>4. CASE ~(overlap[a] \/ AddersAt(a) # {})
  <2>1. (overlap[a] \/ AddersAt(a) # {}) = FALSE /\ overlap[a] = FALSE
    BY <1>1, <1>2, <1>4
  <2>2. overlap' = overlap BY <1>1, <1>2, <2>1
  <2> QED BY <1>2, <2>2, Stutters
<1> QED BY <1>3, <1>4

\* A node that is linked into a list is one addition of AtomicPeers, up to the
\* first overlap.
LEMMA LinkRefines ==
  ASSUME Inv, NEW c \in Client, NEW t \in {own(c), handler(c)}, Link(t)
  PROVE  AP!Next
<1> DEFINE a == At(t)
           x == adding[t]
           known == [d \in Client |-> ToSet(peers[d])]
<1>0. TypeOK BY DEF Inv
<1>1. /\ a \in Client /\ x \in Miner \ {a}
      /\ \A d \in Client \ {a} : peers'[d] = peers[d]
      /\ ToSet(peers'[a]) \subseteq Miner \ {a}
      /\ ~overlap[a] => /\ x \notin ToSet(peers[a])
                        /\ Len(peers[a]) < MAX_PEERS
                        /\ ToSet(peers'[a]) = {x} \cup ToSet(peers[a])
  BY LinkFacts
<1>2. overlap' = overlap BY DEF Link, history
<1>3. peers[a] \in Seq(Address) BY <1>0, <1>1, Types
<1> HIDE DEF a, x
<1>4. [d \in Client |-> ToSet(peers'[d])] = [known EXCEPT ![a] = ToSet(peers'[a])]
  BY <1>1
<1>5. known[a] = ToSet(peers[a]) BY <1>1
<1>6. CASE overlap[a]
  <2>1. ToSet(peers'[a]) \in SUBSET (Miner \ {a}) BY <1>1
  <2>2. AP!AnyChange(a) BY <1>2, <1>4, <1>6, <2>1 DEF AP!AnyChange
  <2> QED BY <1>1, <2>2 DEF AP!Next
<1>7. CASE ~overlap[a]
  <2>1. Cardinality(ToSet(peers[a])) <= Len(peers[a]) BY <1>3, Few
  <2>2. IsFiniteSet(ToSet(peers[a]))
    <3>1. Len(peers[a]) \in Nat /\ DOMAIN peers[a] = 1..Len(peers[a]) BY <1>3
    <3>2. peers[a] \in [1..Len(peers[a]) -> ToSet(peers[a])] BY <1>3, <3>1 DEF ToSet
    <3>3. peers[a] \in Surjection(1..Len(peers[a]), ToSet(peers[a]))
      BY <3>1, <3>2 DEF Surjection, ToSet
    <3> QED BY <3>1, <3>3, FS_Interval, FS_Surjection
  <2>3. Cardinality(ToSet(peers[a])) \in Nat BY <2>2, FS_CardinalityType
  <2>4. Cardinality(known[a]) < MAX_PEERS
    BY <1>1, <1>3, <1>5, <1>7, <2>1, <2>3, LimitAssumption
  <2>5. x \in Miner \ (known[a] \cup {a}) BY <1>1, <1>5, <1>7
  <2>6. ToSet(peers'[a]) = known[a] \cup {x} BY <1>1, <1>5, <1>7
  <2>7. [d \in Client |-> ToSet(peers'[d])] = [known EXCEPT ![a] = known[a] \cup {x}]
    BY <1>4, <2>6
  <2>8. AP!Cardinality(known[a]) = Cardinality(known[a])
    BY DEF AP!Cardinality, Cardinality, AP!IsFiniteSet, IsFiniteSet
  <2>9. AP!Add(a, x) BY <1>2, <1>7, <2>4, <2>5, <2>7, <2>8 DEF AP!Add
  <2> QED BY <1>1, <2>9 DEF AP!Next
<1> QED BY <1>6, <1>7

\* The unlocked lists implement the sets that the comment above addNewPeer
\* promises, up to the first overlap on each of them.
THEOREM Refinement == Spec => ImplementsAtomicPeers
<1>1. Init => AP!Init
  <2>1. ToSet(<<>>) = {} BY DEF ToSet
  <2>2. Init => \A c \in Client : peers[c] = <<>> BY DEF Init
  <2> QED BY <2>1, <2>2 DEF Init, AP!Init
<1>2. Inv /\ [Next]_vars => [AP!Next]_(AP!vars)
  <2> SUFFICES ASSUME Inv, [Next]_vars PROVE AP!Next \/ UNCHANGED AP!vars OBVIOUS
  <2>1. ASSUME NEW c \in Client, NEW t \in {own(c), handler(c)}, AddNewPeer(t)
        PROVE  AP!Next \/ UNCHANGED AP!vars
    <3>1. CASE Accept(t) BY <3>1, AcceptRefines
    <3>2. CASE Link(t) BY <3>2, LinkRefines
    <3>3. CASE Refuse(t) \/ Found(t) \/ NotFound(t) \/ BeginPush(t)
      <4>1. UNCHANGED <<peers, overlap>>
        BY <3>3 DEF Refuse, Found, NotFound, BeginPush, history
      <4> QED BY <4>1, Stutters
    <3> QED BY <2>1, <3>1, <3>2, <3>3 DEF AddNewPeer
  <2>2. CASE Next
    <3>1. PICK c \in Client : Bootstrap(c) \/ GetAddrFails(c) \/ Own(c) \/ Handler(c)
      BY <2>2 DEF Next
    <3>2. CASE AddNewPeer(own(c)) \/ AddNewPeer(handler(c)) BY <2>1, <3>2
    <3>3. CASE ~(AddNewPeer(own(c)) \/ AddNewPeer(handler(c)))
      <4>1. \/ Bootstrap(c) \/ GetAddrFails(c) \/ BootstrapPeers(c) \/ SendVote(c)
            \/ SayCast(c) \/ DiscardReply(c)
        BY <3>1, <3>3 DEF Own, Handler
      <4>2. UNCHANGED <<peers, overlap>>
        BY <4>1 DEF Bootstrap, GetAddrFails, BootstrapPeers, Walk, CallGetAddr,
                    GetAddrReturns, NextNewPeer, EndBootstrap, SendVote, SayCast,
                    DiscardReply, history
      <4> QED BY <4>2, Stutters
    <3> QED BY <3>2, <3>3
  <2>3. CASE UNCHANGED vars
    <3>1. UNCHANGED <<peers, overlap>> BY <2>3 DEF vars, history
    <3> QED BY <3>1, Stutters
  <2> QED BY <2>2, <2>3
<1> QED BY <1>1, <1>2, Invariance, PTL DEF Spec, ImplementsAtomicPeers, AP!Spec
=============================================================================
