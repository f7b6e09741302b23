--------------------------- MODULE RoomMeshProofs ---------------------------
(***************************************************************************)
(* Proofs about RoomMesh, for every set of receivers, every limit on the   *)
(* room and any number of departures.  The inductive invariant Inv has five *)
(* parts, each of which rests on the ones before it.                        *)
(*                                                                         *)
(*   RoomInv    what a peer is before and after it joins.  Its heart is     *)
(*              Strangers: nobody has heard of a peer before it joins, so   *)
(*              whatever names a peer names one that has joined.            *)
(*   RosterInv  the rosters, read through the messages still to come, are   *)
(*              the membership.                                            *)
(*   OfferInv   offers go one way between two peers (Directed), and as long *)
(*              as the other is in the room there is one of them, which     *)
(*              lies ready, travels or has arrived (OfferOnce).             *)
(*   AlarmInv   without trouble everybody who joined is in the room         *)
(*              (Undisturbed), so that only an entry can be refused.        *)
(*   MeshInv    without trouble a receiver learns of the room first         *)
(*              (LearnsFirst), an offer not made is promised by its task or *)
(*              a message to come (OffersFollow), and one made is followed  *)
(*              by its answer (AnswersFollow).                              *)
(*                                                                         *)
(* The steps are brought into a few shapes (Moves, Tame, Mild, Follows,      *)
(* Drops for clients; Opens, Admits, Refuses, Relays, GoesOff for the       *)
(* server), and each part of the invariant is shown once for each shape.    *)
(***************************************************************************)
EXTENDS RoomMesh, WellFoundedInduction, TLAPS

-----------------------------------------------------------------------------
(* Lemmas on sequences.                                                     *)

LEMMA InSeq ==
  ASSUME NEW S, NEW s \in Seq(S), NEW x
  PROVE  /\ x \in ToSet(s) <=> \E i \in 1..Len(s) : s[i] = x
         /\ x \in ToSet(s) => x \in S
BY DEF ToSet

LEMMA ToSetConcat ==
  ASSUME NEW S, NEW s \in Seq(S), NEW t \in Seq(S)
  PROVE  s \o t \in Seq(S) /\ ToSet(s \o t) = ToSet(s) \cup ToSet(t)
<1>1. s \o t \in Seq(S) /\ Len(s \o t) = Len(s) + Len(t) /\ Len(s) \in Nat /\ Len(t) \in Nat
  OBVIOUS
<1>2. ASSUME NEW x \in ToSet(s \o t) PROVE x \in ToSet(s) \cup ToSet(t)
  <2>0. PICK i \in DOMAIN (s \o t) : (s \o t)[i] = x
    BY <1>2, Zenon DEF ToSet
  <2>1. i \in 1..Len(s \o t) /\ (s \o t)[i] = x
    BY <1>1, <2>0
  <2>2. CASE i <= Len(s)
    <3>1. i \in 1..Len(s) /\ s[i] = x
      BY <1>1, <2>1, <2>2
    <3> QED
      BY <3>1, InSeq
  <2>3. CASE ~(i <= Len(s))
    <3>1. i - Len(s) \in 1..Len(t) /\ t[i - Len(s)] = x
      BY <1>1, <2>1, <2>3
    <3> QED
      BY <3>1, InSeq
  <2> QED
    BY <2>2, <2>3
<1>3. ASSUME NEW x \in ToSet(s) PROVE x \in ToSet(s \o t)
  <2>1. PICK i \in 1..Len(s) : s[i] = x
    BY <1>3, InSeq
  <2>2. i \in 1..Len(s \o t) /\ (s \o t)[i] = x
    BY <1>1, <2>1
  <2> QED
    BY <1>1, <2>2, InSeq
<1>4. ASSUME NEW x \in ToSet(t) PROVE x \in ToSet(s \o t)
  <2>1. PICK i \in 1..Len(t) : t[i] = x
    BY <1>4, InSeq
  <2>2. Len(s) + i \in 1..Len(s \o t) /\ (s \o t)[Len(s) + i] = x
    BY <1>1, <2>1
  <2> QED
    BY <1>1, <2>2, InSeq
<1> QED
  BY <1>1, <1>2, <1>3, <1>4

LEMMA ToSetSmall ==
  /\ ToSet(<<>>) = {}
  /\ \A x : ToSet(<<x>>) = {x}
BY DEF ToSet

LEMMA ToSetAppend ==
  ASSUME NEW S, NEW s \in Seq(S), NEW x \in S
  PROVE  Append(s, x) \in Seq(S) /\ ToSet(Append(s, x)) = ToSet(s) \cup {x}
<1>1. Append(s, x) = s \o <<x>> /\ <<x>> \in Seq(S)
  OBVIOUS
<1>2. s \o <<x>> \in Seq(S) /\ ToSet(s \o <<x>>) = ToSet(s) \cup ToSet(<<x>>)
  BY <1>1, ToSetConcat, Zenon
<1> QED
  BY <1>1, <1>2, ToSetSmall, Zenon

LEMMA ToSetTail ==
  ASSUME NEW S, NEW s \in Seq(S), s # <<>>
  PROVE  Tail(s) \in Seq(S) /\ Head(s) \in S /\ ToSet(s) = {Head(s)} \cup ToSet(Tail(s))
<1>1. s = <<Head(s)>> \o Tail(s) /\ Tail(s) \in Seq(S) /\ Head(s) \in S /\ <<Head(s)>> \in Seq(S)
  OBVIOUS
<1>2. ToSet(<<Head(s)>> \o Tail(s)) = ToSet(<<Head(s)>>) \cup ToSet(Tail(s))
  BY <1>1, ToSetConcat, Zenon
<1> QED
  BY <1>1, <1>2, ToSetSmall, Zenon

LEMMA AppendAt ==
  ASSUME NEW S, NEW s \in Seq(S), NEW x \in S
  PROVE  /\ Append(s, x) \in Seq(S) /\ Len(Append(s, x)) = Len(s) + 1 /\ Append(s, x) # <<>>
         /\ \A i \in 1..Len(s) : Append(s, x)[i] = s[i]
         /\ Append(s, x)[Len(s) + 1] = x
         /\ s # <<>> => Append(s, x)[1] = s[1]
         /\ s = <<>> => Append(s, x)[1] = x
<1>1. Append(s, x) \in Seq(S) /\ Len(Append(s, x)) = Len(s) + 1
  OBVIOUS
<1>2. Append(s, x) # <<>>
  BY <1>1, SMTT(20)
<1> QED
  BY <1>1, <1>2

LEMMA TailAt ==
  ASSUME NEW S, NEW s \in Seq(S), s # <<>>
  PROVE  /\ Tail(s) \in Seq(S) /\ Head(s) = s[1] /\ Len(s) \in Nat /\ Len(s) >= 1
         /\ Len(Tail(s)) = Len(s) - 1
         /\ \A i \in 1..Len(s) - 1 : Tail(s)[i] = s[i + 1]
OBVIOUS

Once(s, x) == \A i, j \in 1..Len(s) : s[i] = x /\ s[j] = x => i = j

LEMMA OnceAppend ==
  ASSUME NEW S, NEW s \in Seq(S), NEW y \in S, NEW x, Once(s, x), x = y => x \notin ToSet(s)
  PROVE  Once(Append(s, y), x)
<1>1. /\ Len(Append(s, y)) = Len(s) + 1 /\ Len(s) \in Nat
      /\ \A i \in 1..Len(s) : Append(s, y)[i] = s[i]
      /\ Append(s, y)[Len(s) + 1] = y
  BY AppendAt
<1>2. x = y => \A i \in 1..Len(s) : s[i] # x
  BY InSeq
<1> QED
  BY <1>1, <1>2 DEF Once

LEMMA OnceTail ==
  ASSUME NEW S, NEW s \in Seq(S), s # <<>>, NEW x, Once(s, x)
  PROVE  Once(Tail(s), x) /\ (Head(s) = x => x \notin ToSet(Tail(s)))
<1>1. /\ Tail(s) \in Seq(S) /\ Head(s) = s[1] /\ Len(s) \in Nat /\ Len(s) >= 1
      /\ Len(Tail(s)) = Len(s) - 1
      /\ \A i \in 1..Len(s) - 1 : Tail(s)[i] = s[i + 1]
  BY TailAt
<1>2. Once(Tail(s), x)
  BY <1>1 DEF Once
<1>3. ASSUME Head(s) = x, x \in ToSet(Tail(s)) PROVE FALSE
  <2>0. PICK i \in DOMAIN Tail(s) : Tail(s)[i] = x
    BY <1>3, Zenon DEF ToSet
  <2>1. i \in 1..Len(Tail(s)) /\ Tail(s)[i] = x
    BY <1>1, <2>0
  <2>2. i + 1 \in 1..Len(s) /\ 1 \in 1..Len(s) /\ s[i + 1] = x /\ s[1] = x /\ i + 1 # 1
    BY <1>1, <1>3, <2>1
  <2> QED
    BY <2>2 DEF Once
<1> QED
  BY <1>2, <1>3

LEMMA LeastOf ==
  ASSUME NEW I \in SUBSET Nat, I # {}
  PROVE  Min(I) \in I /\ \A j \in I : Min(I) <= j
<1>1. PICK m \in I : \A j \in I : ~(<<j, m>> \in OpToRel(<, Nat))
  BY NatLessThanWellFounded, WFMin, Zenon
<1>2. \A j \in I : ~(<<j, m>> \in {ss \in Nat \X Nat : ss[1] < ss[2]})
  BY <1>1 DEF OpToRel
<1>3. \A j \in I : ~(j < m)
  BY <1>2
<1>4. \E x \in I : \A y \in I : x =< y
  BY <1>3
<1> QED
  BY <1>4 DEF Min

\* A list without one of its members, none of which it holds twice.
LEMMA RemoveOne ==
  ASSUME NEW S, NEW s \in Seq(S), NEW e, IsInjective(s)
  PROVE  /\ RemoveFirst(s, e) \in Seq(S) /\ Len(RemoveFirst(s, e)) <= Len(s)
         /\ ToSet(RemoveFirst(s, e)) = ToSet(s) \ {e} /\ IsInjective(RemoveFirst(s, e))
         /\ s # <<>> /\ s[1] # e => RemoveFirst(s, e) # <<>> /\ RemoveFirst(s, e)[1] = s[1]
<1>1. CASE e \notin ToSet(s)
  <2>1. ~\E i \in 1..Len(s) : s[i] = e
    BY <1>1, InSeq
  <2>2. RemoveFirst(s, e) = s
    BY <2>1 DEF RemoveFirst
  <2> QED
    BY <1>1, <2>2
<1>2. CASE e \in ToSet(s)
  <2>1. \E i \in 1..Len(s) : s[i] = e
    BY <1>2, InSeq
  <2> DEFINE I == {i \in 1..Len(s) : s[i] = e}
             k == Min(I)
             t == RemoveFirst(s, e)
  <2>2. k \in 1..Len(s) /\ s[k] = e
    <3>1. I \in SUBSET Nat /\ I # {}
      BY <2>1
    <3> HIDE DEF I
    <3>2. k \in I
      BY <3>1, LeastOf
    <3> QED
      BY <3>2 DEF I
  <2>3. t = SubSeq(s, 1, k - 1) \o SubSeq(s, k + 1, Len(s))
    BY <2>1 DEF RemoveFirst, SelectInSeq, RemoveAt
  <2> HIDE DEF k, t
  <2>4. /\ SubSeq(s, 1, k - 1) \in Seq(S) /\ Len(SubSeq(s, 1, k - 1)) = k - 1
        /\ \A i \in 1..k - 1 : SubSeq(s, 1, k - 1)[i] = s[i]
    BY <2>2
  <2>5. /\ SubSeq(s, k + 1, Len(s)) \in Seq(S) /\ Len(SubSeq(s, k + 1, Len(s))) = Len(s) - k
        /\ \A i \in 1..Len(s) - k : SubSeq(s, k + 1, Len(s))[i] = s[k + i]
    BY <2>2
  <2>6. /\ t \in Seq(S) /\ Len(t) = Len(s) - 1
        /\ \A i \in 1..k - 1 : t[i] = s[i]
        /\ \A i \in k..Len(s) - 1 : t[i] = s[i + 1]
    <3> DEFINE a == SubSeq(s, 1, k - 1)
               b == SubSeq(s, k + 1, Len(s))
    <3>1. /\ a \in Seq(S) /\ Len(a) = k - 1 /\ b \in Seq(S) /\ Len(b) = Len(s) - k /\ t = a \o b
          /\ \A i \in 1..k - 1 : a[i] = s[i]
          /\ \A i \in 1..Len(s) - k : b[i] = s[k + i]
      BY <2>3, <2>4, <2>5
    <3> HIDE DEF a, b
    <3>2. /\ a \o b \in Seq(S) /\ Len(a \o b) = Len(a) + Len(b)
          /\ \A i \in 1..Len(a) : (a \o b)[i] = a[i]
          /\ \A i \in 1..Len(b) : (a \o b)[Len(a) + i] = b[i]
      <4>1. a \in Seq(S) /\ b \in Seq(S)
        BY <3>1
      <4> QED
        BY <4>1
    <3>3. t \in Seq(S) /\ Len(t) = Len(s) - 1 /\ \A i \in 1..k - 1 : t[i] = s[i]
      BY <2>2, <3>1, <3>2
    <3>4. ASSUME NEW i \in k..Len(s) - 1 PROVE t[i] = s[i + 1]
      <4>1. i - k + 1 \in 1..Len(b) /\ Len(a) + (i - k + 1) = i /\ k + (i - k + 1) = i + 1
        BY <2>2, <3>1
      <4>2. t[Len(a) + (i - k + 1)] = b[i - k + 1] /\ b[i - k + 1] = s[k + (i - k + 1)]
        BY <3>1, <3>2, <4>1
      <4> QED
        BY <4>1, <4>2
    <3> QED
      BY <3>3, <3>4
  <2>7. \A i, j \in 1..Len(s) : s[i] = s[j] => i = j
    BY DEF IsInjective
  <2>8. ASSUME NEW x \in ToSet(t) PROVE x \in ToSet(s) \ {e}
    <3>1. PICK i \in 1..Len(t) : t[i] = x
      BY <2>6, <2>8, InSeq
    <3>2. PICK j \in 1..Len(s) : j # k /\ s[j] = x
      <4>1. CASE i < k
        BY <2>2, <2>6, <3>1, <4>1
      <4>2. CASE ~(i < k)
        <5>1. i + 1 \in 1..Len(s) /\ i + 1 # k /\ s[i + 1] = x
          BY <2>2, <2>6, <3>1, <4>2
        <5> QED
          BY <5>1
      <4> QED
        BY <4>1, <4>2
    <3> QED
      BY <2>2, <2>7, <3>2, InSeq
  <2>9. ASSUME NEW x \in ToSet(s) \ {e} PROVE x \in ToSet(t)
    <3>1. PICK j \in 1..Len(s) : s[j] = x /\ j # k
      BY <2>2, <2>9, InSeq
    <3>2. \E i \in 1..Len(t) : t[i] = x
      <4>1. CASE j < k
        BY <2>2, <2>6, <3>1, <4>1
      <4>2. CASE ~(j < k)
        <5>1. j - 1 \in 1..Len(t) /\ t[j - 1] = x
          BY <2>2, <2>6, <3>1, <4>2
        <5> QED
          BY <5>1
      <4> QED
        BY <4>1, <4>2
    <3> QED
      BY <2>6, <3>2, InSeq
  <2>10. IsInjective(t)
    <3>1. DOMAIN t = 1..Len(s) - 1
      BY <2>6
    <3>2. ASSUME NEW i \in 1..Len(s) - 1, NEW j \in 1..Len(s) - 1, t[i] = t[j] PROVE i = j
      <4>1. t[i] = s[IF i < k THEN i ELSE i + 1] /\ (IF i < k THEN i ELSE i + 1) \in 1..Len(s)
        BY <2>2, <2>6
      <4>2. t[j] = s[IF j < k THEN j ELSE j + 1] /\ (IF j < k THEN j ELSE j + 1) \in 1..Len(s)
        BY <2>2, <2>6
      <4>3. (IF i < k THEN i ELSE i + 1) = (IF j < k THEN j ELSE j + 1)
        BY <2>7, <3>2, <4>1, <4>2, Zenon
      <4> QED
        BY <2>2, <4>3
    <3> QED
      BY <3>1, <3>2 DEF IsInjective
  <2>11. s # <<>> /\ s[1] # e => t # <<>> /\ t[1] = s[1]
    BY <2>2, <2>6
  <2>12. Len(t) <= Len(s)
    BY <2>2, <2>6
  <2> QED
    BY <2>6, <2>8, <2>9, <2>10, <2>11, <2>12 DEF t
<1> QED
  BY <1>1, <1>2

\* What is left of a list from its first due member on.
LEMMA FromDueKeeps ==
  ASSUME NEW p, NEW todo \in Seq(Peer)
  PROVE  /\ FromDue(p, todo) \in Seq(Peer) /\ ToSet(FromDue(p, todo)) \subseteq ToSet(todo)
         /\ \A x \in ToSet(todo) : Due(p, x) => x \in ToSet(FromDue(p, todo))
         /\ FromDue(p, todo) # <<>> => Head(FromDue(p, todo)) \in ToSet(todo) /\ Due(p, Head(FromDue(p, todo)))
<1> DEFINE I == {i \in 1..Len(todo) : Due(p, todo[i])}
           k == Min(I)
           t == FromDue(p, todo)
<1>1. CASE I = {}
  <2>1. t = <<>>
    BY <1>1 DEF FromDue, SelectInSeq
  <2>2. \A x \in ToSet(todo) : ~Due(p, x)
    BY <1>1, InSeq
  <2>3. <<>> \in Seq(Peer) /\ ToSet(<<>>) = {}
    BY ToSetSmall
  <2> QED
    BY <2>1, <2>2, <2>3
<1>2. CASE I # {}
  <2>1. k \in 1..Len(todo) /\ Due(p, todo[k]) /\ \A i \in 1..Len(todo) : Due(p, todo[i]) => k <= i
    <3>1. I \in SUBSET Nat
      OBVIOUS
    <3> HIDE DEF I
    <3>2. k \in I /\ \A i \in I : k <= i
      BY <1>2, <3>1, LeastOf
    <3> QED
      BY <3>2 DEF I
  <2>2. t = SubSeq(todo, k, Len(todo))
    <3>1. t = IF k = 0 THEN <<>> ELSE SubSeq(todo, k, Len(todo))
      BY <1>2 DEF FromDue, SelectInSeq
    <3>2. k # 0
      BY <2>1
    <3> QED
      BY <3>1, <3>2
  <2> HIDE DEF k, t, I
  <2>3. /\ t \in Seq(Peer) /\ Len(t) = Len(todo) - k + 1
        /\ \A i \in 1..Len(todo) - k + 1 : t[i] = todo[k + i - 1]
    BY <2>1, <2>2
  <2>4. ASSUME NEW x \in ToSet(t) PROVE x \in ToSet(todo)
    <3>1. PICK i \in 1..Len(t) : t[i] = x
      BY <2>3, <2>4, InSeq
    <3>2. k + i - 1 \in 1..Len(todo) /\ todo[k + i - 1] = x
      BY <2>1, <2>3, <3>1
    <3> QED
      BY <3>2, InSeq
  <2>5. ASSUME NEW x \in ToSet(todo), Due(p, x) PROVE x \in ToSet(t)
    <3>1. PICK j \in 1..Len(todo) : todo[j] = x
      BY <2>5, InSeq
    <3>2. k <= j
      BY <2>1, <2>5, <3>1
    <3>3. j - k + 1 \in 1..Len(t) /\ t[j - k + 1] = x
      BY <2>1, <2>3, <3>1, <3>2
    <3> QED
      BY <2>3, <3>3, InSeq
  <2>6. Head(t) = todo[k] /\ todo[k] \in ToSet(todo)
    BY <2>1, <2>3, InSeq
  <2> QED
    BY <2>1, <2>3, <2>4, <2>5, <2>6 DEF t
<1> QED
  BY <1>1, <1>2

-----------------------------------------------------------------------------
(* Messages and requests.                                                   *)

Entry(p) == [type |-> IF p = Owner THEN "CREATE_SESSION" ELSE "JOIN_SESSION"]
Offer(p) == [type |-> "OFFER", to |-> p]
Answer(p) == [type |-> "ANSWER", to |-> p]
Relayed == {"PEER_JOINED", "PEER_LEFT", "OFFER", "ANSWER"}

LEMMA PeerNumbers == Peer \subseteq Nat /\ Owner \in Peer /\ Receivers \subseteq Peer /\ Owner \notin Receivers
                     /\ \A p \in Peer : p # Owner <=> p \in Receivers
BY RoomAssumption DEF Peer, Owner

LEMMA MessageKinds ==
  ASSUME NEW m \in Message
  PROVE  /\ m.type \in Relayed \cup {"SESSION_JOINED", "ERROR"}
         /\ m.type \in Relayed => m = News(m.type, m.from) /\ m.from \in Peer
         /\ m.type = "SESSION_JOINED" => m = Joined(m.peers) /\ m.peers \in Seq(Peer)
         /\ m.type = "ERROR" => m = Error
BY DEF Message, Relayed, News, Joined, Error

LEMMA NewMessages ==
  /\ \A t \in Relayed, p \in Peer : News(t, p) \in Message /\ News(t, p).type = t /\ News(t, p).from = p
  /\ \A list \in Seq(Peer) : Joined(list) \in Message /\ Joined(list).type = "SESSION_JOINED" /\ Joined(list).peers = list
  /\ Error \in Message /\ Error.type = "ERROR"
BY DEF Message, Relayed, News, Joined, Error

LEMMA RequestKinds ==
  ASSUME NEW x \in Request
  PROVE  /\ x.type \in {"CREATE_SESSION", "JOIN_SESSION", "OFFER", "ANSWER"}
         /\ x.type = "OFFER" => x = Offer(x.to) /\ x.to \in Peer
         /\ x.type = "ANSWER" => x = Answer(x.to) /\ x.to \in Peer
BY DEF Request, Offer, Answer

LEMMA NewRequests ==
  /\ \A p \in Peer : /\ Offer(p) \in Request /\ Offer(p).type = "OFFER" /\ Offer(p).to = p
                     /\ Answer(p) \in Request /\ Answer(p).type = "ANSWER" /\ Answer(p).to = p
                     /\ Entry(p) \in Request
                     /\ Entry(p).type = IF p = Owner THEN "CREATE_SESSION" ELSE "JOIN_SESSION"
BY DEF Request, Offer, Answer, Entry

-----------------------------------------------------------------------------
(* The parts of the inductive invariant.                                    *)

\* Of two peers one offers: a receiver to the owner, and to the receivers above it.
Dir(q, p) == q \in Receivers /\ (p = Owner \/ q < p)

Types ==
  /\ room \in {"none", "open", "gone"}
  /\ members \in Seq(Peer) /\ Len(members) <= MaxPeers
  /\ conn \in [Peer -> {"none", "attached", "member", "closed"}]
  /\ inbox \in [Peer -> Seq(Message)] /\ outbox \in [Peer -> Seq(Request)]
  /\ client \in [Peer -> {"out", "open", "gone"}]
  /\ roster \in [Peer -> SUBSET Peer]
  /\ known \in [Peer -> BOOLEAN]
  /\ link \in [Peer -> [Peer -> {"none", "offering", "offered", "answering", "connected"}]]
  /\ task \in [Receivers -> [stage : {"engine", "offer", "over"}, todo : Seq(Peer)]]
  /\ \A p \in Receivers : task[p].stage = "offer" => task[p].todo # <<>>
  /\ alarm \in [Peer -> BOOLEAN]
  /\ trouble \in 0..MaxTrouble

\* A peer that has not joined: it knows nobody, and all it has sent is its entry.
Entering ==
  \A p \in Peer :
    /\ client[p] = "out" <=> conn[p] = "none"
    /\ conn[p] \in {"none", "attached"} =>
         /\ roster[p] = {p} /\ (\A q \in Peer : link[p][q] = "none") /\ p \notin ToSet(members)
         /\ ~known[p] /\ (p \in Receivers => task[p].stage = "over")
         /\ \A m \in ToSet(inbox[p]) : m = Error
         /\ outbox[p] \in {<<>>, <<Entry(p)>>} /\ (outbox[p] # <<>> => inbox[p] = <<>>)
    /\ conn[p] = "none" => outbox[p] = <<>> /\ inbox[p] = <<>>
    /\ conn[p] \in {"member", "closed"} => \A x \in ToSet(outbox[p]) : x.type \in {"OFFER", "ANSWER"}
    /\ conn[p] = "closed" => outbox[p] = <<>>

\* The session begins with its owner and ends with it.
Session ==
  /\ room # "open" => members = <<>>
  /\ room = "open" => members # <<>> /\ members[1] = Owner
  /\ conn[Owner] \in {"none", "attached"} => room = "none"
  /\ room = "none" => \A r \in Receivers : conn[r] = "none"

Mentions(m, q) ==
  \/ m.type = "SESSION_JOINED" /\ q \in ToSet(m.peers)
  \/ m.type \in {"PEER_JOINED", "PEER_LEFT", "OFFER", "ANSWER"} /\ m.from = q

\* It has joined, whether or not it is still there.
HasJoined(q) == conn[q] \in {"member", "closed"}

\* Nobody has heard of a peer before it joins.
Strangers ==
  \A p, q \in Peer : ~HasJoined(q) =>
    /\ link[p][q] = "none"
    /\ \A m \in ToSet(inbox[p]) : ~Mentions(m, q)
    /\ Offer(q) \notin ToSet(outbox[p]) /\ Answer(q) \notin ToSet(outbox[p])
    /\ p \in Receivers => q \notin ToSet(task[p].todo)

\* What the server tells.
NewsIsTrue ==
  \A p \in Peer : \A m \in ToSet(inbox[p]) :
    /\ m.type = "PEER_LEFT" => conn[m.from] = "closed"
    /\ m.type = "PEER_JOINED" => m.from \in Receivers
    /\ m.type = "SESSION_JOINED" => p \in Receivers /\ m.peers # <<>> /\ m.peers[1] = Owner

RoomInv == Types /\ Entering /\ Session /\ MembersAreConnected /\ Strangers /\ NewsIsTrue

Directed ==
  \A p, q \in Peer :
    /\ Offer(p) \in ToSet(outbox[q]) => Dir(q, p)
    /\ News("OFFER", q) \in ToSet(inbox[p]) => Dir(q, p)
    /\ link[q][p] \in {"offering", "offered"} => Dir(q, p)
    /\ Answer(p) \in ToSet(outbox[q]) => Dir(p, q)
    /\ News("ANSWER", q) \in ToSet(inbox[p]) => Dir(p, q)
    /\ link[q][p] = "answering" => Dir(p, q)

\* Each peer offers once to another, as long as that one is in the room.
OfferOnce ==
  \A p, q \in Peer : Dir(q, p) =>
    /\ Once(inbox[p], News("OFFER", q))
    /\ News("OFFER", q) \in ToSet(inbox[p]) => link[p][q] = "none"
    /\ conn[p] = "member" /\ Offer(p) \in ToSet(outbox[q]) =>
         Once(outbox[q], Offer(p)) /\ News("OFFER", q) \notin ToSet(inbox[p]) /\ link[p][q] = "none"
    /\ conn[p] = "member" /\ client[q] = "open" /\ link[q][p] \in {"none", "offering"} =>
         Offer(p) \notin ToSet(outbox[q]) /\ News("OFFER", q) \notin ToSet(inbox[p]) /\ link[p][q] = "none"

OfferInv == Directed /\ OfferOnce

\* Without trouble everybody who joined is in the room, and an error has its cause.
Undisturbed ==
  trouble = 0 =>
    /\ room # "gone"
    /\ \A p \in Peer : client[p] # "gone" /\ conn[p] # "closed" /\ (conn[p] = "member" => p \in ToSet(members))
Alarms ==
  \A p \in Peer : trouble = 0 /\ (alarm[p] \/ Error \in ToSet(inbox[p])) =>
    conn[p] = "attached" /\ outbox[p] = <<>> /\ Len(members) = MaxPeers

AlarmInv == Undisturbed /\ Alarms

\* A receiver learns of the room first.
LearnsAt(p) ==
  /\ \A i \in 1..Len(inbox[p]) : inbox[p][i].type = "SESSION_JOINED" => i = 1 /\ ~known[p]
  /\ ~known[p] => task[p].stage = "over"
  /\ conn[p] = "member" /\ ~known[p] => inbox[p] # <<>> /\ inbox[p][1].type = "SESSION_JOINED"
LearnsFirst == trouble = 0 => \A p \in Receivers : LearnsAt(p)

\* An offer not made yet is going to be.
Promised(q, p) ==
  \/ task[q].stage # "over" /\ p \in ToSet(task[q].todo)
  \/ \E m \in ToSet(inbox[q]) : m.type = "SESSION_JOINED" /\ p \in ToSet(m.peers)
  \/ News("PEER_JOINED", p) \in ToSet(inbox[q])
OffersFollow ==
  trouble = 0 => \A p, q \in Peer :
    Dir(q, p) /\ conn[q] = "member" /\ conn[p] = "member" /\ link[q][p] = "none" => Promised(q, p)

\* An offer made is going to be answered, and who is answered has been connected to.
AnswersAt(q, p) ==
  /\ link[q][p] = "offered" =>
       \/ Offer(p) \in ToSet(outbox[q])
       \/ News("OFFER", q) \in ToSet(inbox[p])
       \/ link[p][q] = "answering"
       \/ Answer(q) \in ToSet(outbox[p])
       \/ News("ANSWER", p) \in ToSet(inbox[q])
  /\ (link[q][p] = "connected" \/ Answer(q) \in ToSet(outbox[p]) \/ News("ANSWER", p) \in ToSet(inbox[q])) =>
       link[p][q] = "connected"
AnswersFollow == trouble = 0 => \A p, q \in Peer : Dir(q, p) => AnswersAt(q, p)

MeshInv == LearnsFirst /\ OffersFollow /\ AnswersFollow

-----------------------------------------------------------------------------
(* What the steps do.                                                       *)

\* A client sends.
LEMMA SendingDoes ==
  ASSUME Types, NEW p \in Peer, NEW x \in Request, Sending(p, x)
  PROVE  /\ outbox' \in [Peer -> Seq(Request)] /\ \A o \in Peer : o # p => outbox'[o] = outbox[o]
         /\ Connected(p) => /\ outbox'[p] = Append(outbox[p], x) /\ outbox'[p] # <<>>
                            /\ ToSet(outbox'[p]) = ToSet(outbox[p]) \cup {x}
         /\ ~Connected(p) => outbox' = outbox
<1>1. outbox[p] \in Seq(Request) /\ outbox \in [Peer -> Seq(Request)]
  BY DEF Types
<1>2. Append(outbox[p], x) \in Seq(Request) /\ Append(outbox[p], x) # <<>>
      /\ ToSet(Append(outbox[p], x)) = ToSet(outbox[p]) \cup {x}
  BY <1>1, ToSetAppend, AppendAt
<1>3. CASE Connected(p)
  <2>1. outbox' = [outbox EXCEPT ![p] = Append(outbox[p], x)]
    BY <1>3 DEF Sending, Sent
  <2> QED
    BY <1>1, <1>2, <1>3, <2>1
<1>4. CASE ~Connected(p)
  BY <1>1, <1>4 DEF Sending
<1> QED
  BY <1>3, <1>4

\* The server sends to one peer.
LEMMA SentDoes ==
  ASSUME Types, NEW p \in Peer, NEW m \in Message, inbox' = Sent(inbox, p, m)
  PROVE  /\ inbox' \in [Peer -> Seq(Message)] /\ \A o \in Peer : o # p => inbox'[o] = inbox[o]
         /\ inbox'[p] = Append(inbox[p], m) /\ ToSet(inbox'[p]) = ToSet(inbox[p]) \cup {m}
<1>1. inbox[p] \in Seq(Message) /\ inbox \in [Peer -> Seq(Message)]
  BY DEF Types
<1>2. Append(inbox[p], m) \in Seq(Message) /\ ToSet(Append(inbox[p], m)) = ToSet(inbox[p]) \cup {m}
  BY <1>1, ToSetAppend
<1>3. inbox' = [inbox EXCEPT ![p] = Append(inbox[p], m)]
  BY DEF Sent
<1> QED
  BY <1>1, <1>2, <1>3

\* The server takes a request.
LEMMA TakeDoes ==
  ASSUME Types, NEW p \in Peer, NEW type, Take(p, type)
  PROVE  /\ outbox[p] # <<>> /\ Head(outbox[p]) \in Request /\ Head(outbox[p]).type = type /\ Connected(p)
         /\ outbox' \in [Peer -> Seq(Request)] /\ \A o \in Peer : o # p => outbox'[o] = outbox[o]
         /\ outbox'[p] = Tail(outbox[p]) /\ outbox[p] \in Seq(Request)
         /\ ToSet(outbox[p]) = {Head(outbox[p])} \cup ToSet(outbox'[p])
<1>1. outbox[p] \in Seq(Request) /\ outbox \in [Peer -> Seq(Request)] /\ outbox[p] # <<>>
  BY DEF Types, Take
<1>2. /\ Tail(outbox[p]) \in Seq(Request) /\ Head(outbox[p]) \in Request
      /\ ToSet(outbox[p]) = {Head(outbox[p])} \cup ToSet(Tail(outbox[p]))
  BY <1>1, ToSetTail
<1> QED
  BY <1>1, <1>2 DEF Take

\* A client takes a message.
LEMMA Take1Does ==
  ASSUME Types, NEW p \in Peer, NEW type, Take1(p, type)
  PROVE  /\ inbox[p] # <<>> /\ Head(inbox[p]) \in Message /\ Head(inbox[p]).type = type /\ client[p] = "open"
         /\ inbox' \in [Peer -> Seq(Message)] /\ \A o \in Peer : o # p => inbox'[o] = inbox[o]
         /\ inbox'[p] = Tail(inbox[p]) /\ inbox[p] \in Seq(Message)
         /\ ToSet(inbox[p]) = {Head(inbox[p])} \cup ToSet(inbox'[p])
         /\ UNCHANGED <<room, members, conn, outbox, client, trouble>>
<1>1. inbox[p] \in Seq(Message) /\ inbox \in [Peer -> Seq(Message)] /\ inbox[p] # <<>>
  BY DEF Types, Take1
<1>2. /\ Tail(inbox[p]) \in Seq(Message) /\ Head(inbox[p]) \in Message
      /\ ToSet(inbox[p]) = {Head(inbox[p])} \cup ToSet(Tail(inbox[p]))
  BY <1>1, ToSetTail
<1> QED
  BY <1>1, <1>2 DEF Take1

\* A connection closes, or is closed and told twice.
GoesOff(p) ==
  /\ Connected(p)
  /\ conn' = [conn EXCEPT ![p] = "closed"]
  /\ outbox' = [outbox EXCEPT ![p] = <<>>]
  /\ IF conn[p] = "member" THEN LeaveSession(p) ELSE UNCHANGED <<room, members>>
  /\ inbox' \in [Peer -> Seq(Message)]
  /\ \A q \in Peer :
       LET left == News("PEER_LEFT", p)
       IN  IF conn[p] = "member" /\ conn[q] = "member" /\ q # p
           THEN inbox'[q] \in {Append(inbox[q], left), Append(Append(inbox[q], left), left)}
           ELSE inbox'[q] = inbox[q]
  /\ UNCHANGED peerVars

LEMMA DetachGoesOff ==
  ASSUME Types, NEW p \in Peer, Detach(p), UNCHANGED peerVars
  PROVE  GoesOff(p)
<1>1. News("PEER_LEFT", p) \in Message
  BY NewMessages DEF Relayed
<1>2. \A q \in Peer : inbox[q] \in Seq(Message) /\ Append(inbox[q], News("PEER_LEFT", p)) \in Seq(Message)
  BY <1>1 DEF Types
<1>3. inbox' \in [Peer -> Seq(Message)]
  BY <1>2 DEF Types, Detach, Detached, Broadcast
<1> QED
  BY <1>3 DEF Types, GoesOff, Detach, Detached, Broadcast

LEMMA EvictGoesOff ==
  ASSUME Types, NEW p \in Peer, Evict(p), UNCHANGED peerVars
  PROVE  GoesOff(p)
<1> DEFINE left == News("PEER_LEFT", p)
<1>1. left \in Message
  BY NewMessages DEF Relayed
<1> HIDE DEF left
<1>2. ASSUME NEW q \in Peer
      PROVE  /\ inbox[q] \in Seq(Message) /\ inbox[q] \o <<left, left>> = Append(Append(inbox[q], left), left)
             /\ inbox[q] \o <<left, left>> \in Seq(Message)
  <2>1. inbox[q] \in Seq(Message)
    BY DEF Types
  <2> QED
    BY <1>1, <2>1
<1>3. inbox' = [q \in Peer |-> IF conn[q] = "member" /\ q # p THEN inbox[q] \o <<left, left>> ELSE inbox[q]]
  BY DEF Evict, left
<1>4. inbox' \in [Peer -> Seq(Message)]
  BY <1>2, <1>3
<1>5. \A q \in Peer : IF conn[p] = "member" /\ conn[q] = "member" /\ q # p
                     THEN inbox'[q] \in {Append(inbox[q], left), Append(Append(inbox[q], left), left)}
                     ELSE inbox'[q] = inbox[q]
  BY <1>2, <1>3 DEF Evict
<1> QED
  BY <1>4, <1>5 DEF GoesOff, Evict, Connected, left

LEMMA GoesOffDoes ==
  ASSUME RoomInv, NEW p \in Peer, GoesOff(p)
  PROVE  /\ conn[p] \in {"attached", "member"} /\ conn'[p] = "closed" /\ (\A q \in Peer : q # p => conn'[q] = conn[q])
         /\ conn' \in [Peer -> {"none", "attached", "member", "closed"}]
         /\ outbox' \in [Peer -> Seq(Request)] /\ outbox'[p] = <<>> /\ (\A q \in Peer : q # p => outbox'[q] = outbox[q])
         /\ inbox' \in [Peer -> Seq(Message)]
         /\ \A q \in Peer : \/ inbox'[q] = inbox[q] /\ (conn[p] # "member" \/ conn[q] # "member" \/ q = p)
                            \/ /\ conn[p] = "member" /\ conn[q] = "member" /\ q # p
                               /\ inbox'[q] \in {Append(inbox[q], News("PEER_LEFT", p)),
                                                 Append(Append(inbox[q], News("PEER_LEFT", p)), News("PEER_LEFT", p))}
                               /\ ToSet(inbox'[q]) = ToSet(inbox[q]) \cup {News("PEER_LEFT", p)}
         /\ room' \in {"none", "open", "gone"} /\ members' \in Seq(Peer) /\ Len(members') <= MaxPeers
         /\ room' # "open" => members' = <<>>
         /\ room' = "open" =>
              /\ room = "open" /\ members' # <<>> /\ members'[1] = Owner /\ IsInjective(members')
              /\ ToSet(members') = ToSet(members) \ {p} /\ p # Owner
         /\ room' = "none" => room = "none"
         /\ conn[p] = "attached" => UNCHANGED <<room, members>>
         /\ UNCHANGED peerVars
<1>1. /\ conn \in [Peer -> {"none", "attached", "member", "closed"}] /\ outbox \in [Peer -> Seq(Request)]
      /\ inbox \in [Peer -> Seq(Message)]
      /\ room \in {"none", "open", "gone"} /\ members \in Seq(Peer) /\ Len(members) <= MaxPeers
      /\ MaxPeers \in Nat
  BY RoomAssumption DEF RoomInv, Types
<1>2. /\ conn[p] \in {"attached", "member"} /\ conn' = [conn EXCEPT ![p] = "closed"]
      /\ outbox' = [outbox EXCEPT ![p] = <<>>] /\ inbox' \in [Peer -> Seq(Message)] /\ UNCHANGED peerVars
  BY DEF GoesOff, Connected
<1>3. outbox' \in [Peer -> Seq(Request)]
  <2>1. <<>> \in Seq(Request)
    OBVIOUS
  <2> QED
    BY <1>1, <1>2, <2>1
<1>4. ASSUME NEW q \in Peer
      PROVE  \/ inbox'[q] = inbox[q] /\ (conn[p] # "member" \/ conn[q] # "member" \/ q = p)
             \/ /\ conn[p] = "member" /\ conn[q] = "member" /\ q # p
                /\ inbox'[q] \in {Append(inbox[q], News("PEER_LEFT", p)),
                                  Append(Append(inbox[q], News("PEER_LEFT", p)), News("PEER_LEFT", p))}
                /\ ToSet(inbox'[q]) = ToSet(inbox[q]) \cup {News("PEER_LEFT", p)}
  <2> DEFINE left == News("PEER_LEFT", p)
  <2>1. left \in Message
    BY NewMessages DEF Relayed
  <2>2. IF conn[p] = "member" /\ conn[q] = "member" /\ q # p
        THEN inbox'[q] \in {Append(inbox[q], left), Append(Append(inbox[q], left), left)}
        ELSE inbox'[q] = inbox[q]
    BY DEF GoesOff
  <2> HIDE DEF left
  <2>3. inbox[q] \in Seq(Message)
    BY <1>1
  <2>4. Append(inbox[q], left) \in Seq(Message) /\ ToSet(Append(inbox[q], left)) = ToSet(inbox[q]) \cup {left}
    BY <2>1, <2>3, ToSetAppend
  <2>5. ToSet(Append(Append(inbox[q], left), left)) = ToSet(Append(inbox[q], left)) \cup {left}
    <3> DEFINE t == Append(inbox[q], left)
    <3>1. t \in Seq(Message)
      BY <2>4
    <3> HIDE DEF t
    <3>2. ToSet(Append(t, left)) = ToSet(t) \cup {left}
      BY <2>1, <3>1, ToSetAppend, ZenonT(40)
    <3> QED
      BY <3>2 DEF t
  <2> QED
    BY <2>2, <2>4, <2>5 DEF left
<1>5. /\ room' \in {"none", "open", "gone"} /\ members' \in Seq(Peer) /\ Len(members') <= MaxPeers
      /\ room' # "open" => members' = <<>>
      /\ room' = "open" =>
           /\ room = "open" /\ members' # <<>> /\ members'[1] = Owner /\ IsInjective(members')
           /\ ToSet(members') = ToSet(members) \ {p} /\ p # Owner
      /\ room' = "none" => room = "none"
      /\ conn[p] = "attached" => UNCHANGED <<room, members>>
  <2>0. /\ room # "open" => members = <<>>
        /\ room = "open" => members # <<>> /\ members[1] = Owner /\ IsInjective(members) /\ Owner \in ToSet(members)
        /\ conn[Owner] \in {"none", "attached"} => room = "none"
        /\ conn[p] = "attached" => p \notin ToSet(members)
    BY DEF RoomInv, Session, MembersAreConnected, Entering
  <2>1. CASE conn[p] = "attached"
    <3>1. UNCHANGED <<room, members>>
      BY <2>1 DEF GoesOff
    <3>2. ToSet(members) = ToSet(members) \ {p}
      BY <2>0, <2>1
    <3>3. p # Owner \/ room # "open"
      BY <2>0, <2>1
    <3> QED
      BY <1>1, <2>0, <3>1, <3>2, <3>3
  <2>2. CASE conn[p] = "member"
    <3> DEFINE rest == RemoveFirst(members, p)
    <3>1. /\ members' = IF room = "open" /\ ~(p = Owner \/ rest = <<>>) THEN rest ELSE <<>>
          /\ room' = IF room = "open" /\ (p = Owner \/ rest = <<>>) THEN "gone" ELSE room
      BY <2>2 DEF GoesOff, LeaveSession
    <3>2. room = "open" => /\ rest \in Seq(Peer) /\ Len(rest) <= Len(members)
                           /\ ToSet(rest) = ToSet(members) \ {p} /\ IsInjective(rest)
                           /\ members # <<>> /\ members[1] # p => rest # <<>> /\ rest[1] = members[1]
      BY <1>1, <2>0, RemoveOne
    <3> HIDE DEF rest
    <3>3. Len(<<>>) = 0 /\ <<>> \in Seq(Peer)
      OBVIOUS
    <3>4. CASE room = "open" /\ ~(p = Owner \/ rest = <<>>)
      <4>1. members' = rest /\ room' = "open"
        BY <3>1, <3>4
      <4>2. rest \in Seq(Peer) /\ Len(rest) <= MaxPeers /\ rest[1] = Owner /\ rest # <<>>
        BY <1>1, <2>0, <3>2, <3>4
      <4> QED
        BY <2>2, <3>2, <3>4, <4>1, <4>2
    <3>5. CASE ~(room = "open" /\ ~(p = Owner \/ rest = <<>>))
      <4>1. members' = <<>> /\ room' # "open" /\ room' \in {"gone", room}
        BY <3>1, <3>5
      <4>2. room' \in {"none", "open", "gone"} /\ (room' = "none" => room = "none")
        BY <1>1, <4>1
      <4>3. Len(members') <= MaxPeers /\ members' \in Seq(Peer)
        BY <1>1, <3>3, <4>1
      <4> QED
        BY <2>2, <4>1, <4>2, <4>3
    <3> QED
      BY <3>4, <3>5
  <2> QED
    BY <1>2, <2>1, <2>2
<1> QED
  BY <1>1, <1>2, <1>3, <1>4, <1>5

-----------------------------------------------------------------------------
(* A client's step: what it changes is its own.                             *)

Moves(p) ==
  /\ UNCHANGED <<room, members, conn>>
  /\ Types'
  /\ client[p] # "out" /\ client'[p] # "out"
  /\ \A o \in Peer : o # p =>
       /\ inbox'[o] = inbox[o] /\ outbox'[o] = outbox[o] /\ client'[o] = client[o] /\ roster'[o] = roster[o]
       /\ known'[o] = known[o] /\ link'[o] = link[o] /\ alarm'[o] = alarm[o]
       /\ o \in Receivers => task'[o] = task[o]
  /\ trouble' \in {trouble, trouble + 1}

\* A client that offers passes on from a list what it does not offer itself.
OffersFrom(p, o) ==
  link[p][o] = "none" /\ link'[p][o] = "offering" /\ Dir(p, o) /\ o \in ToSet(task[p].todo)

LEMMA EngineJoinsDoes ==
  ASSUME RoomInv, NEW p \in Receivers, EngineJoins(p)
  PROVE  /\ Moves(p) /\ client[p] = "open" /\ HasJoined(p) /\ task[p].stage = "engine"
         /\ UNCHANGED <<inbox, outbox, client, roster, known, alarm, trouble>>
         /\ \A o \in Peer : link'[p][o] = link[p][o] \/ OffersFrom(p, o)
         /\ ToSet(task'[p].todo) \subseteq ToSet(task[p].todo)
         /\ \A o \in ToSet(task[p].todo) : Dir(p, o) /\ link[p][o] = "none" =>
              o \in ToSet(task'[p].todo) /\ task'[p].stage # "over"
<1> DEFINE todo == task[p].todo
           due == FromDue(p, todo)
<1>1. Types /\ p \in Peer /\ todo \in Seq(Peer)
  BY PeerNumbers DEF RoomInv, Types
<1>2. /\ client[p] = "open" /\ task[p].stage = "engine"
      /\ task' = [task EXCEPT ![p] = Offering(p, due)]
      /\ link' = IF due = <<>> THEN link ELSE [link EXCEPT ![p][Head(due)] = "offering"]
      /\ UNCHANGED <<room, members, conn, inbox, outbox, client, roster, known, alarm, trouble>>
  BY DEF EngineJoins, roomVars
<1>3. /\ due \in Seq(Peer) /\ ToSet(due) \subseteq ToSet(todo)
      /\ \A x \in ToSet(todo) : Due(p, x) => x \in ToSet(due)
      /\ due # <<>> => Head(due) \in ToSet(todo) /\ Due(p, Head(due))
  BY <1>1, FromDueKeeps, Zenon
<1>4. \A x \in ToSet(todo) : x \in Peer
  BY <1>1, InSeq
<1>5. HasJoined(p)
  BY <1>1, <1>2 DEF RoomInv, Entering, HasJoined, Types
<1> HIDE DEF due
<1>6. /\ Offering(p, due) \in [stage : {"engine", "offer", "over"}, todo : Seq(Peer)]
      /\ Offering(p, due).todo = due /\ (Offering(p, due).stage = "offer" => due # <<>>)
      /\ (due # <<>> => Offering(p, due).stage # "over")
  BY <1>3 DEF Offering
<1>7. task' \in [Receivers -> [stage : {"engine", "offer", "over"}, todo : Seq(Peer)]]
      /\ task'[p] = Offering(p, due) /\ \A o \in Receivers : o # p => task'[o] = task[o]
  BY <1>1, <1>2, <1>6 DEF Types
<1>8. /\ link' \in [Peer -> [Peer -> {"none", "offering", "offered", "answering", "connected"}]]
      /\ \A o \in Peer : o # p => link'[o] = link[o]
      /\ \A o \in Peer : link'[p][o] = link[p][o] \/ (link'[p][o] = "offering" /\ due # <<>> /\ o = Head(due))
  BY <1>1, <1>2, <1>3, <1>4 DEF Types
<1>9. Types'
  BY <1>1, <1>2, <1>6, <1>7, <1>8 DEF Types
<1>10. Moves(p)
  BY <1>2, <1>7, <1>8, <1>9 DEF Moves
<1>11. \A o \in Peer : link'[p][o] = link[p][o] \/ OffersFrom(p, o)
  BY <1>3, <1>8 DEF OffersFrom, Due, Dir, Offers
<1>12. ASSUME NEW o \in ToSet(todo), Dir(p, o), link[p][o] = "none"
       PROVE  o \in ToSet(task'[p].todo) /\ task'[p].stage # "over"
  <2>1. Due(p, o)
    BY <1>12 DEF Due, Dir, Offers
  <2>2. o \in ToSet(due)
    BY <1>3, <2>1
  <2>3. due # <<>>
    BY <2>2, ToSetSmall
  <2> QED
    BY <1>6, <1>7, <2>2, <2>3
<1> QED
  BY <1>2, <1>3, <1>5, <1>6, <1>7, <1>10, <1>11, <1>12

LEMMA OfferReadyDoes ==
  ASSUME RoomInv, NEW p \in Peer, NEW q \in Peer, OfferReady(p, q)
  PROVE  /\ Moves(p) /\ client[p] = "open" /\ HasJoined(p) /\ HasJoined(q) /\ Sending(p, Offer(q))
         /\ UNCHANGED <<inbox, client, roster, known, alarm, trouble>>
         /\ link[p][q] = "offering" /\ link'[p][q] = "offered"
         /\ \A o \in Peer : o # q => link'[p][o] = link[p][o] \/ (p \in Receivers /\ OffersFrom(p, o))
         /\ p \in Receivers =>
              /\ ToSet(task'[p].todo) \subseteq ToSet(task[p].todo)
              /\ task[p].stage = "over" => task'[p].stage = "over"
              /\ \A o \in ToSet(task[p].todo) : 
                   task[p].stage # "over" /\ o # q /\ Dir(p, o) /\ link[p][o] = "none" =>
                     o \in ToSet(task'[p].todo) /\ task'[p].stage # "over"
<1> DEFINE todo == task[p].todo
           mine == p \in Receivers /\ task[p].stage = "offer" /\ Head(todo) = q
           rest == IF mine THEN FromDue(p, Tail(todo)) ELSE <<>>
<1>1. Types
  BY DEF RoomInv
<1>2. /\ client[p] = "open" /\ link[p][q] = "offering" /\ Sending(p, Offer(q))
      /\ link' = [link EXCEPT ![p] = [o \in Peer |-> IF o = q THEN "offered"
                                                     ELSE IF rest # <<>> /\ o = Head(rest) THEN "offering"
                                                     ELSE link[p][o]]]
      /\ task' = IF mine THEN [task EXCEPT ![p] = Offering(p, rest)] ELSE task
      /\ UNCHANGED <<room, members, conn, inbox, client, roster, known, alarm, trouble>>
  <2>1. link[p] = [link EXCEPT ![p] = link[p]][p]
    BY <1>1 DEF Types
  <2> QED
    BY DEF OfferReady, Offer
<1>3. HasJoined(p) /\ HasJoined(q)
  <2>1. link[p][q] # "none"
    BY <1>2
  <2>2. HasJoined(q)
    BY <2>1 DEF RoomInv, Strangers
  <2>3. conn[p] \in {"none", "attached", "member", "closed"} /\ conn[p] \notin {"none", "attached"}
    BY <1>1, <2>1 DEF RoomInv, Entering, Types
  <2> QED
    BY <2>2, <2>3 DEF HasJoined
<1>4. mine => todo \in Seq(Peer) /\ todo # <<>>
  BY <1>1 DEF Types
<1>5. mine => Tail(todo) \in Seq(Peer) /\ ToSet(todo) = {Head(todo)} \cup ToSet(Tail(todo))
  <2> HIDE DEF todo
  <2> QED
    BY <1>4, ToSetTail, Zenon
<1>6. mine => /\ FromDue(p, Tail(todo)) \in Seq(Peer) /\ ToSet(FromDue(p, Tail(todo))) \subseteq ToSet(Tail(todo))
              /\ \A x \in ToSet(Tail(todo)) : Due(p, x) => x \in ToSet(FromDue(p, Tail(todo)))
              /\ FromDue(p, Tail(todo)) # <<>> =>
                   Head(FromDue(p, Tail(todo))) \in ToSet(Tail(todo)) /\ Due(p, Head(FromDue(p, Tail(todo))))
  BY <1>5, FromDueKeeps, Zenon
<1>7. /\ rest \in Seq(Peer) /\ (mine => ToSet(rest) \subseteq ToSet(Tail(todo)))
      /\ mine => \A x \in ToSet(Tail(todo)) : Due(p, x) => x \in ToSet(rest)
      /\ rest # <<>> => mine /\ Head(rest) \in ToSet(Tail(todo)) /\ Due(p, Head(rest))
  <2>1. CASE mine
    BY <1>6, <2>1
  <2>2. CASE ~mine
    <3>1. rest = <<>> /\ <<>> \in Seq(Peer)
      BY <2>2
    <3> QED
      BY <2>2, <3>1
  <2> QED
    BY <2>1, <2>2
<1>8. \A x \in ToSet(todo) : mine => x \in Peer
  BY <1>4, InSeq
<1> HIDE DEF rest
<1>9. /\ Offering(p, rest) \in [stage : {"engine", "offer", "over"}, todo : Seq(Peer)]
      /\ Offering(p, rest).todo = rest /\ (Offering(p, rest).stage = "offer" => rest # <<>>)
      /\ (rest # <<>> => Offering(p, rest).stage # "over")
  BY <1>7 DEF Offering
<1>10. /\ task' \in [Receivers -> [stage : {"engine", "offer", "over"}, todo : Seq(Peer)]]
       /\ \A o \in Receivers : o # p => task'[o] = task[o]
       /\ p \in Receivers => task'[p] = IF mine THEN Offering(p, rest) ELSE task[p]
       /\ \A o \in Receivers : task'[o].stage = "offer" => task'[o].todo # <<>>
  <2>1. CASE mine
    BY <1>1, <1>2, <1>9, <2>1 DEF Types
  <2>2. CASE ~mine
    BY <1>1, <1>2, <2>2 DEF Types
  <2> QED
    BY <2>1, <2>2
<1>11. /\ link' \in [Peer -> [Peer -> {"none", "offering", "offered", "answering", "connected"}]]
       /\ \A o \in Peer : o # p => link'[o] = link[o]
       /\ link'[p][q] = "offered"
       /\ \A o \in Peer : o # q => \/ link'[p][o] = link[p][o]
                                   \/ link'[p][o] = "offering" /\ rest # <<>> /\ o = Head(rest)
  BY <1>1, <1>2 DEF Types
<1>12. Offer(q) \in Request
  BY NewRequests
<1>13. outbox' \in [Peer -> Seq(Request)] /\ \A o \in Peer : o # p => outbox'[o] = outbox[o]
  BY <1>1, <1>2, <1>12, SendingDoes
<1>14. Types'
  BY <1>1, <1>2, <1>10, <1>11, <1>13 DEF Types
<1>15. Moves(p)
  BY <1>2, <1>10, <1>11, <1>13, <1>14 DEF Moves
<1>16. ASSUME NEW o \in Peer, o # q PROVE link'[p][o] = link[p][o] \/ (p \in Receivers /\ OffersFrom(p, o))
  <2>1. CASE rest # <<>> /\ o = Head(rest) /\ link'[p][o] = "offering"
    <3>1. p \in Receivers /\ o \in ToSet(todo) /\ Due(p, o)
      BY <1>5, <1>7, <2>1
    <3> QED
      BY <2>1, <3>1 DEF OffersFrom, Due, Dir, Offers
  <2> QED
    BY <1>11, <1>16, <2>1
<1>17. ASSUME p \in Receivers
       PROVE  /\ ToSet(task'[p].todo) \subseteq ToSet(task[p].todo)
              /\ task[p].stage = "over" => task'[p].stage = "over"
              /\ \A o \in ToSet(task[p].todo) : 
                   task[p].stage # "over" /\ o # q /\ Dir(p, o) /\ link[p][o] = "none" =>
                     o \in ToSet(task'[p].todo) /\ task'[p].stage # "over"
  <2>1. CASE mine
    <3>1. ToSet(rest) \subseteq ToSet(todo)
      BY <1>5, <1>7, <2>1
    <3>2. ASSUME NEW o \in ToSet(todo), o # q, Dir(p, o), link[p][o] = "none" 
          PROVE  o \in ToSet(rest) /\ rest # <<>>
      <4>1. Due(p, o)
        BY <3>2 DEF Due, Dir, Offers
      <4>2. o \in ToSet(Tail(todo))
        BY <1>5, <2>1, <3>2
      <4>3. o \in ToSet(rest)
        BY <1>7, <2>1, <4>1, <4>2
      <4> QED
        BY <4>3, ToSetSmall
    <3> QED
      BY <1>9, <1>10, <1>17, <2>1, <3>1, <3>2
  <2>2. CASE ~mine
    BY <1>10, <1>17, <2>2
  <2> QED
    BY <2>1, <2>2
<1> QED
  BY <1>2, <1>3, <1>11, <1>15, <1>16, <1>17

LEMMA AnswerReadyDoes ==
  ASSUME RoomInv, NEW p \in Peer, NEW q \in Peer, AnswerReady(p, q)
  PROVE  /\ Moves(p) /\ client[p] = "open" /\ HasJoined(p) /\ HasJoined(q) /\ Sending(p, Answer(q))
         /\ UNCHANGED <<inbox, client, roster, known, task, alarm, trouble>>
         /\ link[p][q] = "answering" /\ link'[p][q] = "connected"
         /\ \A o \in Peer : o # q => link'[p][o] = link[p][o]
<1>1. Types
  BY DEF RoomInv
<1>2. /\ client[p] = "open" /\ link[p][q] = "answering" /\ Sending(p, Answer(q))
      /\ link' = [link EXCEPT ![p][q] = "connected"]
      /\ UNCHANGED <<room, members, conn, inbox, client, roster, known, task, alarm, trouble>>
  BY DEF AnswerReady, Answer
<1>3. HasJoined(p) /\ HasJoined(q)
  <2>1. link[p][q] # "none"
    BY <1>2
  <2>2. HasJoined(q)
    BY <2>1 DEF RoomInv, Strangers
  <2>3. conn[p] \in {"none", "attached", "member", "closed"} /\ conn[p] \notin {"none", "attached"}
    BY <1>1, <2>1 DEF RoomInv, Entering, Types
  <2> QED
    BY <2>2, <2>3 DEF HasJoined
<1>4. /\ link' \in [Peer -> [Peer -> {"none", "offering", "offered", "answering", "connected"}]]
      /\ \A o \in Peer : o # p => link'[o] = link[o]
      /\ link'[p][q] = "connected" /\ \A o \in Peer : o # q => link'[p][o] = link[p][o]
  BY <1>1, <1>2 DEF Types
<1>5. Answer(q) \in Request
  BY NewRequests
<1>6. outbox' \in [Peer -> Seq(Request)] /\ \A o \in Peer : o # p => outbox'[o] = outbox[o]
  BY <1>1, <1>2, <1>5, SendingDoes
<1>7. Types'
  BY <1>1, <1>2, <1>4, <1>6 DEF Types
<1>8. Moves(p)
  BY <1>2, <1>4, <1>6, <1>7 DEF Moves
<1> QED
  BY <1>2, <1>3, <1>4, <1>8

\* A message of another peer, and the list of the peers.
LEMMA NewsDoes ==
  ASSUME RoomInv, NEW p \in Peer, NEW type \in Relayed, Take1(p, type)
  PROVE  /\ Head(inbox[p]).from \in Peer /\ Head(inbox[p]) = News(type, Head(inbox[p]).from)
         /\ News(type, Head(inbox[p]).from) \in ToSet(inbox[p])
         /\ HasJoined(p) /\ HasJoined(Head(inbox[p]).from)
<1> DEFINE m == Head(inbox[p])
<1>1. Types
  BY DEF RoomInv
<1>2. m \in Message /\ m.type = type /\ m \in ToSet(inbox[p])
  <2>1. /\ inbox[p] # <<>> /\ Head(inbox[p]) \in Message /\ Head(inbox[p]).type = type
        /\ ToSet(inbox[p]) = {Head(inbox[p])} \cup ToSet(inbox'[p])
    BY <1>1, Take1Does
  <2> QED
    BY <2>1
<1> HIDE DEF m
<1>3. m = News(type, m.from) /\ m.from \in Peer
  BY <1>2, MessageKinds
<1>4. m # Error
  BY <1>2, NewMessages DEF Relayed
<1>5. HasJoined(p)
  <2>1. conn[p] \in {"none", "attached", "member", "closed"} /\ conn[p] \notin {"none", "attached"}
    BY <1>1, <1>2, <1>4 DEF RoomInv, Entering, Types
  <2> QED
    BY <2>1 DEF HasJoined
<1>6. Mentions(m, m.from)
  BY <1>2 DEF Mentions, Relayed
<1>7. HasJoined(m.from)
  BY <1>2, <1>3, <1>6 DEF RoomInv, Strangers
<1> QED
  BY <1>2, <1>3, <1>5, <1>7 DEF m

LEMMA PeerJoinedDoes ==
  ASSUME RoomInv, NEW p \in Peer, PeerJoined(p)
  PROVE  LET q == Head(inbox[p]).from
         IN  /\ Moves(p) /\ Take1(p, "PEER_JOINED") /\ UNCHANGED <<known, task, alarm>>
             /\ roster'[p] = roster[p] \cup {q}
             /\ \A o \in Peer : o # q => link'[p][o] = link[p][o]
             /\ link'[p][q] = IF p # Owner /\ p < q /\ known[p] /\ link[p][q] = "none" THEN "offering" ELSE link[p][q]
<1> DEFINE q == Head(inbox[p]).from
<1>1. Types /\ Take1(p, "PEER_JOINED") /\ "PEER_JOINED" \in Relayed
  BY DEF RoomInv, PeerJoined, Relayed
<1>2. q \in Peer
  BY <1>1, NewsDoes
<1>3. /\ inbox' \in [Peer -> Seq(Message)] /\ \A o \in Peer : o # p => inbox'[o] = inbox[o]
      /\ client[p] = "open" /\ UNCHANGED <<room, members, conn, outbox, client, trouble>>
  BY <1>1, Take1Does
<1>4. /\ roster' = [roster EXCEPT ![p] = @ \cup {q}] /\ UNCHANGED <<known, task, alarm>>
      /\ link' = IF p # Owner /\ Offers(p, q) /\ known[p] /\ link[p][q] = "none"
                 THEN [link EXCEPT ![p][q] = "offering"] ELSE link
  BY DEF PeerJoined
<1> HIDE DEF q
<1>5. /\ link' \in [Peer -> [Peer -> {"none", "offering", "offered", "answering", "connected"}]]
      /\ \A o \in Peer : o # p => link'[o] = link[o]
      /\ \A o \in Peer : o # q => link'[p][o] = link[p][o]
      /\ link'[p][q] = IF p # Owner /\ p < q /\ known[p] /\ link[p][q] = "none" THEN "offering" ELSE link[p][q]
  BY <1>1, <1>2, <1>4 DEF Types, Offers
<1>6. /\ roster' \in [Peer -> SUBSET Peer] /\ \A o \in Peer : o # p => roster'[o] = roster[o]
      /\ roster'[p] = roster[p] \cup {q}
  BY <1>1, <1>2, <1>4 DEF Types
<1>7. Types'
  BY <1>1, <1>3, <1>4, <1>5, <1>6 DEF Types
<1>8. Moves(p)
  BY <1>3, <1>4, <1>5, <1>6, <1>7 DEF Moves
<1> QED
  BY <1>1, <1>4, <1>5, <1>6, <1>8 DEF q

LEMMA PeerLeftDoes ==
  ASSUME RoomInv, NEW p \in Peer, PeerLeft(p)
  PROVE  LET q == Head(inbox[p]).from
         IN  /\ Moves(p) /\ Take1(p, "PEER_LEFT") /\ UNCHANGED <<known, alarm>>
             /\ roster'[p] = roster[p] \ {q} /\ conn[q] = "closed"
             /\ \A o \in Peer : o # q => link'[p][o] = link[p][o]
             /\ link'[p][q] = "none"
             /\ p \in Receivers => task'[p] \in {task[p], Over}
<1> DEFINE q == Head(inbox[p]).from
<1>1. Types /\ Take1(p, "PEER_LEFT") /\ "PEER_LEFT" \in Relayed
  BY DEF RoomInv, PeerLeft, Relayed
<1>2. q \in Peer /\ conn[q] = "closed"
  <2>1. q \in Peer /\ News("PEER_LEFT", q) \in ToSet(inbox[p])
    BY <1>1, NewsDoes
  <2> HIDE DEF q
  <2>2. News("PEER_LEFT", q).type = "PEER_LEFT" /\ News("PEER_LEFT", q).from = q
    BY DEF News
  <2> QED
    BY <2>1, <2>2 DEF RoomInv, NewsIsTrue
<1>3. /\ inbox' \in [Peer -> Seq(Message)] /\ \A o \in Peer : o # p => inbox'[o] = inbox[o]
      /\ client[p] = "open" /\ UNCHANGED <<room, members, conn, outbox, client, trouble>>
  BY <1>1, Take1Does
<1>4. /\ roster' = [roster EXCEPT ![p] = @ \ {q}] /\ UNCHANGED <<known, alarm>>
      /\ link' = [link EXCEPT ![p][q] = "none"]
      /\ task' = IF p \in Receivers /\ task[p].stage = "offer" /\ Head(task[p].todo) = q
                 THEN [task EXCEPT ![p] = Over] ELSE task
  BY DEF PeerLeft
<1> HIDE DEF q
<1>5. /\ link' \in [Peer -> [Peer -> {"none", "offering", "offered", "answering", "connected"}]]
      /\ \A o \in Peer : o # p => link'[o] = link[o]
      /\ \A o \in Peer : o # q => link'[p][o] = link[p][o]
      /\ link'[p][q] = "none"
  BY <1>1, <1>2, <1>4 DEF Types
<1>6. /\ roster' \in [Peer -> SUBSET Peer] /\ \A o \in Peer : o # p => roster'[o] = roster[o]
      /\ roster'[p] = roster[p] \ {q}
  BY <1>1, <1>2, <1>4 DEF Types
<1>7. Over \in [stage : {"engine", "offer", "over"}, todo : Seq(Peer)] /\ Over.stage = "over"
  BY DEF Over
<1>8. /\ task' \in [Receivers -> [stage : {"engine", "offer", "over"}, todo : Seq(Peer)]]
      /\ \A o \in Receivers : o # p => task'[o] = task[o]
      /\ p \in Receivers => task'[p] \in {task[p], Over}
      /\ \A o \in Receivers : task'[o].stage = "offer" => task'[o].todo # <<>>
  BY <1>1, <1>4, <1>7 DEF Types
<1>9. Types'
  BY <1>1, <1>3, <1>4, <1>5, <1>6, <1>8 DEF Types
<1>10. Moves(p)
  BY <1>3, <1>4, <1>5, <1>6, <1>8, <1>9 DEF Moves
<1> QED
  BY <1>1, <1>2, <1>4, <1>5, <1>6, <1>8, <1>10 DEF q

LEMMA OfferArrivesDoes ==
  ASSUME RoomInv, NEW p \in Peer, OfferArrives(p)
  PROVE  LET q == Head(inbox[p]).from
         IN  /\ Moves(p) /\ Take1(p, "OFFER") /\ UNCHANGED <<known, task, alarm>>
             /\ roster'[p] = roster[p] \cup {q}
             /\ \A o \in Peer : o # q => link'[p][o] = link[p][o]
             /\ link'[p][q] = "answering"
<1> DEFINE q == Head(inbox[p]).from
<1>1. Types /\ Take1(p, "OFFER") /\ "OFFER" \in Relayed
  BY DEF RoomInv, OfferArrives, Relayed
<1>2. q \in Peer
  BY <1>1, NewsDoes
<1>3. /\ inbox' \in [Peer -> Seq(Message)] /\ \A o \in Peer : o # p => inbox'[o] = inbox[o]
      /\ client[p] = "open" /\ UNCHANGED <<room, members, conn, outbox, client, trouble>>
  BY <1>1, Take1Does
<1>4. /\ roster' = [roster EXCEPT ![p] = @ \cup {q}] /\ UNCHANGED <<known, task, alarm>>
      /\ link' = [link EXCEPT ![p][q] = "answering"]
  BY DEF OfferArrives
<1> HIDE DEF q
<1>5. /\ link' \in [Peer -> [Peer -> {"none", "offering", "offered", "answering", "connected"}]]
      /\ \A o \in Peer : o # p => link'[o] = link[o]
      /\ \A o \in Peer : o # q => link'[p][o] = link[p][o]
      /\ link'[p][q] = "answering"
  BY <1>1, <1>2, <1>4 DEF Types
<1>6. /\ roster' \in [Peer -> SUBSET Peer] /\ \A o \in Peer : o # p => roster'[o] = roster[o]
      /\ roster'[p] = roster[p] \cup {q}
  BY <1>1, <1>2, <1>4 DEF Types
<1>7. Types'
  BY <1>1, <1>3, <1>4, <1>5, <1>6 DEF Types
<1>8. Moves(p)
  BY <1>3, <1>4, <1>5, <1>6, <1>7 DEF Moves
<1> QED
  BY <1>1, <1>4, <1>5, <1>6, <1>8 DEF q

LEMMA AnswerArrivesDoes ==
  ASSUME RoomInv, NEW p \in Peer, AnswerArrives(p)
  PROVE  LET q == Head(inbox[p]).from
         IN  /\ Moves(p) /\ Take1(p, "ANSWER") /\ UNCHANGED <<roster, known, task, alarm>>
             /\ \A o \in Peer : o # q => link'[p][o] = link[p][o]
             /\ link'[p][q] = IF link[p][q] = "none" THEN "none" ELSE "connected"
<1> DEFINE q == Head(inbox[p]).from
<1>1. Types /\ Take1(p, "ANSWER") /\ "ANSWER" \in Relayed
  BY DEF RoomInv, AnswerArrives, Relayed
<1>2. q \in Peer
  BY <1>1, NewsDoes
<1>3. /\ inbox' \in [Peer -> Seq(Message)] /\ \A o \in Peer : o # p => inbox'[o] = inbox[o]
      /\ client[p] = "open" /\ UNCHANGED <<room, members, conn, outbox, client, trouble>>
  BY <1>1, Take1Does
<1>4. /\ UNCHANGED <<roster, known, task, alarm>>
      /\ link' = [link EXCEPT ![p][q] = IF @ = "none" THEN "none" ELSE "connected"]
  BY DEF AnswerArrives
<1> HIDE DEF q
<1>5. /\ link' \in [Peer -> [Peer -> {"none", "offering", "offered", "answering", "connected"}]]
      /\ \A o \in Peer : o # p => link'[o] = link[o]
      /\ \A o \in Peer : o # q => link'[p][o] = link[p][o]
      /\ link'[p][q] = IF link[p][q] = "none" THEN "none" ELSE "connected"
  BY <1>1, <1>2, <1>4 DEF Types
<1>6. Types'
  BY <1>1, <1>3, <1>4, <1>5 DEF Types
<1>7. Moves(p)
  BY <1>3, <1>4, <1>5, <1>6 DEF Moves
<1> QED
  BY <1>1, <1>4, <1>5, <1>7 DEF q

LEMMA ErrorArrivesDoes ==
  ASSUME RoomInv, NEW p \in Peer, ErrorArrives(p)
  PROVE  /\ Moves(p) /\ Take1(p, "ERROR") /\ Head(inbox[p]) = Error
         /\ UNCHANGED <<roster, known, link, task>> /\ alarm'[p] = TRUE
<1>1. Types /\ Take1(p, "ERROR")
  BY DEF RoomInv, ErrorArrives
<1>2. /\ inbox' \in [Peer -> Seq(Message)] /\ \A o \in Peer : o # p => inbox'[o] = inbox[o]
      /\ client[p] = "open" /\ UNCHANGED <<room, members, conn, outbox, client, trouble>>
      /\ Head(inbox[p]) \in Message /\ Head(inbox[p]).type = "ERROR"
  BY <1>1, Take1Does
<1>3. Head(inbox[p]) = Error
  BY <1>2, MessageKinds
<1>4. UNCHANGED <<roster, known, link, task>> /\ alarm' = [alarm EXCEPT ![p] = TRUE]
  BY DEF ErrorArrives
<1>5. alarm' \in [Peer -> BOOLEAN] /\ alarm'[p] = TRUE /\ \A o \in Peer : o # p => alarm'[o] = alarm[o]
  BY <1>1, <1>4 DEF Types
<1>6. Types'
  BY <1>1, <1>2, <1>4, <1>5 DEF Types
<1>7. Moves(p)
  BY <1>2, <1>4, <1>5, <1>6 DEF Moves
<1> QED
  BY <1>1, <1>3, <1>4, <1>5, <1>7

LEMMA SessionJoinedDoes ==
  ASSUME RoomInv, NEW p \in Receivers, SessionJoined(p)
  PROVE  LET list == Head(inbox[p]).peers
         IN  /\ Moves(p) /\ Take1(p, "SESSION_JOINED") /\ UNCHANGED <<link, alarm>>
             /\ list \in Seq(Peer) /\ list # <<>> /\ Head(inbox[p]) = Joined(list) /\ Owner \in ToSet(list)
             /\ Joined(list) \in ToSet(inbox[p])
             /\ HasJoined(p) /\ \A q \in ToSet(list) : HasJoined(q) /\ q \in Peer
             /\ roster'[p] = roster[p] \cup ToSet(list) /\ known'[p] = TRUE
             /\ task'[p].stage = "engine" /\ ToSet(task'[p].todo) = ToSet(list)
<1> DEFINE m == Head(inbox[p])
           list == m.peers
<1>0. p \in Peer
  BY PeerNumbers
<1>1. Types /\ Take1(p, "SESSION_JOINED")
  BY DEF RoomInv, SessionJoined
<1>2. /\ inbox' \in [Peer -> Seq(Message)] /\ \A o \in Peer : o # p => inbox'[o] = inbox[o]
      /\ client[p] = "open" /\ UNCHANGED <<room, members, conn, outbox, client, trouble>>
      /\ m \in Message /\ m.type = "SESSION_JOINED" /\ m \in ToSet(inbox[p])
  <2>1. ToSet(inbox[p]) = {Head(inbox[p])} \cup ToSet(inbox'[p])
    BY <1>0, <1>1, Take1Does
  <2> QED
    BY <1>0, <1>1, <2>1, Take1Does
<1>3. /\ roster' = [roster EXCEPT ![p] = @ \cup {Owner} \cup ToSet(list)]
      /\ task' = [task EXCEPT ![p] = [stage |-> "engine", todo |-> <<Owner>> \o Tail(list)]]
      /\ known' = [known EXCEPT ![p] = TRUE]
      /\ UNCHANGED <<link, alarm>>
  BY DEF SessionJoined
<1> HIDE DEF m
<1>4. m = Joined(list) /\ list \in Seq(Peer)
  BY <1>2, MessageKinds
<1>5. list # <<>> /\ list[1] = Owner
  BY <1>0, <1>2 DEF RoomInv, NewsIsTrue
<1>6. \A q \in ToSet(list) : HasJoined(q) /\ q \in Peer
  <2> SUFFICES ASSUME NEW q \in ToSet(list) PROVE HasJoined(q) /\ q \in Peer
    OBVIOUS
  <2>1. q \in Peer
    BY <1>4, InSeq
  <2>2. Mentions(m, q)
    BY <1>2 DEF Mentions
  <2> QED
    BY <1>0, <1>2, <2>1, <2>2 DEF RoomInv, Strangers
<1>7. HasJoined(p)
  <2>1. m # Error
    BY <1>2, NewMessages
  <2>2. conn[p] \in {"none", "attached", "member", "closed"} /\ conn[p] \notin {"none", "attached"}
    BY <1>0, <1>1, <1>2, <2>1 DEF RoomInv, Entering, Types
  <2> QED
    BY <2>2 DEF HasJoined
<1> HIDE DEF list
<1>8. /\ <<Owner>> \o Tail(list) \in Seq(Peer) /\ ToSet(<<Owner>> \o Tail(list)) = ToSet(list)
      /\ Owner \in ToSet(list)
  <2>1. Head(list) = Owner /\ ToSet(list) = {Head(list)} \cup ToSet(Tail(list)) /\ Tail(list) \in Seq(Peer)
    BY <1>4, <1>5, ToSetTail
  <2>2. <<Owner>> \in Seq(Peer)
    BY PeerNumbers
  <2>3. <<Owner>> \o Tail(list) \in Seq(Peer) /\ ToSet(<<Owner>> \o Tail(list)) = ToSet(<<Owner>>) \cup ToSet(Tail(list))
    <3> DEFINE head == <<Owner>>
               t == Tail(list)
    <3>1. head \in Seq(Peer) /\ t \in Seq(Peer)
      BY <2>1, <2>2
    <3> HIDE DEF head, t
    <3>2. head \o t \in Seq(Peer) /\ ToSet(head \o t) = ToSet(head) \cup ToSet(t)
      BY <3>1, ToSetConcat, Zenon
    <3> QED
      BY <3>2 DEF head, t
  <2> QED
    BY <2>1, <2>3, ToSetSmall, Zenon
<1>9. /\ roster' \in [Peer -> SUBSET Peer] /\ \A o \in Peer : o # p => roster'[o] = roster[o]
      /\ roster'[p] = roster[p] \cup ToSet(list)
  BY <1>0, <1>1, <1>3, <1>6, <1>8 DEF Types
<1>10. /\ known' \in [Peer -> BOOLEAN] /\ known'[p] = TRUE /\ \A o \in Peer : o # p => known'[o] = known[o]
  BY <1>0, <1>1, <1>3 DEF Types
<1>11. /\ task' \in [Receivers -> [stage : {"engine", "offer", "over"}, todo : Seq(Peer)]]
       /\ \A o \in Receivers : o # p => task'[o] = task[o]
       /\ task'[p].stage = "engine" /\ ToSet(task'[p].todo) = ToSet(list)
       /\ \A o \in Receivers : task'[o].stage = "offer" => task'[o].todo # <<>>
  <2> DEFINE todo == <<Owner>> \o Tail(list)
  <2>1. todo \in Seq(Peer) /\ ToSet(todo) = ToSet(list) /\ task' = [task EXCEPT ![p] = [stage |-> "engine", todo |-> todo]]
    BY <1>3, <1>8
  <2> HIDE DEF todo
  <2> QED
    BY <1>1, <2>1 DEF Types
<1>12. Types'
  BY <1>1, <1>2, <1>3, <1>9, <1>10, <1>11 DEF Types
<1>13. Moves(p)
  BY <1>0, <1>2, <1>3, <1>9, <1>10, <1>11, <1>12 DEF Moves
<1> QED
  BY <1>1, <1>2, <1>3, <1>4, <1>5, <1>6, <1>7, <1>8, <1>9, <1>10, <1>11, <1>13 DEF list, m

\* A client loses its task, its connections or its socket.
Drops(p) ==
  /\ Moves(p) /\ UNCHANGED <<roster, known, alarm>>
  /\ client[p] = "open"
  /\ trouble' = 0 => conn[p] = "closed"
  /\ inbox'[p] \in {inbox[p], <<>>} /\ outbox'[p] \in {outbox[p], <<>>}
  /\ \A o \in Peer : \/ link'[p][o] = link[p][o]
                     \/ client'[p] = "gone" /\ inbox'[p] = <<>> /\ link'[p][o] = "none"
  /\ client'[p] = "gone" \/ (client'[p] = client[p] /\ inbox'[p] = inbox[p])
  /\ p \in Receivers => task'[p] = Over

LEMMA GoneDoes ==
  ASSUME RoomInv, NEW p \in Peer, client[p] = "open", Gone(p),
         outbox' \in {outbox, [outbox EXCEPT ![p] = <<>>]}, trouble' \in {trouble, trouble + 1},
         trouble' \in 0..MaxTrouble, trouble' = 0 => conn[p] = "closed"
  PROVE  Drops(p)
<1>1. Types
  BY DEF RoomInv
<1>2. /\ client' = [client EXCEPT ![p] = "gone"] /\ link' = [link EXCEPT ![p] = [q \in Peer |-> "none"]]
      /\ task' = IF p \in Receivers THEN [task EXCEPT ![p] = Over] ELSE task
      /\ inbox' = [inbox EXCEPT ![p] = <<>>] /\ UNCHANGED <<room, members, conn, roster, known, alarm>>
  BY DEF Gone
<1>3. <<>> \in Seq(Message) /\ <<>> \in Seq(Request)
  OBVIOUS
<1>4. /\ inbox' \in [Peer -> Seq(Message)] /\ \A o \in Peer : o # p => inbox'[o] = inbox[o]
      /\ inbox'[p] = <<>>
  BY <1>1, <1>2, <1>3 DEF Types
<1>5. /\ outbox' \in [Peer -> Seq(Request)] /\ \A o \in Peer : o # p => outbox'[o] = outbox[o]
      /\ outbox'[p] \in {outbox[p], <<>>}
  <2>1. CASE outbox' = outbox
    BY <1>1, <2>1 DEF Types
  <2>2. CASE outbox' = [outbox EXCEPT ![p] = <<>>]
    BY <1>1, <1>3, <2>2 DEF Types
  <2> QED
    BY <2>1, <2>2
<1>6. /\ link' \in [Peer -> [Peer -> {"none", "offering", "offered", "answering", "connected"}]]
      /\ \A o \in Peer : o # p => link'[o] = link[o]
      /\ \A o \in Peer : link'[p][o] = "none"
  BY <1>1, <1>2 DEF Types
<1>7. Over \in [stage : {"engine", "offer", "over"}, todo : Seq(Peer)] /\ Over.stage = "over"
  BY DEF Over
<1>8. /\ task' \in [Receivers -> [stage : {"engine", "offer", "over"}, todo : Seq(Peer)]]
      /\ \A o \in Receivers : o # p => task'[o] = task[o]
      /\ p \in Receivers => task'[p] = Over
      /\ \A o \in Receivers : task'[o].stage = "offer" => task'[o].todo # <<>>
  BY <1>1, <1>2, <1>7 DEF Types
<1>9. /\ client' \in [Peer -> {"out", "open", "gone"}] /\ client'[p] = "gone"
      /\ \A o \in Peer : o # p => client'[o] = client[o]
  BY <1>1, <1>2 DEF Types
<1>10. Types'
  BY <1>1, <1>2, <1>4, <1>5, <1>6, <1>8, <1>9 DEF Types
<1>11. Moves(p)
  BY <1>2, <1>4, <1>5, <1>6, <1>8, <1>9, <1>10 DEF Moves
<1> QED
  BY <1>2, <1>4, <1>5, <1>6, <1>8, <1>9, <1>11 DEF Drops

LEMMA LeaveDrops ==
  ASSUME RoomInv, NEW p \in Peer, Leave(p)
  PROVE  Drops(p)
<1>1. /\ client[p] = "open" /\ trouble < MaxTrouble /\ trouble' = trouble + 1 /\ Gone(p)
      /\ outbox' \in {outbox, [outbox EXCEPT ![p] = <<>>]}
  BY DEF Leave, TroubleFor, Trouble
<1>2. trouble' \in 0..MaxTrouble /\ trouble' # 0
  BY <1>1, MeshAssumption DEF RoomInv, Types
<1> QED
  BY <1>1, <1>2, GoneDoes

LEMMA EvictionDrops ==
  ASSUME RoomInv, NEW p \in Peer, EvictionArrives(p)
  PROVE  Drops(p)
<1>1. /\ client[p] = "open" /\ conn[p] = "closed" /\ Gone(p) /\ outbox' = outbox /\ trouble' = trouble
  BY DEF EvictionArrives
<1>2. trouble' \in 0..MaxTrouble
  BY <1>1 DEF RoomInv, Types
<1> QED
  BY <1>1, <1>2, GoneDoes

LEMMA EngineFailsDrops ==
  ASSUME RoomInv, NEW p \in Receivers, EngineFails(p)
  PROVE  Drops(p)
<1>0. p \in Peer
  BY PeerNumbers
<1>1. Types
  BY DEF RoomInv
<1>2. /\ client[p] = "open" /\ trouble < MaxTrouble /\ trouble' = trouble + 1
      /\ task' = [task EXCEPT ![p] = Over]
      /\ UNCHANGED <<room, members, conn, inbox, outbox, client, roster, known, link, alarm>>
  BY DEF EngineFails, TroubleFor, Trouble, roomVars
<1>3. trouble' \in 0..MaxTrouble /\ trouble' # 0
  BY <1>1, <1>2, MeshAssumption DEF Types
<1>4. Over \in [stage : {"engine", "offer", "over"}, todo : Seq(Peer)] /\ Over.stage = "over"
  BY DEF Over
<1>5. /\ task' \in [Receivers -> [stage : {"engine", "offer", "over"}, todo : Seq(Peer)]]
      /\ \A o \in Receivers : o # p => task'[o] = task[o]
      /\ task'[p] = Over
      /\ \A o \in Receivers : task'[o].stage = "offer" => task'[o].todo # <<>>
  BY <1>1, <1>2, <1>4 DEF Types
<1>6. Types'
  BY <1>1, <1>2, <1>3, <1>5 DEF Types
<1>7. Moves(p)
  BY <1>2, <1>5, <1>6 DEF Moves
<1>8. /\ inbox'[p] = inbox[p] /\ outbox'[p] = outbox[p] /\ client'[p] = client[p]
      /\ \A o \in Peer : link'[p][o] = link[p][o]
      /\ UNCHANGED <<roster, known, alarm>>
  BY <1>2
<1> QED
  BY <1>2, <1>3, <1>5, <1>7, <1>8 DEF Drops

-----------------------------------------------------------------------------
(* The room's invariant.                                                    *)

\* A client's step, for the room: it speaks of peers that have joined, and only
\* when it has joined itself.
Tame(p) ==
  /\ Moves(p)
  /\ ToSet(inbox'[p]) \subseteq ToSet(inbox[p]) /\ (inbox[p] = <<>> => inbox'[p] = <<>>)
  /\ \A x \in ToSet(outbox'[p]) : \/ x \in ToSet(outbox[p])
                                  \/ \E q \in Peer : HasJoined(q) /\ x \in {Offer(q), Answer(q)}
  /\ conn[p] = "closed" => outbox'[p] = <<>>
  /\ \A q \in Peer : link'[p][q] # "none" => link[p][q] # "none" \/ HasJoined(q)
  /\ p \in Receivers => \A q \in ToSet(task'[p].todo) : q \in ToSet(task[p].todo) \/ HasJoined(q)
  /\ ~HasJoined(p) =>
       /\ roster'[p] = roster[p] /\ known'[p] = known[p] /\ outbox'[p] \in {outbox[p], <<>>}
       /\ \A q \in Peer : link'[p][q] = "none" \/ link'[p][q] = link[p][q]
       /\ p \in Receivers => task'[p].stage = "over"

LEMMA TameKeeps ==
  ASSUME RoomInv, NEW p \in Peer, Tame(p)
  PROVE  RoomInv'
<1>1. Types'
  BY DEF Tame, Moves
<1>2. UNCHANGED <<room, members, conn>> /\ (\A q \in Peer : HasJoined(q)' <=> HasJoined(q))
  BY DEF Tame, Moves, HasJoined
<1>3. conn[p] # "none" /\ client[p] # "out" /\ client'[p] # "out"
  BY DEF Tame, Moves, RoomInv, Entering
<1>4. Entering'
  <2> SUFFICES ASSUME NEW o \in Peer
               PROVE  /\ client'[o] = "out" <=> conn[o] = "none"
                      /\ conn[o] \in {"none", "attached"} =>
                           /\ roster'[o] = {o} /\ (\A q \in Peer : link'[o][q] = "none") /\ o \notin ToSet(members)
                           /\ ~known'[o] /\ (o \in Receivers => task'[o].stage = "over")
                           /\ \A m \in ToSet(inbox'[o]) : m = Error
                           /\ outbox'[o] \in {<<>>, <<Entry(o)>>} /\ (outbox'[o] # <<>> => inbox'[o] = <<>>)
                      /\ conn[o] = "none" => outbox'[o] = <<>> /\ inbox'[o] = <<>>
                      /\ conn[o] \in {"member", "closed"} => \A x \in ToSet(outbox'[o]) : x.type \in {"OFFER", "ANSWER"}
                      /\ conn[o] = "closed" => outbox'[o] = <<>>
    BY <1>2, Zenon DEF Entering
  <2>1. /\ client[o] = "out" <=> conn[o] = "none"
        /\ conn[o] \in {"none", "attached"} =>
             /\ roster[o] = {o} /\ (\A q \in Peer : link[o][q] = "none") /\ o \notin ToSet(members)
             /\ ~known[o] /\ (o \in Receivers => task[o].stage = "over")
             /\ \A m \in ToSet(inbox[o]) : m = Error
             /\ outbox[o] \in {<<>>, <<Entry(o)>>} /\ (outbox[o] # <<>> => inbox[o] = <<>>)
        /\ conn[o] = "none" => outbox[o] = <<>> /\ inbox[o] = <<>>
        /\ conn[o] \in {"member", "closed"} => \A x \in ToSet(outbox[o]) : x.type \in {"OFFER", "ANSWER"}
        /\ conn[o] = "closed" => outbox[o] = <<>>
    BY DEF RoomInv, Entering
  <2>2. CASE o # p
    BY <2>1, <2>2 DEF Tame, Moves
  <2>3. CASE o = p
    <3>1. conn[p] = "attached" => ~HasJoined(p)
      BY DEF HasJoined
    <3>2. \A x \in ToSet(outbox'[p]) : x \in ToSet(outbox[p]) \/ x.type \in {"OFFER", "ANSWER"}
      BY NewRequests DEF Tame
    <3>3. conn[p] = "attached" =>
            /\ roster'[p] = roster[p] /\ known'[p] = known[p] /\ outbox'[p] \in {outbox[p], <<>>}
            /\ \A q \in Peer : link'[p][q] = "none" \/ link'[p][q] = link[p][q]
            /\ p \in Receivers => task'[p].stage = "over"
      BY <3>1 DEF Tame
    <3>4. /\ ToSet(inbox'[p]) \subseteq ToSet(inbox[p]) /\ (inbox[p] = <<>> => inbox'[p] = <<>>)
          /\ conn[p] = "closed" => outbox'[p] = <<>>
      BY DEF Tame
    <3> QED
      BY <1>3, <2>1, <2>3, <3>2, <3>3, <3>4
  <2> QED
    BY <2>2, <2>3
<1>5. Session' /\ MembersAreConnected'
  BY <1>2 DEF RoomInv, Session, MembersAreConnected
<1>6. Strangers'
  <2> SUFFICES ASSUME NEW o \in Peer, NEW q \in Peer, ~HasJoined(q)
               PROVE  /\ link'[o][q] = "none"
                      /\ \A m \in ToSet(inbox'[o]) : ~Mentions(m, q)
                      /\ Offer(q) \notin ToSet(outbox'[o]) /\ Answer(q) \notin ToSet(outbox'[o])
                      /\ o \in Receivers => q \notin ToSet(task'[o].todo)
    BY <1>2, Zenon DEF Strangers
  <2>1. /\ link[o][q] = "none"
        /\ \A m \in ToSet(inbox[o]) : ~Mentions(m, q)
        /\ Offer(q) \notin ToSet(outbox[o]) /\ Answer(q) \notin ToSet(outbox[o])
        /\ o \in Receivers => q \notin ToSet(task[o].todo)
    BY DEF RoomInv, Strangers
  <2>2. CASE o # p
    BY <2>1, <2>2 DEF Tame, Moves
  <2>3. CASE o = p
    <3>1. link'[p][q] = "none"
      BY <2>1, <2>3 DEF Tame
    <3>2. \A m \in ToSet(inbox'[p]) : ~Mentions(m, q)
      BY <2>1, <2>3 DEF Tame
    <3>3. \A o2 \in Peer : HasJoined(o2) => Offer(q) \notin {Offer(o2), Answer(o2)} /\ Answer(q) \notin {Offer(o2), Answer(o2)}
      BY DEF Offer, Answer
    <3>4. Offer(q) \notin ToSet(outbox'[p]) /\ Answer(q) \notin ToSet(outbox'[p])
      BY <2>1, <2>3, <3>3 DEF Tame
    <3>5. p \in Receivers => q \notin ToSet(task'[p].todo)
      BY <2>1, <2>3 DEF Tame
    <3> QED
      BY <2>3, <3>1, <3>2, <3>4, <3>5
  <2> QED
    BY <2>2, <2>3
<1>7. NewsIsTrue'
  <2> SUFFICES ASSUME NEW o \in Peer, NEW m \in ToSet(inbox'[o])
               PROVE  /\ m.type = "PEER_LEFT" => conn[m.from] = "closed"
                      /\ m.type = "PEER_JOINED" => m.from \in Receivers
                      /\ m.type = "SESSION_JOINED" => o \in Receivers /\ m.peers # <<>> /\ m.peers[1] = Owner
    BY <1>2, Zenon DEF NewsIsTrue
  <2>1. m \in ToSet(inbox[o])
    BY DEF Tame, Moves
  <2> QED
    BY <2>1 DEF RoomInv, NewsIsTrue
<1> QED
  BY <1>1, <1>4, <1>5, <1>6, <1>7 DEF RoomInv

LEMMA NotJoined ==
  ASSUME RoomInv, NEW p \in Peer
  PROVE  /\ ~HasJoined(p) <=> conn[p] \in {"none", "attached"}
         /\ ~HasJoined(p) /\ p \in Receivers => task[p].stage = "over"
BY DEF RoomInv, Types, Entering, HasJoined

LEMMA ReceiveTame ==
  ASSUME RoomInv, NEW p \in Peer, NEW type, Take1(p, type), Moves(p),
         HasJoined(p) \/ UNCHANGED <<roster, known, link, task>>,
         \A q \in Peer : link'[p][q] # "none" => link[p][q] # "none" \/ HasJoined(q),
         p \in Receivers => \A q \in ToSet(task'[p].todo) : q \in ToSet(task[p].todo) \/ HasJoined(q)
  PROVE  Tame(p)
<1>1. Types
  BY DEF RoomInv
<1>2. /\ inbox[p] # <<>> /\ outbox' = outbox
      /\ ToSet(inbox[p]) = {Head(inbox[p])} \cup ToSet(inbox'[p])
  BY <1>1, Take1Does
<1>3. conn[p] = "closed" => outbox[p] = <<>>
  BY DEF RoomInv, Entering
<1>4. \A x \in ToSet(outbox'[p]) : x \in ToSet(outbox[p])
  BY <1>2
<1>5. ~HasJoined(p) =>
        /\ roster'[p] = roster[p] /\ known'[p] = known[p] /\ outbox'[p] \in {outbox[p], <<>>}
        /\ \A q \in Peer : link'[p][q] = "none" \/ link'[p][q] = link[p][q]
        /\ p \in Receivers => task'[p].stage = "over"
  BY <1>2, NotJoined
<1> QED
  BY <1>2, <1>3, <1>4, <1>5 DEF Tame

LEMMA ReceiveKeepsRoom ==
  ASSUME RoomInv, NEW p \in Peer, Receive(p)
  PROVE  RoomInv'
<1> SUFFICES Tame(p)
  BY TameKeeps
<1> DEFINE q == Head(inbox[p]).from
<1>1. CASE PeerJoined(p)
  <2>1. /\ Moves(p) /\ Take1(p, "PEER_JOINED") /\ UNCHANGED <<known, task, alarm>>
        /\ \A o \in Peer : o # q => link'[p][o] = link[p][o]
    BY <1>1, PeerJoinedDoes
  <2>2. HasJoined(p) /\ HasJoined(q)
    BY <2>1, NewsDoes DEF Relayed
  <2> HIDE DEF q
  <2>3. /\ \A o \in Peer : link'[p][o] # "none" => link[p][o] # "none" \/ HasJoined(o)
        /\ p \in Receivers => \A o \in ToSet(task'[p].todo) : o \in ToSet(task[p].todo) \/ HasJoined(o)
    BY <2>1, <2>2
  <2> QED
    BY <2>1, <2>2, <2>3, ReceiveTame
<1>2. CASE PeerLeft(p)
  <2>1. /\ Moves(p) /\ Take1(p, "PEER_LEFT")
        /\ \A o \in Peer : o # q => link'[p][o] = link[p][o]
        /\ link'[p][q] = "none" /\ (p \in Receivers => task'[p] \in {task[p], Over})
    BY <1>2, PeerLeftDoes
  <2>2. HasJoined(p)
    BY <2>1, NewsDoes DEF Relayed
  <2> HIDE DEF q
  <2>3. Over.todo = <<>> /\ ToSet(<<>>) = {}
    BY ToSetSmall DEF Over
  <2>4. /\ \A o \in Peer : link'[p][o] # "none" => link[p][o] # "none" \/ HasJoined(o)
        /\ p \in Receivers => \A o \in ToSet(task'[p].todo) : o \in ToSet(task[p].todo) \/ HasJoined(o)
    BY <2>1, <2>3
  <2> QED
    BY <2>1, <2>2, <2>4, ReceiveTame
<1>3. CASE OfferArrives(p)
  <2>1. /\ Moves(p) /\ Take1(p, "OFFER") /\ UNCHANGED <<known, task, alarm>>
        /\ \A o \in Peer : o # q => link'[p][o] = link[p][o]
    BY <1>3, OfferArrivesDoes
  <2>2. HasJoined(p) /\ HasJoined(q)
    BY <2>1, NewsDoes DEF Relayed
  <2> HIDE DEF q
  <2>3. /\ \A o \in Peer : link'[p][o] # "none" => link[p][o] # "none" \/ HasJoined(o)
        /\ p \in Receivers => \A o \in ToSet(task'[p].todo) : o \in ToSet(task[p].todo) \/ HasJoined(o)
    BY <2>1, <2>2
  <2> QED
    BY <2>1, <2>2, <2>3, ReceiveTame
<1>4. CASE AnswerArrives(p)
  <2>1. /\ Moves(p) /\ Take1(p, "ANSWER") /\ UNCHANGED <<known, task, alarm>>
        /\ \A o \in Peer : o # q => link'[p][o] = link[p][o]
    BY <1>4, AnswerArrivesDoes
  <2>2. HasJoined(p) /\ HasJoined(q)
    BY <2>1, NewsDoes DEF Relayed
  <2> HIDE DEF q
  <2>3. /\ \A o \in Peer : link'[p][o] # "none" => link[p][o] # "none" \/ HasJoined(o)
        /\ p \in Receivers => \A o \in ToSet(task'[p].todo) : o \in ToSet(task[p].todo) \/ HasJoined(o)
    BY <2>1, <2>2
  <2> QED
    BY <2>1, <2>2, <2>3, ReceiveTame
<1>5. CASE ErrorArrives(p)
  <2>1. /\ Moves(p) /\ Take1(p, "ERROR") /\ UNCHANGED <<roster, known, link, task>>
    BY <1>5, ErrorArrivesDoes
  <2>2. /\ \A o \in Peer : link'[p][o] # "none" => link[p][o] # "none" \/ HasJoined(o)
        /\ p \in Receivers => \A o \in ToSet(task'[p].todo) : o \in ToSet(task[p].todo) \/ HasJoined(o)
    BY <2>1
  <2> QED
    BY <2>1, <2>2, ReceiveTame
<1>6. CASE p \in Receivers /\ SessionJoined(p)
  <2> DEFINE list == Head(inbox[p]).peers
  <2>1. /\ Moves(p) /\ Take1(p, "SESSION_JOINED") /\ link' = link /\ HasJoined(p)
        /\ \A o \in ToSet(list) : HasJoined(o)
        /\ ToSet(task'[p].todo) = ToSet(list)
    BY <1>6, SessionJoinedDoes
  <2> HIDE DEF list
  <2>2. /\ \A o \in Peer : link'[p][o] # "none" => link[p][o] # "none" \/ HasJoined(o)
        /\ p \in Receivers => \A o \in ToSet(task'[p].todo) : o \in ToSet(task[p].todo) \/ HasJoined(o)
    BY <2>1
  <2> QED
    BY <2>1, <2>2, ReceiveTame
<1> QED
  BY <1>1, <1>2, <1>3, <1>4, <1>5, <1>6 DEF Receive

\* A client that waits for nothing of another: what it sends it sends to peers that have joined.
LEMMA SendTame ==
  ASSUME RoomInv, NEW p \in Peer, NEW q \in Peer, NEW x \in {Offer(q), Answer(q)}, Sending(p, x),
         Moves(p), inbox' = inbox, HasJoined(p), HasJoined(q),
         \A o \in Peer : link'[p][o] # "none" => link[p][o] # "none" \/ HasJoined(o),
         p \in Receivers => \A o \in ToSet(task'[p].todo) : o \in ToSet(task[p].todo) \/ HasJoined(o)
  PROVE  Tame(p)
<1>1. Types /\ x \in Request
  BY NewRequests DEF RoomInv
<1>2. /\ Connected(p) => ToSet(outbox'[p]) = ToSet(outbox[p]) \cup {x}
      /\ ~Connected(p) => outbox' = outbox
  BY <1>1, SendingDoes
<1>3. conn[p] = "closed" => ~Connected(p) /\ outbox[p] = <<>>
  BY DEF RoomInv, Entering, Connected
<1>4. \A y \in ToSet(outbox'[p]) : y \in ToSet(outbox[p]) \/ y = x
  BY <1>2
<1> QED
  BY <1>2, <1>3, <1>4 DEF Tame

LEMMA OfferReadyKeepsRoom ==
  ASSUME RoomInv, NEW p \in Peer, NEW q \in Peer, OfferReady(p, q)
  PROVE  RoomInv'
<1>1. /\ Moves(p) /\ HasJoined(p) /\ HasJoined(q) /\ Sending(p, Offer(q)) /\ inbox' = inbox
      /\ \A o \in Peer : o # q => link'[p][o] = link[p][o] \/ (p \in Receivers /\ OffersFrom(p, o))
      /\ p \in Receivers => ToSet(task'[p].todo) \subseteq ToSet(task[p].todo)
  BY OfferReadyDoes, Zenon
<1>2. \A o \in Peer : p \in Receivers /\ OffersFrom(p, o) => HasJoined(o)
  BY DEF OffersFrom, RoomInv, Strangers
<1>3. \A o \in Peer : link'[p][o] # "none" => link[p][o] # "none" \/ HasJoined(o)
  BY <1>1, <1>2
<1>4. p \in Receivers => \A o \in ToSet(task'[p].todo) : o \in ToSet(task[p].todo) \/ HasJoined(o)
  BY <1>1
<1>5. Tame(p)
  BY <1>1, <1>3, <1>4, SendTame
<1> QED
  BY <1>5, TameKeeps

LEMMA AnswerReadyKeepsRoom ==
  ASSUME RoomInv, NEW p \in Peer, NEW q \in Peer, AnswerReady(p, q)
  PROVE  RoomInv'
<1>1. /\ Moves(p) /\ HasJoined(p) /\ HasJoined(q) /\ Sending(p, Answer(q)) /\ UNCHANGED <<inbox, task>>
      /\ \A o \in Peer : o # q => link'[p][o] = link[p][o]
  BY AnswerReadyDoes
<1>2. \A o \in Peer : link'[p][o] # "none" => link[p][o] # "none" \/ HasJoined(o)
  BY <1>1
<1>3. Tame(p)
  BY <1>1, <1>2, SendTame
<1> QED
  BY <1>3, TameKeeps

LEMMA EngineJoinsKeepsRoom ==
  ASSUME RoomInv, NEW p \in Receivers, EngineJoins(p)
  PROVE  RoomInv'
<1>0. p \in Peer
  BY PeerNumbers
<1>1. /\ Moves(p) /\ HasJoined(p) /\ UNCHANGED <<inbox, outbox>>
      /\ \A o \in Peer : link'[p][o] = link[p][o] \/ OffersFrom(p, o)
      /\ ToSet(task'[p].todo) \subseteq ToSet(task[p].todo)
  BY EngineJoinsDoes
<1>2. \A o \in Peer : OffersFrom(p, o) => HasJoined(o)
  BY <1>0 DEF OffersFrom, RoomInv, Strangers
<1>3. \A o \in Peer : link'[p][o] # "none" => link[p][o] # "none" \/ HasJoined(o)
  BY <1>1, <1>2
<1>4. conn[p] = "closed" => outbox[p] = <<>>
  BY <1>0 DEF RoomInv, Entering
<1>5. Tame(p)
  BY <1>1, <1>3, <1>4 DEF Tame
<1> QED
  BY <1>0, <1>5, TameKeeps

LEMMA DropsKeepsRoom ==
  ASSUME RoomInv, NEW p \in Peer, Drops(p)
  PROVE  RoomInv'
<1>1. /\ Moves(p) /\ UNCHANGED <<roster, known, alarm>>
      /\ inbox'[p] \in {inbox[p], <<>>} /\ outbox'[p] \in {outbox[p], <<>>}
      /\ \A o \in Peer : link'[p][o] = link[p][o] \/ link'[p][o] = "none"
      /\ p \in Receivers => task'[p] = Over
  BY DEF Drops
<1>2. Over.todo = <<>> /\ Over.stage = "over" /\ ToSet(<<>>) = {}
  BY ToSetSmall DEF Over
<1>3. conn[p] = "closed" => outbox[p] = <<>>
  BY DEF RoomInv, Entering
<1>4. ToSet(inbox'[p]) \subseteq ToSet(inbox[p]) /\ (inbox[p] = <<>> => inbox'[p] = <<>>)
  BY <1>1, <1>2
<1>5. \A x \in ToSet(outbox'[p]) : x \in ToSet(outbox[p])
  BY <1>1, <1>2
<1>6. Tame(p)
  BY <1>1, <1>2, <1>3, <1>4, <1>5 DEF Tame
<1> QED
  BY <1>6, TameKeeps

-----------------------------------------------------------------------------
(* The steps of the server, by what they do.                                *)

Opens(p) ==
  /\ p = Owner /\ conn[p] = "attached" /\ room = "none" /\ members = <<>>
  /\ outbox[p] = <<Entry(p)>> /\ inbox[p] = <<>>
  /\ room' = "open" /\ members' = <<Owner>> /\ conn' = [conn EXCEPT ![p] = "member"]
  /\ outbox' = [outbox EXCEPT ![p] = <<>>]
  /\ UNCHANGED <<inbox, peerVars, trouble>>

Admits(p) ==
  /\ p \in Receivers /\ conn[p] = "attached" /\ room = "open" /\ Len(members) < MaxPeers
  /\ outbox[p] = <<Entry(p)>> /\ inbox[p] = <<>>
  /\ room' = room /\ members' = Append(members, p) /\ conn' = [conn EXCEPT ![p] = "member"]
  /\ outbox' = [outbox EXCEPT ![p] = <<>>]
  /\ inbox' \in [Peer -> Seq(Message)] /\ inbox'[p] = <<Joined(members')>>
  /\ \A q \in Peer : q # p =>
       inbox'[q] = IF conn[q] = "member" THEN Append(inbox[q], News("PEER_JOINED", p)) ELSE inbox[q]
  /\ UNCHANGED <<peerVars, trouble>>

Refuses(p) ==
  /\ outbox[p] # <<>> /\ outbox' = [outbox EXCEPT ![p] = Tail(@)] /\ inbox' = Sent(inbox, p, Error)
  /\ \/ /\ p \in Receivers /\ conn[p] = "attached" /\ outbox[p] = <<Entry(p)>>
        /\ ~(room = "open" /\ Len(members) < MaxPeers)
     \/ /\ conn[p] = "member"
        /\ \E q \in Peer : Head(outbox[p]) \in {Offer(q), Answer(q)} /\ ~(Member(p) /\ Member(q) /\ conn[q] = "member")
  /\ UNCHANGED <<room, members, conn, peerVars, trouble>>

Relays(p, q, type) ==
  /\ Member(p) /\ Member(q) /\ conn[p] = "member" /\ conn[q] = "member"
  /\ outbox[p] # <<>> /\ Head(outbox[p]) = IF type = "OFFER" THEN Offer(q) ELSE Answer(q)
  /\ outbox' = [outbox EXCEPT ![p] = Tail(@)] /\ inbox' = Sent(inbox, q, News(type, p))
  /\ UNCHANGED <<room, members, conn, peerVars, trouble>>

\* An attached connection has sent its entry, a member everything else.
LEMMA TakeKinds ==
  ASSUME RoomInv, NEW p \in Peer, NEW type, Take(p, type)
  PROVE  \/ /\ conn[p] = "attached" /\ outbox[p] = <<Entry(p)>> /\ inbox[p] = <<>> /\ Head(outbox[p]) = Entry(p)
            /\ type = IF p = Owner THEN "CREATE_SESSION" ELSE "JOIN_SESSION"
            /\ outbox' = [outbox EXCEPT ![p] = <<>>]
         \/ conn[p] = "member" /\ type \in {"OFFER", "ANSWER"}
<1>1. /\ outbox[p] # <<>> /\ Head(outbox[p]).type = type /\ conn[p] \in {"attached", "member"}
      /\ outbox' = [outbox EXCEPT ![p] = Tail(@)]
  BY DEF Take, Connected
<1>2. CASE conn[p] = "attached"
  <2>1. outbox[p] = <<Entry(p)>> /\ inbox[p] = <<>>
    BY <1>1, <1>2 DEF RoomInv, Entering
  <2>2. Head(outbox[p]) = Entry(p) /\ Tail(outbox[p]) = <<>>
    BY <2>1
  <2>3. Entry(p).type = IF p = Owner THEN "CREATE_SESSION" ELSE "JOIN_SESSION"
    BY NewRequests
  <2> QED
    BY <1>1, <1>2, <2>1, <2>2, <2>3
<1>3. CASE conn[p] = "member"
  <2>1. Head(outbox[p]) \in ToSet(outbox[p])
    <3>1. ToSet(outbox[p]) = {Head(outbox[p])} \cup ToSet(outbox'[p])
      BY TakeDoes DEF RoomInv
    <3> QED
      BY <3>1
  <2> QED
    BY <1>1, <1>3, <2>1 DEF RoomInv, Entering
<1> QED
  BY <1>1, <1>2, <1>3

LEMMA ServeKinds ==
  ASSUME RoomInv, NEW p \in Peer, Serve(p)
  PROVE  \/ Opens(p) \/ Admits(p) \/ Refuses(p)
         \/ \E q \in Peer, type \in {"OFFER", "ANSWER"} : Relays(p, q, type)
<1>0. UNCHANGED <<peerVars, trouble>> /\ HandleText(p)
  BY DEF Serve
<1>1. CASE HandleCreateSession(p)
  <2>1. /\ p = Owner /\ conn[p] = "attached" /\ outbox[p] = <<Entry(p)>> /\ inbox[p] = <<>>
        /\ outbox' = [outbox EXCEPT ![p] = <<>>]
    <3>1. Take(p, "CREATE_SESSION")
      BY <1>1 DEF HandleCreateSession
    <3> QED
      BY <3>1, TakeKinds
  <2>2. room = "none" /\ members = <<>>
    BY <2>1 DEF RoomInv, Session
  <2> QED
    BY <1>0, <1>1, <2>1, <2>2 DEF HandleCreateSession, Identified, Opens
<1>2. CASE HandleJoinSession(p)
  <2>1. /\ p \in Receivers /\ conn[p] = "attached" /\ outbox[p] = <<Entry(p)>> /\ inbox[p] = <<>>
        /\ outbox' = [outbox EXCEPT ![p] = <<>>] /\ outbox' = [outbox EXCEPT ![p] = Tail(@)] /\ outbox[p] # <<>>
    <3>1. Take(p, "JOIN_SESSION")
      BY <1>2 DEF HandleJoinSession
    <3> QED
      BY <3>1, TakeKinds, PeerNumbers DEF Take
  <2>2. members \in Seq(Peer) /\ Len(members) \in Nat /\ Len(Append(members, p)) = Len(members) + 1 /\ MaxPeers \in Nat
        /\ Append(members, p) \in Seq(Peer)
    BY RoomAssumption DEF RoomInv, Types
  <2>3. CASE room = "open" /\ WithinLimit(Append(members, p))
    <3>1. /\ members' = Append(members, p) /\ conn' = Identified(p) /\ room' = room
          /\ inbox' = Sent(Broadcast(News("PEER_JOINED", p), p), p, Joined(Append(members, p)))
      BY <1>2, <2>3 DEF HandleJoinSession
    <3>2. Len(members) < MaxPeers
      BY <2>2, <2>3 DEF WithinLimit
    <3>3. inbox \in [Peer -> Seq(Message)]
      BY DEF RoomInv, Types
    <3>4. News("PEER_JOINED", p) \in Message /\ Joined(Append(members, p)) \in Message
      BY <2>2, NewMessages DEF Relayed
    <3>5. \A q \in Peer : Append(inbox[q], News("PEER_JOINED", p)) \in Seq(Message)
      BY <3>3, <3>4
    <3>6. Append(inbox[p], Joined(Append(members, p))) = <<Joined(Append(members, p))>>
          /\ <<Joined(Append(members, p))>> \in Seq(Message)
      BY <2>1, <3>4
    <3>7. /\ inbox' \in [Peer -> Seq(Message)] /\ inbox'[p] = <<Joined(Append(members, p))>>
          /\ \A q \in Peer : q # p =>
               inbox'[q] = IF conn[q] = "member" THEN Append(inbox[q], News("PEER_JOINED", p)) ELSE inbox[q]
      <4> DEFINE box == Broadcast(News("PEER_JOINED", p), p)
      <4>1. /\ box \in [Peer -> Seq(Message)] /\ box[p] = inbox[p]
            /\ \A q \in Peer : q # p =>
                 box[q] = IF conn[q] = "member" THEN Append(inbox[q], News("PEER_JOINED", p)) ELSE inbox[q]
        BY <3>3, <3>5 DEF Broadcast
      <4>2. inbox' = [box EXCEPT ![p] = Append(box[p], Joined(Append(members, p)))]
        BY <3>1 DEF Sent
      <4> HIDE DEF box
      <4> QED
        BY <3>6, <4>1, <4>2
    <3> QED
      BY <1>0, <2>1, <2>3, <3>1, <3>2, <3>7 DEF Admits, Identified
  <2>4. CASE ~(room = "open" /\ WithinLimit(Append(members, p)))
    <3>1. Refuse(p)
      BY <1>2, <2>4 DEF HandleJoinSession
    <3>2. ~(room = "open" /\ Len(members) < MaxPeers)
      BY <2>2, <2>4 DEF WithinLimit
    <3> QED
      BY <1>0, <2>1, <3>1, <3>2 DEF Refuse, Refuses
  <2> QED
    BY <2>3, <2>4
<1>3. ASSUME NEW type \in {"OFFER", "ANSWER"}, HandleRelay(p, type)
      PROVE  Refuses(p) \/ \E q \in Peer : Relays(p, q, type)
  <2> DEFINE q == Head(outbox[p]).to
  <2>1. /\ outbox[p] # <<>> /\ Head(outbox[p]) \in Request /\ Head(outbox[p]).type = type
        /\ conn[p] = "member" /\ outbox' = [outbox EXCEPT ![p] = Tail(@)]
    <3>1. Take(p, type)
      BY <1>3 DEF HandleRelay
    <3>2. conn[p] = "member"
      BY <3>1, TakeKinds
    <3> QED
      BY <3>1, <3>2, TakeDoes DEF RoomInv, Take
  <2>2. q \in Peer /\ Head(outbox[p]) = IF type = "OFFER" THEN Offer(q) ELSE Answer(q)
    BY <2>1, RequestKinds
  <2>3. IF Member(p) /\ Member(q) /\ conn[q] = "member"
        THEN inbox' = Sent(inbox, q, News(type, p)) /\ UNCHANGED <<room, members, conn>>
        ELSE Refuse(p)
    BY <1>3 DEF HandleRelay
  <2> HIDE DEF q
  <2>4. CASE Member(p) /\ Member(q) /\ conn[q] = "member"
    <3>1. Relays(p, q, type)
      BY <1>0, <2>1, <2>2, <2>3, <2>4 DEF Relays
    <3> QED
      BY <2>2, <3>1
  <2>5. CASE ~(Member(p) /\ Member(q) /\ conn[q] = "member")
    <3>1. Refuses(p)
      BY <1>0, <2>1, <2>2, <2>3, <2>5 DEF Refuse, Refuses
    <3> QED
      BY <3>1
  <2> QED
    BY <2>4, <2>5
<1> QED
  BY <1>0, <1>1, <1>2, <1>3 DEF HandleText

-----------------------------------------------------------------------------
(* The steps of the server keep the room's invariant.                       *)

LEMMA EnterDoes ==
  ASSUME RoomInv, NEW p \in Peer, Enter(p)
  PROVE  /\ client[p] = "out" /\ conn[p] = "none" /\ outbox[p] = <<>> /\ inbox[p] = <<>>
         /\ client' = [client EXCEPT ![p] = "open"] /\ conn' = [conn EXCEPT ![p] = "attached"]
         /\ outbox' = [outbox EXCEPT ![p] = <<Entry(p)>>] /\ (p \in Receivers => room # "none")
         /\ UNCHANGED <<room, members, inbox, roster, known, link, task, alarm, trouble>>
<1>1. client[p] = "out" /\ conn[p] = "none" /\ outbox[p] = <<>> /\ inbox[p] = <<>>
  BY DEF RoomInv, Entering, Enter
<1>2. Append(<<>>, Entry(p)) = <<Entry(p)>>
  OBVIOUS
<1>3. outbox' = [outbox EXCEPT ![p] = <<Entry(p)>>]
  BY <1>1, <1>2 DEF Enter, Sent, Entry
<1> QED
  BY <1>1, <1>3, PeerNumbers DEF Enter

LEMMA EnterKeepsRoom ==
  ASSUME RoomInv, NEW p \in Peer, Enter(p)
  PROVE  RoomInv'
<1>1. /\ client[p] = "out" /\ conn[p] = "none" /\ outbox[p] = <<>> /\ inbox[p] = <<>>
      /\ client' = [client EXCEPT ![p] = "open"] /\ conn' = [conn EXCEPT ![p] = "attached"]
      /\ outbox' = [outbox EXCEPT ![p] = <<Entry(p)>>] /\ (p \in Receivers => room # "none")
      /\ UNCHANGED <<room, members, inbox, roster, known, link, task, alarm, trouble>>
  BY EnterDoes
<1>2. Types
  BY DEF RoomInv
<1>3. <<Entry(p)>> \in Seq(Request) /\ ToSet(<<Entry(p)>>) = {Entry(p)}
  BY NewRequests, ToSetSmall
<1>4. Types'
  BY <1>1, <1>2, <1>3 DEF Types
<1>5. \A q \in Peer : HasJoined(q)' <=> HasJoined(q)
  BY <1>1, <1>2 DEF Types, HasJoined
<1>6. Entering'
  BY <1>1, <1>2 DEF RoomInv, Entering, Types
<1>7. Session'
  BY <1>1, <1>2, PeerNumbers DEF RoomInv, Session, Types
<1>8. MembersAreConnected'
  BY <1>1, <1>2 DEF RoomInv, MembersAreConnected, Types, Entering
<1>9. Strangers'
  <2>1. \A q \in Peer : Offer(q) \notin ToSet(<<Entry(p)>>) /\ Answer(q) \notin ToSet(<<Entry(p)>>)
    BY <1>3, NewRequests
  <2>2. \A o \in Peer : outbox'[o] = IF o = p THEN <<Entry(p)>> ELSE outbox[o]
    BY <1>1, <1>2 DEF Types
  <2> QED
    BY <1>1, <1>5, <2>1, <2>2 DEF RoomInv, Strangers
<1>10. NewsIsTrue'
  BY <1>1, <1>2, NewMessages DEF RoomInv, NewsIsTrue, Types, Strangers, Mentions, HasJoined
<1> QED
  BY <1>4, <1>6, <1>7, <1>8, <1>9, <1>10 DEF RoomInv

LEMMA OpensKeepsRoom ==
  ASSUME RoomInv, NEW p \in Peer, Opens(p)
  PROVE  RoomInv'
<1>1. Types /\ MaxPeers \in Nat \ {0}
  BY RoomAssumption DEF RoomInv
<1>2. /\ p = Owner /\ conn[p] = "attached" /\ room = "none" /\ members = <<>>
      /\ outbox[p] = <<Entry(p)>> /\ inbox[p] = <<>>
      /\ room' = "open" /\ members' = <<Owner>> /\ conn' = [conn EXCEPT ![p] = "member"]
      /\ outbox' = [outbox EXCEPT ![p] = <<>>]
      /\ UNCHANGED <<inbox, client, roster, known, link, task, alarm, trouble>>
  BY DEF Opens, peerVars
<1>3. <<>> \in Seq(Request) /\ ToSet(<<>>) = {} /\ ToSet(<<Owner>>) = {Owner} /\ <<Owner>> \in Seq(Peer)
      /\ Len(<<Owner>>) = 1 /\ <<Owner>>[1] = Owner /\ <<Owner>> # <<>>
  BY ToSetSmall, PeerNumbers
<1>4. Types'
  <2>1. members' \in Seq(Peer) /\ Len(members') <= MaxPeers
    BY <1>1, <1>2, <1>3
  <2> QED
    BY <1>1, <1>2, <1>3, <2>1 DEF Types
<1>5. /\ conn'[p] = "member" /\ \A q \in Peer : q # p => conn'[q] = conn[q]
      /\ outbox'[p] = <<>> /\ \A q \in Peer : q # p => outbox'[q] = outbox[q]
  BY <1>1, <1>2 DEF Types
<1>6. \A q \in Receivers : conn[q] = "none"
  BY <1>2 DEF RoomInv, Session
<1>7. \A q \in Peer : HasJoined(q)' <=> q = p
  BY <1>2, <1>5, <1>6, PeerNumbers DEF HasJoined
<1>8. Entering'
  BY <1>2, <1>3, <1>5, PeerNumbers DEF RoomInv, Entering
<1>9. Session'
  BY <1>2, <1>3, <1>5, <1>6, PeerNumbers DEF Session
<1>10. MembersAreConnected'
  <2>1. IsInjective(<<Owner>>)
    BY DEF IsInjective
  <2> QED
    BY <1>2, <1>3, <1>5, <2>1 DEF MembersAreConnected
<1>11. Strangers'
  <2>1. \A q \in Peer : ~HasJoined(q)
    BY <1>2, <1>6, PeerNumbers DEF HasJoined
  <2> QED
    BY <1>2, <1>3, <1>5, <2>1 DEF RoomInv, Strangers
<1>12. NewsIsTrue'
  <2>1. \A q \in Peer : \A m \in ToSet(inbox[q]) : m.type = "PEER_LEFT" => conn[m.from] = "closed" /\ m.from \in Peer
    <3> SUFFICES ASSUME NEW q \in Peer, NEW m \in ToSet(inbox[q]), m.type = "PEER_LEFT"
                 PROVE  conn[m.from] = "closed" /\ m.from \in Peer
      OBVIOUS
    <3>1. m \in Message
      BY <1>1, InSeq DEF Types
    <3> QED
      BY <3>1, MessageKinds DEF RoomInv, NewsIsTrue, Relayed
  <2> QED
    BY <1>2, <1>5, <2>1 DEF RoomInv, NewsIsTrue
<1> QED
  BY <1>4, <1>8, <1>9, <1>10, <1>11, <1>12 DEF RoomInv

\* What a message adds to a box keeps the news true, and speaks of no stranger.
LEMMA NewsTyped ==
  ASSUME RoomInv, NEW q \in Peer, NEW m \in ToSet(inbox[q])
  PROVE  m \in Message /\ (m.type = "PEER_LEFT" => conn[m.from] = "closed" /\ m.from \in Peer)
<1>1. m \in Message
  BY InSeq DEF RoomInv, Types
<1> QED
  BY <1>1, MessageKinds DEF RoomInv, NewsIsTrue, Relayed

LEMMA AdmitsDoes ==
  ASSUME RoomInv, NEW p \in Peer, Admits(p)
  PROVE  /\ p \in Receivers /\ conn[p] = "attached" /\ room = "open" /\ room' = "open" /\ Len(members) < MaxPeers
         /\ outbox[p] = <<Entry(p)>> /\ inbox[p] = <<>> /\ p \notin ToSet(members)
         /\ members' = Append(members, p) /\ members' \in Seq(Peer) /\ Len(members') = Len(members) + 1
         /\ ToSet(members') = ToSet(members) \cup {p} /\ members' # <<>> /\ members'[1] = Owner
         /\ IsInjective(members')
         /\ conn'[p] = "member" /\ \A q \in Peer : q # p => conn'[q] = conn[q]
         /\ outbox'[p] = <<>> /\ \A q \in Peer : q # p => outbox'[q] = outbox[q]
         /\ inbox'[p] = <<Joined(members')>> /\ ToSet(inbox'[p]) = {Joined(members')}
         /\ \A q \in Peer : q # p =>
              \/ conn[q] # "member" /\ inbox'[q] = inbox[q]
              \/ /\ conn[q] = "member" /\ inbox'[q] = Append(inbox[q], News("PEER_JOINED", p))
                 /\ ToSet(inbox'[q]) = ToSet(inbox[q]) \cup {News("PEER_JOINED", p)}
         /\ UNCHANGED <<client, roster, known, link, task, alarm, trouble>>
         /\ Types'
<1>1. Types /\ MaxPeers \in Nat \ {0}
  BY RoomAssumption DEF RoomInv
<1>2. /\ p \in Receivers /\ conn[p] = "attached" /\ room = "open" /\ Len(members) < MaxPeers
      /\ outbox[p] = <<Entry(p)>> /\ inbox[p] = <<>>
      /\ room' = room /\ members' = Append(members, p) /\ conn' = [conn EXCEPT ![p] = "member"]
      /\ outbox' = [outbox EXCEPT ![p] = <<>>]
      /\ inbox' \in [Peer -> Seq(Message)] /\ inbox'[p] = <<Joined(members')>>
      /\ UNCHANGED <<client, roster, known, link, task, alarm, trouble>>
  BY DEF Admits, peerVars
<1>3. members \in Seq(Peer) /\ members # <<>> /\ members[1] = Owner /\ IsInjective(members) /\ p \notin ToSet(members)
  BY <1>1, <1>2 DEF Types, RoomInv, Session, MembersAreConnected, Entering
<1>4. /\ members' \in Seq(Peer) /\ Len(members') = Len(members) + 1 /\ Len(members) \in Nat /\ members' # <<>>
      /\ members'[1] = Owner /\ \A i \in 1..Len(members) : members'[i] = members[i]
      /\ members'[Len(members) + 1] = p
  BY <1>2, <1>3, AppendAt
<1>5. ToSet(members') = ToSet(members) \cup {p}
  BY <1>2, <1>3, ToSetAppend
<1>6. IsInjective(members')
  <2>1. \A i \in 1..Len(members) : members[i] # p
    BY <1>3, InSeq
  <2>2. DOMAIN members' = 1..Len(members) + 1 /\ DOMAIN members = 1..Len(members)
    BY <1>3, <1>4
  <2> QED
    BY <1>3, <1>4, <2>1, <2>2 DEF IsInjective
<1>7. <<>> \in Seq(Request)
  OBVIOUS
<1>8. /\ conn'[p] = "member" /\ \A q \in Peer : q # p => conn'[q] = conn[q]
      /\ outbox'[p] = <<>> /\ \A q \in Peer : q # p => outbox'[q] = outbox[q]
  BY <1>1, <1>2 DEF Types
<1>9. Types'
  <2>1. Len(members') <= MaxPeers
    BY <1>1, <1>2, <1>4
  <2>2. /\ outbox' \in [Peer -> Seq(Request)]
        /\ conn' \in [Peer -> {"none", "attached", "member", "closed"}]
    BY <1>1, <1>2, <1>7 DEF Types
  <2> QED
    BY <1>1, <1>2, <1>4, <2>1, <2>2 DEF Types
<1>10. ASSUME NEW q \in Peer, q # p
       PROVE  \/ conn[q] # "member" /\ inbox'[q] = inbox[q]
              \/ /\ conn[q] = "member" /\ inbox'[q] = Append(inbox[q], News("PEER_JOINED", p))
                 /\ ToSet(inbox'[q]) = ToSet(inbox[q]) \cup {News("PEER_JOINED", p)}
  <2>1. inbox'[q] = IF conn[q] = "member" THEN Append(inbox[q], News("PEER_JOINED", p)) ELSE inbox[q]
    BY <1>10 DEF Admits
  <2>2. inbox[q] \in Seq(Message) /\ News("PEER_JOINED", p) \in Message
    BY <1>1, NewMessages DEF Types, Relayed
  <2>3. ToSet(Append(inbox[q], News("PEER_JOINED", p))) = ToSet(inbox[q]) \cup {News("PEER_JOINED", p)}
    BY <2>2, ToSetAppend
  <2> QED
    BY <2>1, <2>3
<1>11. ToSet(inbox'[p]) = {Joined(members')}
  BY <1>2, ToSetSmall
<1> QED
  BY <1>2, <1>3, <1>4, <1>5, <1>6, <1>8, <1>9, <1>10, <1>11

LEMMA AdmitsKeepsRoom ==
  ASSUME RoomInv, NEW p \in Peer, Admits(p)
  PROVE  RoomInv'
<1>1. Types
  BY DEF RoomInv
<1>2. /\ p \in Receivers /\ conn[p] = "attached" /\ room = "open" /\ room' = "open"
      /\ members' \in Seq(Peer)
      /\ ToSet(members') = ToSet(members) \cup {p} /\ members' # <<>> /\ members'[1] = Owner
      /\ IsInjective(members')
      /\ conn'[p] = "member" /\ \A q \in Peer : q # p => conn'[q] = conn[q]
      /\ outbox'[p] = <<>> /\ \A q \in Peer : q # p => outbox'[q] = outbox[q]
      /\ ToSet(inbox'[p]) = {Joined(members')}
      /\ UNCHANGED <<client, roster, known, link, task, alarm, trouble>>
      /\ Types'
  BY AdmitsDoes
<1>3. \A q \in Peer : q # p =>
        \/ conn[q] # "member" /\ inbox'[q] = inbox[q]
        \/ conn[q] = "member" /\ ToSet(inbox'[q]) = ToSet(inbox[q]) \cup {News("PEER_JOINED", p)}
  BY AdmitsDoes
<1>4. ToSet(<<>>) = {}
  BY ToSetSmall
<1>5. \A q \in Peer : HasJoined(q)' <=> HasJoined(q) \/ q = p
  BY <1>2 DEF HasJoined
<1>6. Entering'
  <2> SUFFICES ASSUME NEW o \in Peer
               PROVE  /\ client'[o] = "out" <=> conn'[o] = "none"
                      /\ conn'[o] \in {"none", "attached"} =>
                           /\ roster'[o] = {o} /\ (\A q \in Peer : link'[o][q] = "none") /\ o \notin ToSet(members')
                           /\ ~known'[o] /\ (o \in Receivers => task'[o].stage = "over")
                           /\ \A m \in ToSet(inbox'[o]) : m = Error
                           /\ outbox'[o] \in {<<>>, <<Entry(o)>>} /\ (outbox'[o] # <<>> => inbox'[o] = <<>>)
                      /\ conn'[o] = "none" => outbox'[o] = <<>> /\ inbox'[o] = <<>>
                      /\ conn'[o] \in {"member", "closed"} => \A x \in ToSet(outbox'[o]) : x.type \in {"OFFER", "ANSWER"}
                      /\ conn'[o] = "closed" => outbox'[o] = <<>>
    BY DEF Entering
  <2>1. CASE o = p
    <3>1. client[p] # "out"
      BY <1>2 DEF RoomInv, Entering
    <3> QED
      BY <1>2, <1>4, <2>1, <3>1
  <2>2. CASE o # p
    <3>1. inbox'[o] = inbox[o] \/ conn[o] = "member"
      BY <1>3, <2>2
    <3> QED
      BY <1>2, <2>2, <3>1 DEF RoomInv, Entering
  <2> QED
    BY <2>1, <2>2
<1>7. Session'
  <2>1. conn'[Owner] = conn[Owner]
    BY <1>2, PeerNumbers
  <2> QED
    BY <1>2, <2>1 DEF RoomInv, Session
<1>8. MembersAreConnected'
  <2>1. Owner \in ToSet(members) /\ \A q \in ToSet(members) : conn[q] = "member"
    BY <1>2 DEF RoomInv, MembersAreConnected
  <2>2. \A q \in ToSet(members) : q \in Peer
    BY <1>1, InSeq DEF Types
  <2> QED
    BY <1>2, <2>1, <2>2 DEF MembersAreConnected
<1>9. \A q \in ToSet(members') : HasJoined(q) \/ q = p
  <2>1. \A q \in ToSet(members) : conn[q] = "member"
    BY <1>2 DEF RoomInv, MembersAreConnected
  <2> QED
    BY <1>2, <2>1 DEF HasJoined
<1>10. Strangers'
  <2> SUFFICES ASSUME NEW o \in Peer, NEW q \in Peer, ~HasJoined(q), q # p
               PROVE  /\ link'[o][q] = "none"
                      /\ \A m \in ToSet(inbox'[o]) : ~Mentions(m, q)
                      /\ Offer(q) \notin ToSet(outbox'[o]) /\ Answer(q) \notin ToSet(outbox'[o])
                      /\ o \in Receivers => q \notin ToSet(task'[o].todo)
    BY <1>5, Zenon DEF Strangers
  <2>1. /\ link[o][q] = "none"
        /\ \A m \in ToSet(inbox[o]) : ~Mentions(m, q)
        /\ Offer(q) \notin ToSet(outbox[o]) /\ Answer(q) \notin ToSet(outbox[o])
        /\ o \in Receivers => q \notin ToSet(task[o].todo)
    BY DEF RoomInv, Strangers
  <2>2. ~Mentions(News("PEER_JOINED", p), q)
    BY DEF Mentions, News
  <2>3. ~Mentions(Joined(members'), q)
    <3>1. q \notin ToSet(members')
      BY <1>9
    <3>2. Joined(members').type = "SESSION_JOINED" /\ Joined(members').peers = members'
      BY DEF Joined
    <3> QED
      BY <3>1, <3>2 DEF Mentions
  <2>4. \A m \in ToSet(inbox'[o]) : ~Mentions(m, q)
    BY <1>2, <1>3, <2>1, <2>2, <2>3
  <2>5. Offer(q) \notin ToSet(outbox'[o]) /\ Answer(q) \notin ToSet(outbox'[o])
    BY <1>2, <1>4, <2>1
  <2> QED
    BY <1>2, <2>1, <2>4, <2>5
<1>11. NewsIsTrue'
  <2> SUFFICES ASSUME NEW o \in Peer, NEW m \in ToSet(inbox'[o])
               PROVE  /\ m.type = "PEER_LEFT" => conn'[m.from] = "closed"
                      /\ m.type = "PEER_JOINED" => m.from \in Receivers
                      /\ m.type = "SESSION_JOINED" => o \in Receivers /\ m.peers # <<>> /\ m.peers[1] = Owner
    BY Zenon DEF NewsIsTrue
  <2>1. CASE m \in ToSet(inbox[o])
    <3>1. m.type = "PEER_LEFT" => conn[m.from] = "closed" /\ m.from \in Peer
      BY <2>1, NewsTyped
    <3> QED
      BY <1>2, <2>1, <3>1 DEF RoomInv, NewsIsTrue
  <2>2. CASE m = News("PEER_JOINED", p)
    BY <1>2, <2>2 DEF News
  <2>3. CASE o = p /\ m = Joined(members')
    BY <1>2, <2>3 DEF Joined
  <2> QED
    BY <1>2, <1>3, <2>1, <2>2, <2>3
<1> QED
  BY <1>2, <1>6, <1>7, <1>8, <1>10, <1>11 DEF RoomInv

\* A request is refused, or passed on to its target.
LEMMA RefusesDoes ==
  ASSUME RoomInv, NEW p \in Peer, Refuses(p)
  PROVE  /\ UNCHANGED <<room, members, conn, client, roster, known, link, task, alarm, trouble>> /\ Types'
         /\ outbox[p] \in Seq(Request) /\ outbox[p] # <<>> /\ outbox'[p] = Tail(outbox[p])
         /\ ToSet(outbox[p]) = {Head(outbox[p])} \cup ToSet(outbox'[p])
         /\ \A o \in Peer : o # p => outbox'[o] = outbox[o]
         /\ inbox'[p] = Append(inbox[p], Error) /\ ToSet(inbox'[p]) = ToSet(inbox[p]) \cup {Error}
         /\ \A o \in Peer : o # p => inbox'[o] = inbox[o]
         /\ conn[p] = "attached" => outbox'[p] = <<>>
         /\ conn[p] \in {"attached", "member"}
<1>1. Types
  BY DEF RoomInv
<1>2. /\ outbox[p] # <<>> /\ outbox' = [outbox EXCEPT ![p] = Tail(@)] /\ inbox' = Sent(inbox, p, Error)
      /\ UNCHANGED <<room, members, conn, client, roster, known, link, task, alarm, trouble>>
      /\ conn[p] \in {"attached", "member"}
  BY DEF Refuses, peerVars
<1>3. outbox[p] \in Seq(Request)
  BY <1>1 DEF Types
<1>4. Tail(outbox[p]) \in Seq(Request) /\ ToSet(outbox[p]) = {Head(outbox[p])} \cup ToSet(Tail(outbox[p]))
  BY <1>2, <1>3, ToSetTail
<1>5. /\ outbox' \in [Peer -> Seq(Request)] /\ outbox'[p] = Tail(outbox[p])
      /\ \A o \in Peer : o # p => outbox'[o] = outbox[o]
  BY <1>1, <1>2, <1>4 DEF Types
<1>6. /\ inbox' \in [Peer -> Seq(Message)] /\ \A o \in Peer : o # p => inbox'[o] = inbox[o]
      /\ inbox'[p] = Append(inbox[p], Error) /\ ToSet(inbox'[p]) = ToSet(inbox[p]) \cup {Error}
  BY <1>1, <1>2, NewMessages, SentDoes
<1>7. conn[p] = "attached" => outbox'[p] = <<>>
  <2>1. conn[p] = "attached" => outbox[p] = <<Entry(p)>>
    BY <1>2 DEF RoomInv, Entering
  <2>2. Tail(<<Entry(p)>>) = <<>>
    OBVIOUS
  <2> QED
    BY <1>5, <2>1, <2>2
<1>8. Types'
  BY <1>1, <1>2, <1>5, <1>6 DEF Types
<1> QED
  BY <1>2, <1>3, <1>4, <1>5, <1>6, <1>7, <1>8

LEMMA RefusesKeepsRoom ==
  ASSUME RoomInv, NEW p \in Peer, Refuses(p)
  PROVE  RoomInv'
<1>1. /\ UNCHANGED <<room, members, conn, client, roster, known, link, task, alarm, trouble>> /\ Types'
      /\ \A o \in Peer : ToSet(outbox'[o]) \subseteq ToSet(outbox[o])
      /\ \A o \in Peer : o # p => outbox'[o] = outbox[o]
      /\ ToSet(inbox'[p]) = ToSet(inbox[p]) \cup {Error}
      /\ \A o \in Peer : o # p => inbox'[o] = inbox[o]
      /\ conn[p] = "attached" => outbox'[p] = <<>>
      /\ conn[p] \in {"attached", "member"}
  BY RefusesDoes
<1>2. \A q \in Peer : HasJoined(q)' <=> HasJoined(q)
  BY <1>1 DEF HasJoined
<1>3. Entering'
  BY <1>1 DEF RoomInv, Entering
<1>4. Session' /\ MembersAreConnected'
  BY <1>1 DEF RoomInv, Session, MembersAreConnected
<1>5. Strangers'
  <2>1. \A q \in Peer : ~Mentions(Error, q)
    BY DEF Mentions, Error
  <2>2. \A o \in Peer : \A m \in ToSet(inbox'[o]) : m \in ToSet(inbox[o]) \/ m = Error
    BY <1>1
  <2> QED
    BY <1>1, <1>2, <2>1, <2>2 DEF RoomInv, Strangers
<1>6. NewsIsTrue'
  <2>1. \A o \in Peer : \A m \in ToSet(inbox'[o]) : m \in ToSet(inbox[o]) \/ m = Error
    BY <1>1
  <2> QED
    BY <1>1, <2>1, NewMessages DEF RoomInv, NewsIsTrue
<1> QED
  BY <1>1, <1>3, <1>4, <1>5, <1>6 DEF RoomInv

(* What a relayed offer or answer does to the queues, and what it finds. *)
Passes(p, q, type) ==
  /\ UNCHANGED <<room, members, conn, client, roster, known, link, task, alarm, trouble>> /\ Types'
  /\ Member(p) /\ Member(q) /\ conn[p] = "member" /\ conn[q] = "member" /\ News(type, p) \in Message
  /\ outbox[p] \in Seq(Request) /\ outbox[p] # <<>> /\ outbox'[p] = Tail(outbox[p])
  /\ Head(outbox[p]) = IF type = "OFFER" THEN Offer(q) ELSE Answer(q)
  /\ ToSet(outbox[p]) = {Head(outbox[p])} \cup ToSet(outbox'[p])
  /\ \A o \in Peer : o # p => outbox'[o] = outbox[o]
  /\ inbox'[q] = Append(inbox[q], News(type, p)) /\ ToSet(inbox'[q]) = ToSet(inbox[q]) \cup {News(type, p)}
  /\ \A o \in Peer : o # q => inbox'[o] = inbox[o]

LEMMA RelaysDoes ==
  ASSUME RoomInv, NEW p \in Peer, NEW q \in Peer, NEW type \in {"OFFER", "ANSWER"}, Relays(p, q, type)
  PROVE  Passes(p, q, type)
<1>1. Types
  BY DEF RoomInv
<1>2. /\ Member(p) /\ Member(q) /\ conn[p] = "member" /\ conn[q] = "member"
      /\ outbox[p] # <<>> /\ Head(outbox[p]) = IF type = "OFFER" THEN Offer(q) ELSE Answer(q)
      /\ outbox' = [outbox EXCEPT ![p] = Tail(@)] /\ inbox' = Sent(inbox, q, News(type, p))
      /\ UNCHANGED <<room, members, conn, client, roster, known, link, task, alarm, trouble>>
  BY DEF Relays, peerVars
<1>3. outbox[p] \in Seq(Request)
  BY <1>1 DEF Types
<1>4. Tail(outbox[p]) \in Seq(Request) /\ ToSet(outbox[p]) = {Head(outbox[p])} \cup ToSet(Tail(outbox[p]))
  BY <1>2, <1>3, ToSetTail
<1>5. /\ outbox' \in [Peer -> Seq(Request)] /\ outbox'[p] = Tail(outbox[p])
      /\ \A o \in Peer : o # p => outbox'[o] = outbox[o]
  BY <1>1, <1>2, <1>4 DEF Types
<1>6. News(type, p) \in Message
  BY NewMessages DEF Relayed
<1>7. /\ inbox' \in [Peer -> Seq(Message)] /\ \A o \in Peer : o # q => inbox'[o] = inbox[o]
      /\ inbox'[q] = Append(inbox[q], News(type, p)) /\ ToSet(inbox'[q]) = ToSet(inbox[q]) \cup {News(type, p)}
  BY <1>1, <1>2, <1>6, SentDoes
<1>8. Types'
  BY <1>1, <1>2, <1>5, <1>7 DEF Types
<1> QED
  BY <1>2, <1>3, <1>4, <1>5, <1>6, <1>7, <1>8 DEF Passes

LEMMA RelaysKeepsRoom ==
  ASSUME RoomInv, NEW p \in Peer, NEW q \in Peer, NEW type \in {"OFFER", "ANSWER"}, Relays(p, q, type)
  PROVE  RoomInv'
<1>0. Passes(p, q, type)
  BY RelaysDoes
<1>1. /\ UNCHANGED <<room, members, conn, client, roster, known, link, task, alarm, trouble>> /\ Types'
      /\ conn[p] = "member" /\ conn[q] = "member"
      /\ \A o \in Peer : ToSet(outbox'[o]) \subseteq ToSet(outbox[o])
      /\ \A o \in Peer : o # p => outbox'[o] = outbox[o]
      /\ ToSet(inbox'[q]) = ToSet(inbox[q]) \cup {News(type, p)}
      /\ \A o \in Peer : o # q => inbox'[o] = inbox[o]
  BY <1>0 DEF Passes
<1>2. \A o \in Peer : HasJoined(o)' <=> HasJoined(o)
  BY <1>1 DEF HasJoined
<1>3. Entering'
  BY <1>1 DEF RoomInv, Entering
<1>4. Session' /\ MembersAreConnected'
  BY <1>1 DEF RoomInv, Session, MembersAreConnected
<1>5. \A o \in Peer : \A m \in ToSet(inbox'[o]) : m \in ToSet(inbox[o]) \/ m = News(type, p)
  BY <1>1
<1>6. Strangers'
  <2>1. \A o \in Peer : ~HasJoined(o) => ~Mentions(News(type, p), o)
    BY <1>1 DEF Mentions, News, HasJoined
  <2> QED
    BY <1>1, <1>2, <1>5, <2>1 DEF RoomInv, Strangers
<1>7. NewsIsTrue'
  BY <1>1, <1>5 DEF RoomInv, NewsIsTrue, News
<1> QED
  BY <1>1, <1>3, <1>4, <1>6, <1>7 DEF RoomInv

LEMMA GoesOffKeepsRoom ==
  ASSUME RoomInv, NEW p \in Peer, GoesOff(p), trouble' \in 0..MaxTrouble
  PROVE  RoomInv'
<1>1. Types
  BY DEF RoomInv
<1>2. /\ conn[p] \in {"attached", "member"} /\ conn'[p] = "closed" /\ (\A q \in Peer : q # p => conn'[q] = conn[q])
      /\ conn' \in [Peer -> {"none", "attached", "member", "closed"}]
      /\ outbox' \in [Peer -> Seq(Request)] /\ outbox'[p] = <<>> /\ (\A q \in Peer : q # p => outbox'[q] = outbox[q])
      /\ inbox' \in [Peer -> Seq(Message)]
      /\ room' \in {"none", "open", "gone"} /\ members' \in Seq(Peer) /\ Len(members') <= MaxPeers
      /\ room' # "open" => members' = <<>>
      /\ room' = "open" =>
           /\ room = "open" /\ members' # <<>> /\ members'[1] = Owner /\ IsInjective(members')
           /\ ToSet(members') = ToSet(members) \ {p} /\ p # Owner
      /\ room' = "none" => room = "none"
      /\ UNCHANGED <<client, roster, known, link, task, alarm>>
  BY GoesOffDoes DEF peerVars
<1>3. \A q \in Peer : \/ inbox'[q] = inbox[q]
                     \/ /\ conn[p] = "member" /\ conn[q] = "member" /\ q # p
                        /\ ToSet(inbox'[q]) = ToSet(inbox[q]) \cup {News("PEER_LEFT", p)}
  BY GoesOffDoes
<1>4. ToSet(<<>>) = {}
  BY ToSetSmall
<1>5. \A q \in Peer : HasJoined(q)' <=> HasJoined(q) \/ q = p
  BY <1>2 DEF HasJoined
<1>6. Types'
  BY <1>1, <1>2 DEF Types
<1>7. Entering'
  <2> SUFFICES ASSUME NEW o \in Peer
               PROVE  /\ client'[o] = "out" <=> conn'[o] = "none"
                      /\ conn'[o] \in {"none", "attached"} =>
                           /\ roster'[o] = {o} /\ (\A q \in Peer : link'[o][q] = "none") /\ o \notin ToSet(members')
                           /\ ~known'[o] /\ (o \in Receivers => task'[o].stage = "over")
                           /\ \A m \in ToSet(inbox'[o]) : m = Error
                           /\ outbox'[o] \in {<<>>, <<Entry(o)>>} /\ (outbox'[o] # <<>> => inbox'[o] = <<>>)
                      /\ conn'[o] = "none" => outbox'[o] = <<>> /\ inbox'[o] = <<>>
                      /\ conn'[o] \in {"member", "closed"} => \A x \in ToSet(outbox'[o]) : x.type \in {"OFFER", "ANSWER"}
                      /\ conn'[o] = "closed" => outbox'[o] = <<>>
    BY DEF Entering
  <2>1. CASE o = p
    <3>1. client[p] # "out"
      BY <1>2 DEF RoomInv, Entering
    <3> QED
      BY <1>2, <1>4, <2>1, <3>1
  <2>2. CASE o # p
    <3>1. inbox'[o] = inbox[o] \/ conn[o] = "member"
      BY <1>3, <2>2
    <3>2. o \notin ToSet(members) => o \notin ToSet(members')
      BY <1>2, <1>4
    <3>3. /\ client[o] = "out" <=> conn[o] = "none"
          /\ conn[o] \in {"none", "attached"} =>
               /\ roster[o] = {o} /\ (\A q \in Peer : link[o][q] = "none") /\ o \notin ToSet(members)
               /\ ~known[o] /\ (o \in Receivers => task[o].stage = "over")
               /\ \A m \in ToSet(inbox[o]) : m = Error
               /\ outbox[o] \in {<<>>, <<Entry(o)>>} /\ (outbox[o] # <<>> => inbox[o] = <<>>)
          /\ conn[o] = "none" => outbox[o] = <<>> /\ inbox[o] = <<>>
          /\ conn[o] \in {"member", "closed"} => \A x \in ToSet(outbox[o]) : x.type \in {"OFFER", "ANSWER"}
          /\ conn[o] = "closed" => outbox[o] = <<>>
      BY DEF RoomInv, Entering
    <3>4. /\ conn'[o] = conn[o] /\ outbox'[o] = outbox[o]
          /\ UNCHANGED <<client, roster, known, link, task>>
      BY <1>2, <2>2
    <3>5. conn[o] \in {"none", "attached"} => inbox'[o] = inbox[o]
      BY <3>1
    <3> QED
      BY <3>2, <3>3, <3>4, <3>5
  <2> QED
    BY <2>1, <2>2
<1>8. Session'
  <2>1. CASE p = Owner
    <3>1. room # "open" \/ room' # "open"
      BY <1>2, <2>1
    <3>2. room' = "none" => room = "none" /\ \A r \in Receivers : conn[r] = "none" /\ r # p
      BY <1>2, <2>1, PeerNumbers DEF RoomInv, Session
    <3> QED
      BY <1>2, <2>1, <3>2, PeerNumbers DEF Session
  <2>2. CASE p # Owner
    <3>1. p \in Receivers /\ conn'[Owner] = conn[Owner]
      BY <1>2, <2>2, PeerNumbers
    <3>2. room # "none"
      BY <1>2, <3>1 DEF RoomInv, Session
    <3> QED
      BY <1>2, <3>1, <3>2 DEF RoomInv, Session
  <2> QED
    BY <2>1, <2>2
<1>9. MembersAreConnected'
  <2> SUFFICES ASSUME room' = "open"
               PROVE  /\ Owner \in ToSet(members')
                      /\ \A q \in ToSet(members') : conn'[q] = "member"
                      /\ IsInjective(members')
    BY DEF MembersAreConnected
  <2>1. Owner \in ToSet(members) /\ \A q \in ToSet(members) : conn[q] = "member"
    BY <1>2 DEF RoomInv, MembersAreConnected
  <2>2. \A q \in ToSet(members) : q \in Peer
    BY <1>1, InSeq DEF Types
  <2> QED
    BY <1>2, <2>1, <2>2
<1>10. \A o \in Peer : \A m \in ToSet(inbox'[o]) : m \in ToSet(inbox[o]) \/ m = News("PEER_LEFT", p)
  BY <1>3
<1>11. Strangers'
  <2> SUFFICES ASSUME NEW o \in Peer, NEW q \in Peer, ~HasJoined(q), q # p
               PROVE  /\ link'[o][q] = "none"
                      /\ \A m \in ToSet(inbox'[o]) : ~Mentions(m, q)
                      /\ Offer(q) \notin ToSet(outbox'[o]) /\ Answer(q) \notin ToSet(outbox'[o])
                      /\ o \in Receivers => q \notin ToSet(task'[o].todo)
    BY <1>5, Zenon DEF Strangers
  <2>1. /\ link[o][q] = "none"
        /\ \A m \in ToSet(inbox[o]) : ~Mentions(m, q)
        /\ Offer(q) \notin ToSet(outbox[o]) /\ Answer(q) \notin ToSet(outbox[o])
        /\ o \in Receivers => q \notin ToSet(task[o].todo)
    BY DEF RoomInv, Strangers
  <2>2. ~Mentions(News("PEER_LEFT", p), q)
    BY DEF Mentions, News
  <2>3. \A m \in ToSet(inbox'[o]) : ~Mentions(m, q)
    BY <1>10, <2>1, <2>2
  <2>4. Offer(q) \notin ToSet(outbox'[o]) /\ Answer(q) \notin ToSet(outbox'[o])
    BY <1>2, <1>4, <2>1
  <2> QED
    BY <1>2, <2>1, <2>3, <2>4
<1>12. NewsIsTrue'
  <2> SUFFICES ASSUME NEW o \in Peer, NEW m \in ToSet(inbox'[o])
               PROVE  /\ m.type = "PEER_LEFT" => conn'[m.from] = "closed"
                      /\ m.type = "PEER_JOINED" => m.from \in Receivers
                      /\ m.type = "SESSION_JOINED" => o \in Receivers /\ m.peers # <<>> /\ m.peers[1] = Owner
    BY Zenon DEF NewsIsTrue
  <2>1. CASE m \in ToSet(inbox[o])
    <3>1. m.type = "PEER_LEFT" => conn[m.from] = "closed" /\ m.from \in Peer
      BY <2>1, NewsTyped
    <3> QED
      BY <1>2, <2>1, <3>1 DEF RoomInv, NewsIsTrue
  <2>2. CASE m = News("PEER_LEFT", p)
    BY <1>2, <2>2 DEF News
  <2> QED
    BY <1>10, <2>1, <2>2
<1> QED
  BY <1>6, <1>7, <1>8, <1>9, <1>11, <1>12 DEF RoomInv

LEMMA ExpiresKeepsRoom ==
  ASSUME RoomInv, RoomExpires
  PROVE  RoomInv'
<1>1. Types
  BY DEF RoomInv
<1>2. /\ room = "open" /\ room' = "gone" /\ members' = <<>> /\ trouble < MaxTrouble /\ trouble' = trouble + 1
      /\ UNCHANGED <<conn, inbox, outbox, client, roster, known, link, task, alarm>>
  BY DEF RoomExpires, Expire, Trouble, peerVars
<1>3. <<>> \in Seq(Peer) /\ Len(<<>>) = 0 /\ ToSet(<<>>) = {} /\ MaxPeers \in Nat /\ trouble' \in 0..MaxTrouble
  BY <1>1, <1>2, ToSetSmall, RoomAssumption, MeshAssumption DEF Types
<1>4. members' \in Seq(Peer) /\ Len(members') <= MaxPeers
  BY <1>2, <1>3
<1>5. Types'
  BY <1>1, <1>2, <1>3, <1>4 DEF Types
<1>6. Entering'
  BY <1>2, <1>3 DEF RoomInv, Entering
<1>7. Session' /\ MembersAreConnected'
  BY <1>2 DEF RoomInv, Session, MembersAreConnected
<1>8. Strangers' /\ NewsIsTrue'
  BY <1>2 DEF RoomInv, Strangers, NewsIsTrue, HasJoined
<1> QED
  BY <1>5, <1>6, <1>7, <1>8 DEF RoomInv

\* The kinds of steps there are.
LEMMA StepKinds ==
  ASSUME Next
  PROVE  \/ RoomExpires
         \/ \E p \in Peer :
              \/ Enter(p) \/ Receive(p)
              \/ \E q \in Peer : OfferReady(p, q) \/ AnswerReady(p, q)
              \/ Serve(p) \/ Leave(p) \/ EvictionArrives(p)
              \/ CloseArrives(p) \/ EvictIdle(p)
         \/ \E p \in Receivers : EngineJoins(p) \/ EngineFails(p)
BY PeerNumbers DEF Next, ClientStep

\* A connection that goes off, with what makes it.
GoesOffNow(p) ==
  /\ GoesOff(p) /\ trouble' \in 0..MaxTrouble
  /\ trouble' = 0 => trouble = 0 /\ client[p] = "gone"

LEMMA CloseGoesOff ==
  ASSUME RoomInv, NEW p \in Peer, CloseArrives(p)
  PROVE  GoesOffNow(p)
<1>1. Detach(p) /\ UNCHANGED peerVars /\ trouble' = trouble /\ client[p] = "gone" /\ Types
  BY DEF CloseArrives, RoomInv
<1>2. GoesOff(p)
  BY <1>1, DetachGoesOff
<1> QED
  BY <1>1, <1>2 DEF GoesOffNow, Types

LEMMA IdleGoesOff ==
  ASSUME RoomInv, NEW p \in Peer, EvictIdle(p)
  PROVE  GoesOffNow(p)
<1>1. Evict(p) /\ UNCHANGED peerVars /\ trouble < MaxTrouble /\ trouble' = trouble + 1 /\ Types
  BY DEF EvictIdle, TroubleFor, Trouble, RoomInv
<1>2. GoesOff(p)
  BY <1>1, EvictGoesOff
<1>3. trouble' \in 0..MaxTrouble /\ trouble' # 0
  BY <1>1, MeshAssumption DEF Types
<1> QED
  BY <1>2, <1>3 DEF GoesOffNow

LEMMA NextKeepsRoom ==
  ASSUME RoomInv, Next
  PROVE  RoomInv'
<1>1. CASE RoomExpires
  BY <1>1, ExpiresKeepsRoom
<1>2. ASSUME NEW p \in Peer, Enter(p) PROVE RoomInv'
  BY <1>2, EnterKeepsRoom
<1>3. ASSUME NEW p \in Peer, Receive(p) PROVE RoomInv'
  BY <1>3, ReceiveKeepsRoom
<1>4. ASSUME NEW p \in Peer, NEW q \in Peer, OfferReady(p, q) \/ AnswerReady(p, q) PROVE RoomInv'
  BY <1>4, OfferReadyKeepsRoom, AnswerReadyKeepsRoom
<1>5. ASSUME NEW p \in Peer, Serve(p) PROVE RoomInv'
  BY <1>5, ServeKinds, OpensKeepsRoom, AdmitsKeepsRoom, RefusesKeepsRoom, RelaysKeepsRoom
<1>6. ASSUME NEW p \in Peer, Leave(p) \/ EvictionArrives(p) PROVE RoomInv'
  BY <1>6, LeaveDrops, EvictionDrops, DropsKeepsRoom
<1>7. ASSUME NEW p \in Peer, CloseArrives(p) \/ EvictIdle(p) PROVE RoomInv'
  <2>1. GoesOff(p) /\ trouble' \in 0..MaxTrouble
    BY <1>7, CloseGoesOff, IdleGoesOff DEF GoesOffNow
  <2> QED
    BY <2>1, GoesOffKeepsRoom
<1>8. ASSUME NEW p \in Receivers, EngineJoins(p) \/ EngineFails(p) PROVE RoomInv'
  <2>1. p \in Peer
    BY PeerNumbers
  <2> QED
    BY <1>8, <2>1, EngineJoinsKeepsRoom, EngineFailsDrops, DropsKeepsRoom
<1> QED
  BY <1>1, <1>2, <1>3, <1>4, <1>5, <1>6, <1>7, <1>8, StepKinds

LEMMA InitRoom ==
  ASSUME Init
  PROVE  RoomInv
<1>1. <<>> \in Seq(Peer) /\ <<>> \in Seq(Message) /\ <<>> \in Seq(Request) /\ Len(<<>>) = 0 /\ ToSet(<<>>) = {}
  BY ToSetSmall
<1>2. /\ room = "none" /\ members = <<>> /\ conn = [p \in Peer |-> "none"]
      /\ inbox = [p \in Peer |-> <<>>] /\ outbox = [p \in Peer |-> <<>>]
      /\ client = [p \in Peer |-> "out"] /\ roster = [p \in Peer |-> {p}] /\ known = [p \in Peer |-> FALSE]
      /\ link = [p \in Peer |-> [q \in Peer |-> "none"]] /\ task = [p \in Receivers |-> Over]
      /\ alarm = [p \in Peer |-> FALSE] /\ trouble = 0
  BY DEF Init, RoomInit
<1>3. Over \in [stage : {"engine", "offer", "over"}, todo : Seq(Peer)] /\ Over.stage = "over" /\ Over.todo = <<>>
  BY DEF Over
<1>4. MaxPeers \in Nat /\ MaxTrouble \in Nat
  BY RoomAssumption, MeshAssumption
<1>5. members \in Seq(Peer) /\ Len(members) <= MaxPeers
  BY <1>1, <1>2, <1>4
<1>6. Types
  BY <1>1, <1>2, <1>3, <1>4, <1>5 DEF Types
<1>7. Entering
  BY <1>1, <1>2, <1>3, PeerNumbers DEF Entering
<1>8. Session /\ MembersAreConnected
  BY <1>2, PeerNumbers DEF Session, MembersAreConnected
<1>9. Strangers /\ NewsIsTrue
  BY <1>1, <1>2, <1>3 DEF Strangers, NewsIsTrue
<1> QED
  BY <1>6, <1>7, <1>8, <1>9 DEF RoomInv

-----------------------------------------------------------------------------
(* The rosters.                                                             *)

Stays(box, i, q) == \A j \in i..Len(box) : box[j] # News("PEER_LEFT", q)
ToldOf(ros, box) ==
  {q \in Peer : \/ q \in ros /\ Stays(box, 1, q)
                \/ \E i \in 1..Len(box) : Tells(box[i], q) /\ Stays(box, i, q)}

LEMMA ToldIs == \A p : Told(p) = ToldOf(roster[p], inbox[p])
BY DEF Told, ToldOf, StaysFrom, Stays

LEMMA TellsNoDeparture ==
  ASSUME NEW m, NEW q, Tells(m, q)
  PROVE  m # News("PEER_LEFT", q)
BY DEF Tells, News

\* The head of an inbox may be counted in the roster.
LEMMA ToldTail ==
  ASSUME NEW box \in Seq(Message), box # <<>>, NEW ros, NEW after,
         \A q \in Peer : q \in after <=> (q \in ros /\ Head(box) # News("PEER_LEFT", q)) \/ Tells(Head(box), q)
  PROVE  ToldOf(after, Tail(box)) = ToldOf(ros, box)
<1>1. /\ Tail(box) \in Seq(Message) /\ Head(box) = box[1] /\ Len(box) \in Nat /\ Len(box) >= 1
      /\ Len(Tail(box)) = Len(box) - 1
      /\ \A i \in 1..Len(box) - 1 : Tail(box)[i] = box[i + 1]
  BY TailAt
<1>2. ASSUME NEW q, NEW i \in 1..Len(box) - 1
      PROVE  Stays(Tail(box), i, q) <=> Stays(box, i + 1, q)
  <2>1. ASSUME Stays(Tail(box), i, q), NEW j \in i + 1..Len(box) PROVE box[j] # News("PEER_LEFT", q)
    <3>1. j - 1 \in i..Len(Tail(box)) /\ Tail(box)[j - 1] = box[j]
      BY <1>1
    <3> QED
      BY <2>1, <3>1 DEF Stays
  <2>2. ASSUME Stays(box, i + 1, q), NEW j \in i..Len(Tail(box)) PROVE Tail(box)[j] # News("PEER_LEFT", q)
    <3>1. j + 1 \in i + 1..Len(box) /\ Tail(box)[j] = box[j + 1]
      BY <1>1
    <3> QED
      BY <2>2, <3>1 DEF Stays
  <2> QED
    BY <2>1, <2>2 DEF Stays
<1>3. ASSUME NEW q
      PROVE  Stays(box, 1, q) <=> Head(box) # News("PEER_LEFT", q) /\ Stays(Tail(box), 1, q)
  <2>1. ASSUME Stays(box, 1, q) PROVE Head(box) # News("PEER_LEFT", q) /\ Stays(Tail(box), 1, q)
    <3>1. box[1] # News("PEER_LEFT", q)
      BY <1>1, <2>1 DEF Stays
    <3>2. ASSUME NEW j \in 1..Len(Tail(box)) PROVE Tail(box)[j] # News("PEER_LEFT", q)
      <4>1. j + 1 \in 1..Len(box) /\ Tail(box)[j] = box[j + 1]
        BY <1>1
      <4> QED
        BY <2>1, <4>1 DEF Stays
    <3> QED
      BY <1>1, <3>1, <3>2 DEF Stays
  <2>2. ASSUME Head(box) # News("PEER_LEFT", q), Stays(Tail(box), 1, q), NEW j \in 1..Len(box)
        PROVE  box[j] # News("PEER_LEFT", q)
    <3>1. j = 1 \/ (j - 1 \in 1..Len(Tail(box)) /\ Tail(box)[j - 1] = box[j])
      BY <1>1
    <3> QED
      BY <1>1, <2>2, <3>1 DEF Stays
  <2> QED
    BY <2>1, <2>2 DEF Stays
<1>4. ASSUME NEW q \in Peer, q \in ToldOf(after, Tail(box)) PROVE q \in ToldOf(ros, box)
  <2>1. CASE q \in after /\ Stays(Tail(box), 1, q)
    <3>1. CASE q \in ros /\ Head(box) # News("PEER_LEFT", q)
      BY <1>3, <2>1, <3>1 DEF ToldOf
    <3>2. CASE Tells(Head(box), q)
      <4>1. Stays(box, 1, q) /\ Tells(box[1], q) /\ 1 \in 1..Len(box)
        BY <1>1, <1>3, <2>1, <3>2, TellsNoDeparture
      <4> QED
        BY <4>1 DEF ToldOf
    <3> QED
      BY <2>1, <3>1, <3>2
  <2>2. ASSUME NEW i \in 1..Len(Tail(box)), Tells(Tail(box)[i], q), Stays(Tail(box), i, q)
        PROVE  q \in ToldOf(ros, box)
    <3>1. i \in 1..Len(box) - 1 /\ i + 1 \in 1..Len(box) /\ Tail(box)[i] = box[i + 1]
      BY <1>1
    <3>2. Stays(box, i + 1, q)
      BY <1>2, <2>2, <3>1
    <3> QED
      BY <2>2, <3>1, <3>2 DEF ToldOf
  <2> QED
    BY <1>4, <2>1, <2>2 DEF ToldOf
<1>5. ASSUME NEW q \in Peer, q \in ToldOf(ros, box) PROVE q \in ToldOf(after, Tail(box))
  <2>1. CASE q \in ros /\ Stays(box, 1, q)
    BY <1>3, <2>1 DEF ToldOf
  <2>2. ASSUME NEW i \in 1..Len(box), Tells(box[i], q), Stays(box, i, q)
        PROVE  q \in ToldOf(after, Tail(box))
    <3>1. CASE i = 1
      BY <1>1, <1>3, <2>2, <3>1 DEF ToldOf
    <3>2. CASE i # 1
      <4>1. i - 1 \in 1..Len(box) - 1 /\ i - 1 \in 1..Len(Tail(box)) /\ (i - 1) + 1 = i
        BY <1>1, <3>2
      <4>2. Tail(box)[i - 1] = box[i] /\ Stays(Tail(box), i - 1, q)
        BY <1>1, <1>2, <2>2, <4>1
      <4> QED
        BY <2>2, <4>1, <4>2 DEF ToldOf
    <3> QED
      BY <3>1, <3>2
  <2> QED
    BY <1>5, <2>1, <2>2 DEF ToldOf
<1> QED
  BY <1>4, <1>5 DEF ToldOf

\* What one more message tells.
LEMMA ToldAppend ==
  ASSUME NEW box \in Seq(Message), NEW m \in Message, NEW ros
  PROVE  \A q \in Peer : q \in ToldOf(ros, Append(box, m)) <=>
                           (q \in ToldOf(ros, box) /\ m # News("PEER_LEFT", q)) \/ Tells(m, q)
<1> DEFINE new == Append(box, m)
<1>1. /\ Len(new) = Len(box) + 1 /\ Len(box) \in Nat
      /\ \A i \in 1..Len(box) : new[i] = box[i]
      /\ new[Len(box) + 1] = m
  BY AppendAt
<1> HIDE DEF new
<1>2. ASSUME NEW q, NEW i \in 1..Len(box) + 1
      PROVE  Stays(new, i, q) <=> Stays(box, i, q) /\ m # News("PEER_LEFT", q)
  <2>1. Len(new) \in i..Len(new) /\ \A j \in i..Len(box) : j \in i..Len(new) /\ new[j] = box[j]
    BY <1>1
  <2>2. \A j \in i..Len(new) : j \in i..Len(box) \/ j = Len(box) + 1
    BY <1>1
  <2> QED
    BY <1>1, <2>1, <2>2 DEF Stays
<1>3. ASSUME NEW q \in Peer
      PROVE  q \in ToldOf(ros, new) <=> (q \in ToldOf(ros, box) /\ m # News("PEER_LEFT", q)) \/ Tells(m, q)
  <2>0. 1 \in 1..Len(box) + 1 /\ Len(box) + 1 \in 1..Len(box) + 1
    BY <1>1
  <2>1. ASSUME q \in ToldOf(ros, new) PROVE (q \in ToldOf(ros, box) /\ m # News("PEER_LEFT", q)) \/ Tells(m, q)
    <3>1. CASE q \in ros /\ Stays(new, 1, q)
      BY <1>2, <2>0, <3>1 DEF ToldOf
    <3>2. ASSUME NEW i \in 1..Len(new), Tells(new[i], q), Stays(new, i, q)
          PROVE  (q \in ToldOf(ros, box) /\ m # News("PEER_LEFT", q)) \/ Tells(m, q)
      <4>1. i \in 1..Len(box) + 1
        BY <1>1
      <4>2. CASE i = Len(box) + 1
        BY <1>1, <3>2, <4>2
      <4>3. CASE i # Len(box) + 1
        <5>1. i \in 1..Len(box) /\ new[i] = box[i]
          BY <1>1, <4>1, <4>3
        <5>2. Stays(box, i, q) /\ m # News("PEER_LEFT", q)
          BY <1>2, <3>2, <4>1
        <5> QED
          BY <3>2, <5>1, <5>2 DEF ToldOf
      <4> QED
        BY <4>2, <4>3
    <3> QED
      BY <2>1, <3>1, <3>2 DEF ToldOf
  <2>2. ASSUME q \in ToldOf(ros, box), m # News("PEER_LEFT", q) PROVE q \in ToldOf(ros, new)
    <3>1. CASE q \in ros /\ Stays(box, 1, q)
      BY <1>2, <2>0, <2>2, <3>1 DEF ToldOf
    <3>2. ASSUME NEW i \in 1..Len(box), Tells(box[i], q), Stays(box, i, q)
          PROVE  q \in ToldOf(ros, new)
      <4>1. i \in 1..Len(box) + 1 /\ i \in 1..Len(new) /\ new[i] = box[i]
        BY <1>1
      <4>2. Stays(new, i, q)
        BY <1>2, <2>2, <3>2, <4>1
      <4> QED
        BY <3>2, <4>1, <4>2 DEF ToldOf
    <3> QED
      BY <2>2, <3>1, <3>2 DEF ToldOf
  <2>3. ASSUME Tells(m, q) PROVE q \in ToldOf(ros, new)
    <3>1. Stays(box, Len(box) + 1, q)
      BY <1>1 DEF Stays
    <3>2. Stays(new, Len(box) + 1, q) /\ Len(box) + 1 \in 1..Len(new)
      BY <1>1, <1>2, <2>0, <2>3, <3>1, TellsNoDeparture
    <3> QED
      BY <1>1, <2>3, <3>2 DEF ToldOf
  <2> QED
    BY <2>1, <2>2, <2>3
<1> QED
  BY <1>3 DEF new

\* A step that leaves the room alone, and what the pages are told.
TellsSame ==
  /\ UNCHANGED <<room, members>>
  /\ \A p \in Peer : p \in ToSet(members) /\ client'[p] = "open" =>
       client[p] = "open" /\ ToldOf(roster'[p], inbox'[p]) = ToldOf(roster[p], inbox[p])

LEMMA RosterByTold ==
  RosterIsMembership <=>
    \A p \in Peer : room = "open" /\ p \in ToSet(members) /\ client[p] = "open" =>
      ToldOf(roster[p], inbox[p]) = ToSet(members)
BY ToldIs DEF RosterIsMembership, Member

RosterInv ==
  \A p \in Peer : room = "open" /\ p \in ToSet(members) /\ client[p] = "open" =>
    ToldOf(roster[p], inbox[p]) = ToSet(members)

LEMMA TellsSameKeeps ==
  ASSUME RosterInv, TellsSame
  PROVE  RosterInv'
BY DEF RosterInv, TellsSame

\* A client's step that leaves its roster and its inbox alone, or its room.
LEMMA QuietTellsSame ==
  ASSUME NEW p \in Peer, Moves(p), client'[p] # "open" \/ (client[p] = "open" /\ roster'[p] = roster[p] /\ inbox'[p] = inbox[p])
  PROVE  TellsSame
BY DEF Moves, TellsSame

\* A client's step that handles a message.
LEMMA ReceiveTellsSame ==
  ASSUME RoomInv, NEW p \in Peer, NEW type, Take1(p, type), Moves(p), 
         \A q \in Peer : q \in roster'[p] <=>
           (q \in roster[p] /\ Head(inbox[p]) # News("PEER_LEFT", q)) \/ Tells(Head(inbox[p]), q)
  PROVE  TellsSame
<1>1. /\ inbox[p] # <<>> /\ inbox[p] \in Seq(Message) /\ inbox'[p] = Tail(inbox[p]) /\ client[p] = "open"
  BY Take1Does DEF RoomInv
<1>2. ToldOf(roster'[p], Tail(inbox[p])) = ToldOf(roster[p], inbox[p])
  BY <1>1, ToldTail
<1> QED
  BY <1>1, <1>2 DEF Moves, TellsSame

LEMMA ReceiveKeepsRoster ==
  ASSUME RoomInv, RosterInv, NEW p \in Peer, Receive(p)
  PROVE  RosterInv'
<1> SUFFICES TellsSame
  BY TellsSameKeeps
<1> DEFINE m == Head(inbox[p])
           q == m.from
<1>1. CASE PeerJoined(p)
  <2>1. Moves(p) /\ Take1(p, "PEER_JOINED") /\ roster'[p] = roster[p] \cup {q}
    BY <1>1, PeerJoinedDoes
  <2>2. m = News("PEER_JOINED", q)
    BY <2>1, NewsDoes DEF Relayed
  <2>3. \A o : (Tells(News("PEER_JOINED", q), o) <=> o = q) /\ News("PEER_JOINED", q) # News("PEER_LEFT", o)
    BY DEF Tells, News
  <2>4. \A o \in Peer : o \in roster'[p] <=> (o \in roster[p] /\ m # News("PEER_LEFT", o)) \/ Tells(m, o)
    BY <2>1, <2>2, <2>3
  <2> QED
    BY <2>1, <2>4, ReceiveTellsSame
<1>2. CASE PeerLeft(p)
  <2>1. Moves(p) /\ Take1(p, "PEER_LEFT") /\ roster'[p] = roster[p] \ {q}
    BY <1>2, PeerLeftDoes
  <2>2. m = News("PEER_LEFT", q)
    BY <2>1, NewsDoes DEF Relayed
  <2>3. \A o : ~Tells(News("PEER_LEFT", q), o) /\ (News("PEER_LEFT", q) = News("PEER_LEFT", o) <=> o = q)
    BY DEF Tells, News
  <2>4. \A o \in Peer : o \in roster'[p] <=> (o \in roster[p] /\ m # News("PEER_LEFT", o)) \/ Tells(m, o)
    BY <2>1, <2>2, <2>3
  <2> QED
    BY <2>1, <2>4, ReceiveTellsSame
<1>3. CASE OfferArrives(p)
  <2>1. Moves(p) /\ Take1(p, "OFFER") /\ roster'[p] = roster[p] \cup {q}
    BY <1>3, OfferArrivesDoes
  <2>2. m = News("OFFER", q)
    BY <2>1, NewsDoes DEF Relayed
  <2>3. \A o : (Tells(News("OFFER", q), o) <=> o = q) /\ News("OFFER", q) # News("PEER_LEFT", o)
    BY DEF Tells, News
  <2>4. \A o \in Peer : o \in roster'[p] <=> (o \in roster[p] /\ m # News("PEER_LEFT", o)) \/ Tells(m, o)
    BY <2>1, <2>2, <2>3
  <2> QED
    BY <2>1, <2>4, ReceiveTellsSame
<1>4. CASE AnswerArrives(p)
  <2>1. Moves(p) /\ Take1(p, "ANSWER") /\ roster'[p] = roster[p]
    BY <1>4, AnswerArrivesDoes
  <2>2. m = News("ANSWER", q)
    BY <2>1, NewsDoes DEF Relayed
  <2>3. \A o : ~Tells(News("ANSWER", q), o) /\ News("ANSWER", q) # News("PEER_LEFT", o)
    BY DEF Tells, News
  <2>4. \A o \in Peer : o \in roster'[p] <=> (o \in roster[p] /\ m # News("PEER_LEFT", o)) \/ Tells(m, o)
    BY <2>1, <2>2, <2>3
  <2> QED
    BY <2>1, <2>4, ReceiveTellsSame
<1>5. CASE ErrorArrives(p)
  <2>1. Moves(p) /\ Take1(p, "ERROR") /\ roster'[p] = roster[p] /\ m = Error
    BY <1>5, ErrorArrivesDoes
  <2>2. \A o : ~Tells(Error, o) /\ Error # News("PEER_LEFT", o)
    BY DEF Tells, News, Error
  <2>3. \A o \in Peer : o \in roster'[p] <=> (o \in roster[p] /\ m # News("PEER_LEFT", o)) \/ Tells(m, o)
    BY <2>1, <2>2
  <2> QED
    BY <2>1, <2>3, ReceiveTellsSame
<1>6. CASE p \in Receivers /\ SessionJoined(p)
  <2> DEFINE list == m.peers
  <2>1. Moves(p) /\ Take1(p, "SESSION_JOINED") /\ roster'[p] = roster[p] \cup ToSet(list) /\ m = Joined(list)
    BY <1>6, SessionJoinedDoes
  <2>2. \A o : (Tells(Joined(list), o) <=> o \in ToSet(list)) /\ Joined(list) # News("PEER_LEFT", o)
    BY DEF Tells, News, Joined
  <2>3. \A o \in Peer : o \in roster'[p] <=> (o \in roster[p] /\ m # News("PEER_LEFT", o)) \/ Tells(m, o)
    BY <2>1, <2>2
  <2> QED
    BY <2>1, <2>3, ReceiveTellsSame
<1> QED
  BY <1>1, <1>2, <1>3, <1>4, <1>5, <1>6 DEF Receive

LEMMA OpensKeepsRoster ==
  ASSUME RoomInv, NEW p \in Peer, Opens(p)
  PROVE  RosterInv'
<1>1. /\ p = Owner /\ conn[p] = "attached" /\ inbox[p] = <<>> /\ members' = <<Owner>>
      /\ inbox' = inbox /\ roster' = roster
  BY DEF Opens, peerVars
<1>2. roster[p] = {Owner}
  BY <1>1 DEF RoomInv, Entering
<1>3. ToSet(members') = {Owner}
  BY <1>1, ToSetSmall
<1>4. ToldOf({Owner}, <<>>) = {Owner}
  BY PeerNumbers DEF ToldOf, Stays
<1> QED
  BY <1>1, <1>2, <1>3, <1>4 DEF RosterInv

LEMMA AdmitsKeepsRoster ==
  ASSUME RoomInv, RosterInv, NEW p \in Peer, Admits(p)
  PROVE  RosterInv'
<1> DEFINE told == News("PEER_JOINED", p)
<1>1. /\ p \in Receivers /\ conn[p] = "attached" /\ room = "open" /\ room' = "open"
      /\ p \notin ToSet(members) /\ inbox[p] = <<>>
      /\ members' \in Seq(Peer)
      /\ ToSet(members') = ToSet(members) \cup {p}
      /\ inbox'[p] = <<Joined(members')>>
      /\ UNCHANGED <<client, roster>>
  BY AdmitsDoes
<1>2. \A q \in Peer : q # p /\ conn[q] = "member" => inbox'[q] = Append(inbox[q], told)
  BY AdmitsDoes
<1>3. \A q \in ToSet(members) : conn[q] = "member"
  BY <1>1 DEF RoomInv, MembersAreConnected
<1>4. \A q \in ToSet(members') : q \in Peer
  BY <1>1, InSeq
<1>5. told \in Message /\ Joined(members') \in Message /\ Types
  BY <1>1, NewMessages DEF Relayed, RoomInv
<1>6. \A o : (Tells(told, o) <=> o = p) /\ told # News("PEER_LEFT", o)
  BY DEF Tells, News
<1>7. \A o : (Tells(Joined(members'), o) <=> o \in ToSet(members')) /\ Joined(members') # News("PEER_LEFT", o)
  BY DEF Tells, News, Joined
<1>8. ToldOf(roster[p], inbox'[p]) = ToSet(members')
  <2>1. roster[p] = {p}
    BY <1>1 DEF RoomInv, Entering
  <2>2. <<>> \in Seq(Message) /\ Append(<<>>, Joined(members')) = <<Joined(members')>>
    OBVIOUS
  <2>3. \A q \in Peer : q \in ToldOf({p}, Append(<<>>, Joined(members'))) <=>
          (q \in ToldOf({p}, <<>>) /\ Joined(members') # News("PEER_LEFT", q)) \/ Tells(Joined(members'), q)
    BY <1>5, <2>2, ToldAppend
  <2>4. \A q \in Peer : q \in ToldOf({p}, <<>>) <=> q = p
    BY DEF ToldOf, Stays
  <2>5. \A q \in Peer : q \in ToldOf({p}, inbox'[p]) <=> q \in ToSet(members')
    BY <1>1, <1>7, <2>2, <2>3, <2>4
  <2>6. \A q \in ToldOf({p}, inbox'[p]) : q \in Peer
    BY DEF ToldOf
  <2> QED
    BY <1>4, <2>1, <2>5, <2>6
<1>9. ASSUME NEW q \in Peer, q # p, q \in ToSet(members), client[q] = "open"
      PROVE  ToldOf(roster[q], inbox'[q]) = ToSet(members')
  <2>1. ToldOf(roster[q], inbox[q]) = ToSet(members)
    BY <1>1, <1>9 DEF RosterInv
  <2>2. inbox[q] \in Seq(Message)
    BY <1>5 DEF Types
  <2>3. \A o \in Peer : o \in ToldOf(roster[q], Append(inbox[q], told)) <=>
          (o \in ToldOf(roster[q], inbox[q]) /\ told # News("PEER_LEFT", o)) \/ Tells(told, o)
    BY <1>5, <2>2, ToldAppend
  <2>4. \A o \in Peer : o \in ToldOf(roster[q], inbox'[q]) <=> o \in ToSet(members')
    BY <1>1, <1>2, <1>3, <1>6, <1>9, <2>1, <2>3
  <2>5. \A o \in ToldOf(roster[q], inbox'[q]) : o \in Peer
    BY DEF ToldOf
  <2> QED
    BY <1>4, <2>4, <2>5
<1> QED
  BY <1>1, <1>8, <1>9 DEF RosterInv

LEMMA RefusesKeepsRoster ==
  ASSUME RoomInv, RosterInv, NEW p \in Peer, Refuses(p)
  PROVE  RosterInv'
<1>1. /\ UNCHANGED <<room, members, client, roster>> /\ inbox'[p] = Append(inbox[p], Error)
      /\ \A o \in Peer : o # p => inbox'[o] = inbox[o]
  BY RefusesDoes
<1>2. Error \in Message /\ inbox[p] \in Seq(Message) /\ \A o : ~Tells(Error, o) /\ Error # News("PEER_LEFT", o)
  BY NewMessages DEF Tells, News, Error, RoomInv, Types
<1>3. \A o \in Peer : o \in ToldOf(roster[p], Append(inbox[p], Error)) <=>
        (o \in ToldOf(roster[p], inbox[p]) /\ Error # News("PEER_LEFT", o)) \/ Tells(Error, o)
  BY <1>2, ToldAppend
<1>4. ToldOf(roster[p], inbox'[p]) = ToldOf(roster[p], inbox[p])
  BY <1>1, <1>2, <1>3 DEF ToldOf
<1>5. TellsSame
  BY <1>1, <1>4 DEF TellsSame
<1> QED
  BY <1>5, TellsSameKeeps

LEMMA RelaysKeepsRoster ==
  ASSUME RoomInv, RosterInv, NEW p \in Peer, NEW q \in Peer, NEW type \in {"OFFER", "ANSWER"}, Relays(p, q, type)
  PROVE  RosterInv'
<1> DEFINE m == News(type, p)
<1>0. Passes(p, q, type)
  BY RelaysDoes
<1>1. /\ UNCHANGED <<room, members, client, roster>> /\ inbox'[q] = Append(inbox[q], m) /\ m \in Message
      /\ \A o \in Peer : o # q => inbox'[o] = inbox[o]
      /\ room = "open" /\ p \in ToSet(members) /\ q \in ToSet(members)
  BY <1>0 DEF Passes, Member
<1>2. inbox[q] \in Seq(Message) /\ \A o : (Tells(m, o) => o = p) /\ m # News("PEER_LEFT", o)
  BY DEF Tells, News, RoomInv, Types
<1>3. \A o \in Peer : o \in ToldOf(roster[q], Append(inbox[q], m)) <=>
        (o \in ToldOf(roster[q], inbox[q]) /\ m # News("PEER_LEFT", o)) \/ Tells(m, o)
  BY <1>1, <1>2, ToldAppend
<1>4. ASSUME client[q] = "open" PROVE ToldOf(roster[q], inbox'[q]) = ToldOf(roster[q], inbox[q])
  <2>1. p \in ToldOf(roster[q], inbox[q])
    BY <1>1, <1>4 DEF RosterInv
  <2>2. \A o \in Peer : o \in ToldOf(roster[q], inbox'[q]) <=> o \in ToldOf(roster[q], inbox[q])
    BY <1>1, <1>2, <1>3, <2>1
  <2> QED
    BY <2>2 DEF ToldOf
<1>5. TellsSame
  BY <1>1, <1>4 DEF TellsSame
<1> QED
  BY <1>5, TellsSameKeeps

LEMMA GoesOffKeepsRoster ==
  ASSUME RoomInv, RosterInv, NEW p \in Peer, GoesOff(p)
  PROVE  RosterInv'
<1> DEFINE left == News("PEER_LEFT", p)
<1>1. /\ conn[p] \in {"attached", "member"} /\ members' \in Seq(Peer)
      /\ room' = "open" => room = "open" /\ ToSet(members') = ToSet(members) \ {p}
      /\ UNCHANGED <<client, roster>>
  BY GoesOffDoes DEF peerVars
<1>2. \A q \in Peer : \/ inbox'[q] = inbox[q] /\ (conn[p] # "member" \/ conn[q] # "member" \/ q = p)
                     \/ inbox'[q] \in {Append(inbox[q], left), Append(Append(inbox[q], left), left)}
  BY GoesOffDoes
<1> SUFFICES ASSUME NEW q \in Peer, room' = "open", q \in ToSet(members'), client[q] = "open"
             PROVE  ToldOf(roster[q], inbox'[q]) = ToSet(members')
  BY <1>1 DEF RosterInv
<1>3. /\ room = "open" /\ q \in ToSet(members) /\ q # p /\ ToSet(members') = ToSet(members) \ {p}
      /\ ToldOf(roster[q], inbox[q]) = ToSet(members) /\ conn[q] = "member"
      /\ \A o \in ToSet(members) : o \in Peer
  <2>1. room = "open" /\ q \in ToSet(members) /\ q # p /\ ToSet(members') = ToSet(members) \ {p}
    BY <1>1
  <2>2. conn[q] = "member"
    BY <2>1 DEF RoomInv, MembersAreConnected
  <2>3. \A o \in ToSet(members) : o \in Peer
    BY InSeq DEF RoomInv, Types
  <2> QED
    BY <2>1, <2>2, <2>3 DEF RosterInv
<1>4. left \in Message /\ \A o : ~Tells(left, o) /\ (left = News("PEER_LEFT", o) <=> o = p)
  BY NewMessages DEF Tells, News, Relayed
<1>5. inbox[q] \in Seq(Message) /\ Append(inbox[q], left) \in Seq(Message)
  BY <1>4 DEF RoomInv, Types
<1> HIDE DEF left
<1>6. \A o \in Peer : o \in ToldOf(roster[q], Append(inbox[q], left)) <=> o \in ToldOf(roster[q], inbox[q]) /\ o # p
  BY <1>4, <1>5, ToldAppend
<1>7. \A o \in Peer : o \in ToldOf(roster[q], Append(Append(inbox[q], left), left)) <=> 
                        o \in ToldOf(roster[q], Append(inbox[q], left)) /\ o # p
  <2> DEFINE t == Append(inbox[q], left)
  <2>1. t \in Seq(Message)
    BY <1>5
  <2> HIDE DEF t
  <2>2. \A o \in Peer : o \in ToldOf(roster[q], Append(t, left)) <=> 
                          (o \in ToldOf(roster[q], t) /\ left # News("PEER_LEFT", o)) \/ Tells(left, o)
    BY <1>4, <2>1, ToldAppend
  <2>3. \A o \in Peer : o \in ToldOf(roster[q], Append(t, left)) <=> o \in ToldOf(roster[q], t) /\ o # p
    BY <1>4, <2>2
  <2> QED
    BY <2>3 DEF t
<1>8. conn[p] = "attached" => p \notin ToSet(members)
  BY DEF RoomInv, Entering
<1>9. \A o \in ToldOf(roster[q], inbox'[q]) : o \in Peer
  BY DEF ToldOf
<1>10. CASE inbox'[q] = inbox[q] /\ conn[p] # "member"
  BY <1>1, <1>3, <1>8, <1>10
<1>11. CASE inbox'[q] \in {Append(inbox[q], left), Append(Append(inbox[q], left), left)}
  <2>1. \A o \in Peer : o \in ToldOf(roster[q], inbox'[q]) <=> o \in ToldOf(roster[q], inbox[q]) /\ o # p
    BY <1>6, <1>7, <1>11
  <2> QED
    BY <1>3, <1>9, <2>1
<1> QED
  BY <1>2, <1>3, <1>10, <1>11 DEF left

LEMMA NextKeepsRoster ==
  ASSUME RoomInv, RosterInv, Next
  PROVE  RosterInv'
<1>1. CASE RoomExpires
  BY <1>1 DEF RosterInv, RoomExpires, Expire
<1>2. ASSUME NEW p \in Peer, Enter(p) PROVE RosterInv'
  <2>1. /\ conn[p] = "none" /\ client' = [client EXCEPT ![p] = "open"] /\ UNCHANGED <<room, members, inbox, roster>>
    BY <1>2, EnterDoes
  <2>2. p \notin ToSet(members)
    BY <2>1 DEF RoomInv, Entering
  <2>3. \A q \in Peer : q # p => client'[q] = client[q]
    BY <2>1 DEF RoomInv, Types
  <2>4. TellsSame
    BY <2>1, <2>2, <2>3 DEF TellsSame
  <2> QED
    BY <2>4, TellsSameKeeps
<1>3. ASSUME NEW p \in Peer, Receive(p) PROVE RosterInv'
  BY <1>3, ReceiveKeepsRoster
<1>4. ASSUME NEW p \in Peer, NEW q \in Peer, OfferReady(p, q) \/ AnswerReady(p, q) PROVE RosterInv'
  <2>1. Moves(p) /\ client[p] = "open" /\ UNCHANGED <<inbox, roster>>
    BY <1>4, OfferReadyDoes, AnswerReadyDoes
  <2> QED
    BY <2>1, QuietTellsSame, TellsSameKeeps
<1>5. ASSUME NEW p \in Peer, Serve(p) PROVE RosterInv'
  BY <1>5, ServeKinds, OpensKeepsRoster, AdmitsKeepsRoster, RefusesKeepsRoster, RelaysKeepsRoster
<1>6. ASSUME NEW p \in Peer, Drops(p) PROVE RosterInv'
  <2>1. /\ Moves(p) /\ client[p] = "open" /\ roster' = roster
        /\ client'[p] # "open" \/ inbox'[p] = inbox[p]
    BY <1>6 DEF Drops
  <2> QED
    BY <2>1, QuietTellsSame, TellsSameKeeps
<1>7. ASSUME NEW p \in Peer, CloseArrives(p) \/ EvictIdle(p) PROVE RosterInv'
  <2>1. GoesOff(p)
    BY <1>7, CloseGoesOff, IdleGoesOff DEF GoesOffNow
  <2> QED
    BY <2>1, GoesOffKeepsRoster
<1>8. ASSUME NEW p \in Receivers, EngineJoins(p) PROVE RosterInv'
  <2>1. Moves(p) /\ client[p] = "open" /\ UNCHANGED <<inbox, roster>> /\ p \in Peer
    BY <1>8, EngineJoinsDoes, PeerNumbers
  <2> QED
    BY <2>1, QuietTellsSame, TellsSameKeeps
<1>9. \A p \in Peer : Leave(p) \/ EvictionArrives(p) => Drops(p)
  BY LeaveDrops, EvictionDrops
<1>10. \A p \in Receivers : EngineFails(p) => Drops(p) /\ p \in Peer
  BY EngineFailsDrops, PeerNumbers
<1> QED
  BY <1>1, <1>2, <1>3, <1>4, <1>5, <1>6, <1>7, <1>8, <1>9, <1>10, StepKinds

-----------------------------------------------------------------------------
(* Offers.                                                                  *)

LEMMA Directions ==
  ASSUME NEW p \in Peer, NEW q \in Peer
  PROVE  /\ Dir(q, p) => p # q /\ ~Dir(p, q) /\ q \in Receivers
         /\ p # q => Dir(q, p) \/ Dir(p, q)
BY PeerNumbers DEF Dir, Owner

LEMMA OnceEmpty == \A x : Once(<<>>, x)
BY DEF Once

\* A client's step that makes no offer.
Mild(p) ==
  /\ Moves(p)
  /\ \A o \in Peer :
       /\ Once(inbox[p], News("OFFER", o)) => Once(inbox'[p], News("OFFER", o))
       /\ Once(outbox[p], Offer(o)) => Once(outbox'[p], Offer(o))
       /\ Offer(o) \in ToSet(outbox'[p]) => Offer(o) \in ToSet(outbox[p])
       /\ Answer(o) \in ToSet(outbox'[p]) => Answer(o) \in ToSet(outbox[p]) \/ Dir(o, p)
       /\ link'[p][o] \in {"offering", "offered"} => Dir(p, o)
       /\ link'[p][o] = "answering" => Dir(o, p)
       /\ Dir(o, p) /\ link[p][o] = "none" =>
            \/ link'[p][o] = "none"
            \/ News("OFFER", o) \in ToSet(inbox[p]) /\ News("OFFER", o) \notin ToSet(inbox'[p])
       /\ Dir(p, o) /\ client'[p] = "open" /\ link'[p][o] \in {"none", "offering"} =>
            link[p][o] \in {"none", "offering"} \/ conn[o] # "member"
  /\ ToSet(inbox'[p]) \subseteq ToSet(inbox[p])
  /\ client'[p] = "open" => client[p] = "open"

LEMMA MildKeeps ==
  ASSUME OfferInv, NEW p \in Peer, Mild(p)
  PROVE  OfferInv'
<1>1. conn' = conn /\ \A o \in Peer : o # p => inbox'[o] = inbox[o] /\ outbox'[o] = outbox[o] /\ link'[o] = link[o] /\ client'[o] = client[o]
  BY DEF Mild, Moves
<1>2. Directed'
  <2> SUFFICES ASSUME NEW a \in Peer, NEW b \in Peer
               PROVE  /\ Offer(a) \in ToSet(outbox'[b]) => Dir(b, a)
                      /\ News("OFFER", b) \in ToSet(inbox'[a]) => Dir(b, a)
                      /\ link'[b][a] \in {"offering", "offered"} => Dir(b, a)
                      /\ Answer(a) \in ToSet(outbox'[b]) => Dir(a, b)
                      /\ News("ANSWER", b) \in ToSet(inbox'[a]) => Dir(a, b)
                      /\ link'[b][a] = "answering" => Dir(a, b)
    BY DEF Directed
  <2>1. /\ Offer(a) \in ToSet(outbox[b]) => Dir(b, a)
        /\ News("OFFER", b) \in ToSet(inbox[a]) => Dir(b, a)
        /\ link[b][a] \in {"offering", "offered"} => Dir(b, a)
        /\ Answer(a) \in ToSet(outbox[b]) => Dir(a, b)
        /\ News("ANSWER", b) \in ToSet(inbox[a]) => Dir(a, b)
        /\ link[b][a] = "answering" => Dir(a, b)
    BY DEF OfferInv, Directed
  <2>2. /\ News("OFFER", b) \in ToSet(inbox'[a]) => Dir(b, a)
        /\ News("ANSWER", b) \in ToSet(inbox'[a]) => Dir(a, b)
    BY <1>1, <2>1 DEF Mild
  <2>3. CASE b = p
    BY <2>1, <2>2, <2>3 DEF Mild
  <2>4. CASE b # p
    BY <1>1, <2>1, <2>2, <2>4
  <2> QED
    BY <2>3, <2>4
<1>3. OfferOnce'
  <2> SUFFICES ASSUME NEW a \in Peer, NEW b \in Peer, Dir(b, a)
               PROVE  /\ Once(inbox'[a], News("OFFER", b))
                      /\ News("OFFER", b) \in ToSet(inbox'[a]) => link'[a][b] = "none"
                      /\ conn[a] = "member" /\ Offer(a) \in ToSet(outbox'[b]) =>
                           Once(outbox'[b], Offer(a)) /\ News("OFFER", b) \notin ToSet(inbox'[a]) /\ link'[a][b] = "none"
                      /\ conn[a] = "member" /\ client'[b] = "open" /\ link'[b][a] \in {"none", "offering"} =>
                           Offer(a) \notin ToSet(outbox'[b]) /\ News("OFFER", b) \notin ToSet(inbox'[a]) /\ link'[a][b] = "none"
    BY <1>1 DEF OfferOnce
  <2>1. /\ Once(inbox[a], News("OFFER", b))
        /\ News("OFFER", b) \in ToSet(inbox[a]) => link[a][b] = "none"
        /\ conn[a] = "member" /\ Offer(a) \in ToSet(outbox[b]) =>
             Once(outbox[b], Offer(a)) /\ News("OFFER", b) \notin ToSet(inbox[a]) /\ link[a][b] = "none"
        /\ conn[a] = "member" /\ client[b] = "open" /\ link[b][a] \in {"none", "offering"} =>
             Offer(a) \notin ToSet(outbox[b]) /\ News("OFFER", b) \notin ToSet(inbox[a]) /\ link[a][b] = "none"
    BY DEF OfferInv, OfferOnce
  <2>2. a # b
    BY Directions
  <2>3. CASE p = a
    <3>1. /\ Once(inbox'[a], News("OFFER", b))
          /\ News("OFFER", b) \in ToSet(inbox'[a]) => News("OFFER", b) \in ToSet(inbox[a])
          /\ link[a][b] = "none" => \/ link'[a][b] = "none"
                                    \/ News("OFFER", b) \in ToSet(inbox[a]) /\ News("OFFER", b) \notin ToSet(inbox'[a])
      BY <2>1, <2>3 DEF Mild
    <3>2. /\ outbox'[b] = outbox[b] /\ client'[b] = client[b] /\ link'[b] = link[b]
      BY <1>1, <2>2, <2>3
    <3> QED
      BY <2>1, <3>1, <3>2
  <2>4. CASE p = b
    <3>1. inbox'[a] = inbox[a] /\ link'[a] = link[a]
      BY <1>1, <2>2, <2>4
    <3>2. /\ Once(outbox[b], Offer(a)) => Once(outbox'[b], Offer(a))
          /\ Offer(a) \in ToSet(outbox'[b]) => Offer(a) \in ToSet(outbox[b])
          /\ client'[b] = "open" /\ link'[b][a] \in {"none", "offering"} =>
               (link[b][a] \in {"none", "offering"} /\ client[b] = "open") \/ conn[a] # "member"
      BY <2>4 DEF Mild
    <3> QED
      BY <2>1, <3>1, <3>2
  <2>5. CASE p # a /\ p # b
    <3>1. inbox'[a] = inbox[a] /\ link'[a] = link[a] /\ outbox'[b] = outbox[b] /\ client'[b] = client[b] /\ link'[b] = link[b]
      BY <1>1, <2>5
    <3> QED
      BY <2>1, <3>1
  <2> QED
    BY <2>3, <2>4, <2>5
<1> QED
  BY <1>2, <1>3 DEF OfferInv

\* Handling a message.
LEMMA ReceiveMild ==
  ASSUME RoomInv, OfferInv, NEW p \in Peer, NEW type, Take1(p, type), Moves(p),
         \A o \in Peer :
           /\ link'[p][o] \in {"offering", "offered"} => Dir(p, o)
           /\ link'[p][o] = "answering" => Dir(o, p)
           /\ Dir(o, p) /\ link[p][o] = "none" => link'[p][o] = "none" \/ Head(inbox[p]) = News("OFFER", o)
           /\ Dir(p, o) /\ link'[p][o] \in {"none", "offering"} =>
                link[p][o] \in {"none", "offering"} \/ conn[o] # "member"
  PROVE  Mild(p)
<1>1. /\ inbox[p] # <<>> /\ inbox[p] \in Seq(Message) /\ inbox'[p] = Tail(inbox[p])
      /\ client[p] = "open" /\ outbox' = outbox /\ client' = client
      /\ ToSet(inbox[p]) = {Head(inbox[p])} \cup ToSet(inbox'[p])
  BY Take1Does DEF RoomInv
<1>2. \A x : Once(inbox[p], x) => Once(inbox'[p], x) /\ (Head(inbox[p]) = x => x \notin ToSet(inbox'[p]))
  BY <1>1, OnceTail
<1>3. \A o \in Peer : Dir(o, p) => Once(inbox[p], News("OFFER", o))
  BY DEF OfferInv, OfferOnce
<1>4. \A o \in Peer : Dir(o, p) /\ Head(inbox[p]) = News("OFFER", o) =>
        News("OFFER", o) \in ToSet(inbox[p]) /\ News("OFFER", o) \notin ToSet(inbox'[p])
  BY <1>1, <1>2, <1>3
<1> QED
  BY <1>1, <1>2, <1>4 DEF Mild

LEMMA ReceiveKeepsOffers ==
  ASSUME RoomInv, OfferInv, NEW p \in Peer, Receive(p)
  PROVE  OfferInv'
<1> SUFFICES Mild(p)
  BY MildKeeps
<1> DEFINE q == Head(inbox[p]).from
<1>0. \A o \in Peer : /\ link[p][o] \in {"offering", "offered"} => Dir(p, o)
                      /\ link[p][o] = "answering" => Dir(o, p)
  BY DEF OfferInv, Directed
<1>1. CASE PeerJoined(p)
  <2>1. /\ Moves(p) /\ Take1(p, "PEER_JOINED")
        /\ \A o \in Peer : o # q => link'[p][o] = link[p][o]
        /\ link'[p][q] = IF p # Owner /\ p < q /\ known[p] /\ link[p][q] = "none" THEN "offering" ELSE link[p][q]
    BY <1>1, PeerJoinedDoes
  <2>2. q \in Peer
    BY <2>1, NewsDoes DEF Relayed
  <2>3. p # Owner /\ p < q => Dir(p, q)
    BY PeerNumbers DEF Dir
  <2>4. Dir(p, q) => ~Dir(q, p)
    BY <2>2, Directions
  <2> HIDE DEF q
  <2>5. \A o \in Peer :
          /\ link'[p][o] \in {"offering", "offered"} => Dir(p, o)
          /\ link'[p][o] = "answering" => Dir(o, p)
          /\ Dir(o, p) /\ link[p][o] = "none" => link'[p][o] = "none"
          /\ Dir(p, o) /\ link'[p][o] \in {"none", "offering"} => link[p][o] \in {"none", "offering"}
    BY <1>0, <2>1, <2>2, <2>3, <2>4
  <2> QED
    BY <2>1, <2>5, ReceiveMild
<1>2. CASE PeerLeft(p)
  <2>1. /\ Moves(p) /\ Take1(p, "PEER_LEFT") /\ conn[q] = "closed"
        /\ \A o \in Peer : o # q => link'[p][o] = link[p][o]
        /\ link'[p][q] = "none"
    BY <1>2, PeerLeftDoes
  <2> HIDE DEF q
  <2>2. \A o \in Peer :
          /\ link'[p][o] \in {"offering", "offered"} => Dir(p, o)
          /\ link'[p][o] = "answering" => Dir(o, p)
          /\ Dir(o, p) /\ link[p][o] = "none" => link'[p][o] = "none"
          /\ Dir(p, o) /\ link'[p][o] \in {"none", "offering"} => link[p][o] \in {"none", "offering"} \/ conn[o] # "member"
    BY <1>0, <2>1
  <2> QED
    BY <2>1, <2>2, ReceiveMild
<1>3. CASE OfferArrives(p)
  <2>1. /\ Moves(p) /\ Take1(p, "OFFER")
        /\ \A o \in Peer : o # q => link'[p][o] = link[p][o]
        /\ link'[p][q] = "answering"
    BY <1>3, OfferArrivesDoes
  <2>2. q \in Peer /\ Head(inbox[p]) = News("OFFER", q) /\ News("OFFER", q) \in ToSet(inbox[p])
    BY <2>1, NewsDoes DEF Relayed
  <2>3. Dir(q, p)
    BY <2>2 DEF OfferInv, Directed
  <2> HIDE DEF q
  <2>4. \A o \in Peer :
          /\ link'[p][o] \in {"offering", "offered"} => Dir(p, o)
          /\ link'[p][o] = "answering" => Dir(o, p)
          /\ Dir(o, p) /\ link[p][o] = "none" => link'[p][o] = "none" \/ Head(inbox[p]) = News("OFFER", o)
          /\ Dir(p, o) /\ link'[p][o] \in {"none", "offering"} => link[p][o] \in {"none", "offering"}
    BY <1>0, <2>1, <2>2, <2>3
  <2> QED
    BY <2>1, <2>4, ReceiveMild
<1>4. CASE AnswerArrives(p)
  <2>1. /\ Moves(p) /\ Take1(p, "ANSWER")
        /\ \A o \in Peer : o # q => link'[p][o] = link[p][o]
        /\ link'[p][q] = IF link[p][q] = "none" THEN "none" ELSE "connected"
    BY <1>4, AnswerArrivesDoes
  <2> HIDE DEF q
  <2>2. \A o \in Peer :
          /\ link'[p][o] \in {"offering", "offered"} => Dir(p, o)
          /\ link'[p][o] = "answering" => Dir(o, p)
          /\ Dir(o, p) /\ link[p][o] = "none" => link'[p][o] = "none"
          /\ Dir(p, o) /\ link'[p][o] \in {"none", "offering"} => link[p][o] \in {"none", "offering"}
    BY <1>0, <2>1
  <2> QED
    BY <2>1, <2>2, ReceiveMild
<1>5. CASE ErrorArrives(p)
  <2>1. Moves(p) /\ Take1(p, "ERROR") /\ link' = link
    BY <1>5, ErrorArrivesDoes
  <2> QED
    BY <1>0, <2>1, ReceiveMild
<1>6. CASE p \in Receivers /\ SessionJoined(p)
  <2>1. Moves(p) /\ Take1(p, "SESSION_JOINED") /\ link' = link
    BY <1>6, SessionJoinedDoes
  <2> QED
    BY <1>0, <2>1, ReceiveMild
<1> QED
  BY <1>1, <1>2, <1>3, <1>4, <1>5, <1>6 DEF Receive

LEMMA EngineJoinsKeepsOffers ==
  ASSUME RoomInv, OfferInv, NEW p \in Receivers, EngineJoins(p)
  PROVE  OfferInv'
<1>0. p \in Peer
  BY PeerNumbers
<1>1. /\ Moves(p) /\ client[p] = "open" /\ UNCHANGED <<inbox, outbox, client>>
      /\ \A o \in Peer : link'[p][o] = link[p][o] \/ OffersFrom(p, o)
  BY EngineJoinsDoes
<1>2. \A o \in Peer : /\ link[p][o] \in {"offering", "offered"} => Dir(p, o)
                      /\ link[p][o] = "answering" => Dir(o, p)
  BY <1>0 DEF OfferInv, Directed
<1>3. \A o \in Peer : Dir(p, o) => ~Dir(o, p)
  BY <1>0, Directions
<1>4. \A o \in Peer :
        /\ link'[p][o] \in {"offering", "offered"} => Dir(p, o)
        /\ link'[p][o] = "answering" => Dir(o, p)
        /\ Dir(o, p) /\ link[p][o] = "none" => link'[p][o] = "none"
        /\ Dir(p, o) /\ link'[p][o] \in {"none", "offering"} => link[p][o] \in {"none", "offering"}
  BY <1>1, <1>2, <1>3 DEF OffersFrom
<1>5. Mild(p)
  BY <1>1, <1>4 DEF Mild
<1> QED
  BY <1>0, <1>5, MildKeeps

LEMMA AnswerReadyKeepsOffers ==
  ASSUME RoomInv, OfferInv, NEW p \in Peer, NEW q \in Peer, AnswerReady(p, q)
  PROVE  OfferInv'
<1>1. /\ Moves(p) /\ client[p] = "open" /\ UNCHANGED <<inbox, client>> /\ Sending(p, Answer(q))
      /\ link[p][q] = "answering" /\ link'[p][q] = "connected"
      /\ \A o \in Peer : o # q => link'[p][o] = link[p][o]
  BY AnswerReadyDoes
<1>2. \A o \in Peer : /\ link[p][o] \in {"offering", "offered"} => Dir(p, o)
                      /\ link[p][o] = "answering" => Dir(o, p)
  BY DEF OfferInv, Directed
<1>3. Answer(q) \in Request /\ (\A o : Offer(o) # Answer(q)) /\ (\A o : Answer(o) = Answer(q) => o = q)
  BY NewRequests DEF Offer, Answer
<1>4. outbox[p] \in Seq(Request) /\ Types
  BY DEF RoomInv, Types
<1>5. \/ outbox'[p] = outbox[p]
      \/ outbox'[p] = Append(outbox[p], Answer(q)) /\ ToSet(outbox'[p]) = ToSet(outbox[p]) \cup {Answer(q)}
  BY <1>1, <1>3, <1>4, SendingDoes
<1>6. \A o \in Peer : Once(outbox[p], Offer(o)) => Once(Append(outbox[p], Answer(q)), Offer(o))
  BY <1>3, <1>4, OnceAppend
<1>7. \A o \in Peer :
        /\ Once(outbox[p], Offer(o)) => Once(outbox'[p], Offer(o))
        /\ Offer(o) \in ToSet(outbox'[p]) => Offer(o) \in ToSet(outbox[p])
        /\ Answer(o) \in ToSet(outbox'[p]) => Answer(o) \in ToSet(outbox[p]) \/ Dir(o, p)
  BY <1>1, <1>2, <1>3, <1>5, <1>6
<1>8. \A o \in Peer :
        /\ link'[p][o] \in {"offering", "offered"} => Dir(p, o)
        /\ link'[p][o] = "answering" => Dir(o, p)
        /\ Dir(o, p) /\ link[p][o] = "none" => link'[p][o] = "none"
        /\ Dir(p, o) /\ link'[p][o] \in {"none", "offering"} => link[p][o] \in {"none", "offering"}
  BY <1>1, <1>2
<1>9. Mild(p)
  BY <1>1, <1>7, <1>8 DEF Mild
<1> QED
  BY <1>9, MildKeeps

LEMMA DropsKeepsOffers ==
  ASSUME RoomInv, OfferInv, NEW p \in Peer, Drops(p)
  PROVE  OfferInv'
<1>1. /\ Moves(p) /\ client[p] = "open"
      /\ inbox'[p] \in {inbox[p], <<>>} /\ outbox'[p] \in {outbox[p], <<>>}
      /\ \A o \in Peer : link'[p][o] = link[p][o] \/ (client'[p] = "gone" /\ link'[p][o] = "none")
  BY DEF Drops
<1>2. \A o \in Peer : /\ link[p][o] \in {"offering", "offered"} => Dir(p, o)
                      /\ link[p][o] = "answering" => Dir(o, p)
  BY DEF OfferInv, Directed
<1>3. ToSet(<<>>) = {} /\ \A x : Once(<<>>, x)
  BY ToSetSmall, OnceEmpty
<1>4. Mild(p)
  BY <1>1, <1>2, <1>3 DEF Mild
<1> QED
  BY <1>4, MildKeeps

LEMMA OfferReadyKeepsOffers ==
  ASSUME RoomInv, OfferInv, NEW p \in Peer, NEW q \in Peer, OfferReady(p, q)
  PROVE  OfferInv'
<1>1. /\ Moves(p) /\ client[p] = "open" /\ UNCHANGED <<inbox, client>> /\ Sending(p, Offer(q))
      /\ link[p][q] = "offering" /\ link'[p][q] = "offered"
      /\ \A o \in Peer : o # q => link'[p][o] = link[p][o] \/ (p \in Receivers /\ OffersFrom(p, o))
  BY OfferReadyDoes, Zenon
<1>2. conn' = conn /\ \A o \in Peer : o # p => outbox'[o] = outbox[o] /\ link'[o] = link[o]
  BY <1>1 DEF Moves
<1>3. Offer(q) \in Request /\ (\A o : Answer(o) # Offer(q)) /\ (\A o : Offer(o) = Offer(q) => o = q)
  BY NewRequests DEF Offer, Answer
<1>4. outbox[p] \in Seq(Request) /\ Types
  BY DEF RoomInv, Types
<1>5. \/ outbox'[p] = outbox[p]
      \/ outbox'[p] = Append(outbox[p], Offer(q)) /\ ToSet(outbox'[p]) = ToSet(outbox[p]) \cup {Offer(q)}
  BY <1>1, <1>3, <1>4, SendingDoes
<1>6. Dir(p, q) /\ p # q
  BY <1>1, Directions DEF OfferInv, Directed
<1>7. Directed'
  <2> SUFFICES ASSUME NEW a \in Peer, NEW b \in Peer
               PROVE  /\ Offer(a) \in ToSet(outbox'[b]) => Dir(b, a)
                      /\ News("OFFER", b) \in ToSet(inbox'[a]) => Dir(b, a)
                      /\ link'[b][a] \in {"offering", "offered"} => Dir(b, a)
                      /\ Answer(a) \in ToSet(outbox'[b]) => Dir(a, b)
                      /\ News("ANSWER", b) \in ToSet(inbox'[a]) => Dir(a, b)
                      /\ link'[b][a] = "answering" => Dir(a, b)
    BY DEF Directed
  <2>1. /\ Offer(a) \in ToSet(outbox[b]) => Dir(b, a)
        /\ News("OFFER", b) \in ToSet(inbox[a]) => Dir(b, a)
        /\ link[b][a] \in {"offering", "offered"} => Dir(b, a)
        /\ Answer(a) \in ToSet(outbox[b]) => Dir(a, b)
        /\ News("ANSWER", b) \in ToSet(inbox[a]) => Dir(a, b)
        /\ link[b][a] = "answering" => Dir(a, b)
    BY DEF OfferInv, Directed
  <2>2. CASE b = p
    <3>1. /\ Offer(a) \in ToSet(outbox'[b]) => Dir(b, a)
          /\ Answer(a) \in ToSet(outbox'[b]) => Dir(a, b)
      BY <1>3, <1>5, <1>6, <2>1, <2>2
    <3>2. /\ link'[b][a] \in {"offering", "offered"} => Dir(b, a)
          /\ link'[b][a] = "answering" => Dir(a, b)
      BY <1>1, <1>6, <2>1, <2>2 DEF OffersFrom
    <3> QED
      BY <1>1, <2>1, <3>1, <3>2
  <2>3. CASE b # p
    BY <1>1, <1>2, <2>1, <2>3
  <2> QED
    BY <2>2, <2>3
<1>8. OfferOnce'
  <2> SUFFICES ASSUME NEW a \in Peer, NEW b \in Peer, Dir(b, a)
               PROVE  /\ Once(inbox[a], News("OFFER", b))
                      /\ News("OFFER", b) \in ToSet(inbox[a]) => link'[a][b] = "none"
                      /\ conn[a] = "member" /\ Offer(a) \in ToSet(outbox'[b]) =>
                           Once(outbox'[b], Offer(a)) /\ News("OFFER", b) \notin ToSet(inbox[a]) /\ link'[a][b] = "none"
                      /\ conn[a] = "member" /\ client[b] = "open" /\ link'[b][a] \in {"none", "offering"} =>
                           Offer(a) \notin ToSet(outbox'[b]) /\ News("OFFER", b) \notin ToSet(inbox[a]) /\ link'[a][b] = "none"
    BY <1>1, <1>2 DEF OfferOnce
  <2>1. /\ Once(inbox[a], News("OFFER", b))
        /\ News("OFFER", b) \in ToSet(inbox[a]) => link[a][b] = "none"
        /\ conn[a] = "member" /\ Offer(a) \in ToSet(outbox[b]) =>
             Once(outbox[b], Offer(a)) /\ News("OFFER", b) \notin ToSet(inbox[a]) /\ link[a][b] = "none"
        /\ conn[a] = "member" /\ client[b] = "open" /\ link[b][a] \in {"none", "offering"} =>
             Offer(a) \notin ToSet(outbox[b]) /\ News("OFFER", b) \notin ToSet(inbox[a]) /\ link[a][b] = "none"
    BY DEF OfferInv, OfferOnce
  <2>2. a # b /\ ~Dir(a, b)
    BY Directions
  <2>3. CASE p = a
    <3>1. b # q /\ link'[a][b] = link[a][b]
      BY <1>1, <1>6, <2>2, <2>3 DEF OffersFrom
    <3>2. outbox'[b] = outbox[b] /\ link'[b] = link[b]
      BY <1>2, <2>2, <2>3
    <3> QED
      BY <2>1, <3>1, <3>2
  <2>4. CASE p = b /\ a = q
    <3>1. link'[a] = link[a]
      BY <1>2, <2>2, <2>4
    <3>2. conn[a] = "member" =>
            Offer(a) \notin ToSet(outbox[b]) /\ News("OFFER", b) \notin ToSet(inbox[a]) /\ link[a][b] = "none"
      BY <1>1, <2>1, <2>4
    <3>3. conn[a] = "member" => Once(Append(outbox[b], Offer(a)), Offer(a)) /\ Once(outbox[b], Offer(a))
      <4>1. conn[a] = "member" => Once(outbox[b], Offer(a))
        BY <1>4, <2>4, <3>2, InSeq DEF Once
      <4>2. Offer(a) \notin ToSet(outbox[b]) /\ Once(outbox[b], Offer(a)) => Once(Append(outbox[b], Offer(a)), Offer(a))
        BY <1>3, <1>4, <2>4, OnceAppend
      <4> QED
        BY <3>2, <4>1, <4>2
    <3> QED
      BY <1>1, <1>5, <2>1, <2>4, <3>1, <3>2, <3>3
  <2>5. CASE p = b /\ a # q
    <3>1. link'[a] = link[a]
      BY <1>2, <2>2, <2>5
    <3>2. link'[b][a] \in {"none", "offering"} => link[b][a] \in {"none", "offering"}
      BY <1>1, <2>5 DEF OffersFrom
    <3>3. /\ Offer(a) \in ToSet(outbox'[b]) => Offer(a) \in ToSet(outbox[b])
          /\ Once(outbox[b], Offer(a)) => Once(outbox'[b], Offer(a))
      <4>1. Once(outbox[b], Offer(a)) => Once(Append(outbox[b], Offer(q)), Offer(a))
        BY <1>3, <1>4, <2>5, OnceAppend
      <4> QED
        BY <1>3, <1>5, <2>5, <4>1
    <3> QED
      BY <2>1, <3>1, <3>2, <3>3
  <2>6. CASE p # a /\ p # b
    <3>1. link'[a] = link[a] /\ outbox'[b] = outbox[b] /\ link'[b] = link[b]
      BY <1>2, <2>6
    <3> QED
      BY <2>1, <3>1
  <2> QED
    BY <2>3, <2>4, <2>5, <2>6
<1> QED
  BY <1>7, <1>8 DEF OfferInv

\* A step of the server, or the entry of a peer, that relays nothing.
Notifies ==
  /\ link' = link
  /\ \A a \in Peer :
       /\ conn'[a] = "member" => conn[a] = "member" \/ ~HasJoined(a)
       /\ client'[a] = "open" => client[a] = "open" \/ ~HasJoined(a)
       /\ \A o \in Peer :
            /\ News("OFFER", o) \in ToSet(inbox'[a]) => News("OFFER", o) \in ToSet(inbox[a])
            /\ News("ANSWER", o) \in ToSet(inbox'[a]) => News("ANSWER", o) \in ToSet(inbox[a])
            /\ Once(inbox[a], News("OFFER", o)) => Once(inbox'[a], News("OFFER", o))
            /\ Offer(o) \in ToSet(outbox'[a]) => Offer(o) \in ToSet(outbox[a])
            /\ Answer(o) \in ToSet(outbox'[a]) => Answer(o) \in ToSet(outbox[a])
            /\ Once(outbox[a], Offer(o)) => Once(outbox'[a], Offer(o))

\* Of and to a peer that has not joined there are no offers.
LEMMA NoneOfStrangers ==
  ASSUME RoomInv, NEW a \in Peer, NEW b \in Peer, ~HasJoined(a) \/ ~HasJoined(b)
  PROVE  /\ Offer(a) \notin ToSet(outbox[b]) /\ Answer(a) \notin ToSet(outbox[b])
         /\ News("OFFER", b) \notin ToSet(inbox[a]) /\ News("ANSWER", b) \notin ToSet(inbox[a])
         /\ link[a][b] = "none"
<1>1. CASE ~HasJoined(a)
  <2>1. Offer(a) \notin ToSet(outbox[b]) /\ Answer(a) \notin ToSet(outbox[b])
    BY <1>1 DEF RoomInv, Strangers
  <2>2. conn[a] \in {"none", "attached"}
    BY <1>1, NotJoined
  <2>3. (\A m \in ToSet(inbox[a]) : m = Error) /\ link[a][b] = "none"
    BY <2>2 DEF RoomInv, Entering
  <2> QED
    BY <2>1, <2>3, NewMessages DEF Relayed
<1>2. CASE ~HasJoined(b)
  <2>1. conn[b] \in {"none", "attached"}
    BY <1>2, NotJoined
  <2>2. outbox[b] \in {<<>>, <<Entry(b)>>}
    BY <2>1 DEF RoomInv, Entering
  <2>3. Entry(b) # Offer(a) /\ Entry(b) # Answer(a)
    BY NewRequests
  <2>4. Offer(a) \notin ToSet(outbox[b]) /\ Answer(a) \notin ToSet(outbox[b])
    BY <2>2, <2>3, ToSetSmall
  <2>5. Mentions(News("OFFER", b), b) /\ Mentions(News("ANSWER", b), b)
    BY DEF Mentions, News
  <2>6. /\ News("OFFER", b) \notin ToSet(inbox[a]) /\ News("ANSWER", b) \notin ToSet(inbox[a])
        /\ link[a][b] = "none"
    BY <1>2, <2>5 DEF RoomInv, Strangers
  <2> QED
    BY <2>4, <2>6
<1> QED
  BY <1>1, <1>2

LEMMA NotifiesKeepsOffers ==
  ASSUME RoomInv, OfferInv, Notifies
  PROVE  OfferInv'
<1>1. Directed'
  BY DEF OfferInv, Directed, Notifies
<1>2. OfferOnce'
  <2> SUFFICES ASSUME NEW a \in Peer, NEW b \in Peer, Dir(b, a)
               PROVE  /\ Once(inbox'[a], News("OFFER", b))
                      /\ News("OFFER", b) \in ToSet(inbox'[a]) => link'[a][b] = "none"
                      /\ conn'[a] = "member" /\ Offer(a) \in ToSet(outbox'[b]) =>
                           Once(outbox'[b], Offer(a)) /\ News("OFFER", b) \notin ToSet(inbox'[a]) /\ link'[a][b] = "none"
                      /\ conn'[a] = "member" /\ client'[b] = "open" /\ link'[b][a] \in {"none", "offering"} =>
                           Offer(a) \notin ToSet(outbox'[b]) /\ News("OFFER", b) \notin ToSet(inbox'[a]) /\ link'[a][b] = "none"
    BY DEF OfferOnce
  <2>1. /\ Once(inbox[a], News("OFFER", b))
        /\ News("OFFER", b) \in ToSet(inbox[a]) => link[a][b] = "none"
        /\ conn[a] = "member" /\ Offer(a) \in ToSet(outbox[b]) =>
             Once(outbox[b], Offer(a)) /\ News("OFFER", b) \notin ToSet(inbox[a]) /\ link[a][b] = "none"
        /\ conn[a] = "member" /\ client[b] = "open" /\ link[b][a] \in {"none", "offering"} =>
             Offer(a) \notin ToSet(outbox[b]) /\ News("OFFER", b) \notin ToSet(inbox[a]) /\ link[a][b] = "none"
    BY DEF OfferInv, OfferOnce
  <2>2. /\ link' = link
        /\ conn'[a] = "member" => conn[a] = "member" \/ ~HasJoined(a)
        /\ client'[b] = "open" => client[b] = "open" \/ ~HasJoined(b)
        /\ News("OFFER", b) \in ToSet(inbox'[a]) => News("OFFER", b) \in ToSet(inbox[a])
        /\ Once(inbox[a], News("OFFER", b)) => Once(inbox'[a], News("OFFER", b))
        /\ Offer(a) \in ToSet(outbox'[b]) => Offer(a) \in ToSet(outbox[b])
        /\ Once(outbox[b], Offer(a)) => Once(outbox'[b], Offer(a))
    BY DEF Notifies
  <2>3. CASE HasJoined(a) /\ HasJoined(b)
    BY <2>1, <2>2, <2>3
  <2>4. CASE ~HasJoined(a) \/ ~HasJoined(b)
    <3>1. Offer(a) \notin ToSet(outbox[b]) /\ News("OFFER", b) \notin ToSet(inbox[a]) /\ link[a][b] = "none"
      BY <2>4, NoneOfStrangers
    <3> QED
      BY <2>1, <2>2, <3>1
  <2> QED
    BY <2>3, <2>4
<1> QED
  BY <1>1, <1>2 DEF OfferInv

LEMMA EnterNotifies ==
  ASSUME RoomInv, NEW p \in Peer, Enter(p)
  PROVE  Notifies
<1>1. /\ conn[p] = "none" /\ outbox' = [outbox EXCEPT ![p] = <<Entry(p)>>] /\ UNCHANGED <<inbox, link>>
      /\ client' = [client EXCEPT ![p] = "open"] /\ conn' = [conn EXCEPT ![p] = "attached"]
  BY EnterDoes
<1>2. /\ outbox'[p] = <<Entry(p)>> /\ (\A a \in Peer : a # p => outbox'[a] = outbox[a] /\ client'[a] = client[a])
      /\ \A a \in Peer : conn'[a] = "member" => conn[a] = "member"
  BY <1>1 DEF RoomInv, Types
<1>3. ~HasJoined(p)
  BY <1>1 DEF HasJoined
<1>4. ToSet(<<Entry(p)>>) = {Entry(p)} /\ (\A o \in Peer : Entry(p) # Offer(o) /\ Entry(p) # Answer(o))
  BY ToSetSmall, NewRequests
<1>5. \A x : Once(<<Entry(p)>>, x)
  BY DEF Once
<1> QED
  BY <1>1, <1>2, <1>3, <1>4, <1>5 DEF Notifies

LEMMA OpensNotifies ==
  ASSUME RoomInv, NEW p \in Peer, Opens(p)
  PROVE  Notifies
<1>1. /\ conn[p] = "attached" /\ outbox' = [outbox EXCEPT ![p] = <<>>] /\ UNCHANGED <<inbox, link, client>>
      /\ conn' = [conn EXCEPT ![p] = "member"]
  BY DEF Opens, peerVars
<1>2. /\ outbox'[p] = <<>> /\ (\A a \in Peer : a # p => outbox'[a] = outbox[a] /\ conn'[a] = conn[a])
  BY <1>1 DEF RoomInv, Types
<1>3. ~HasJoined(p) /\ ToSet(<<>>) = {} /\ \A x : Once(<<>>, x)
  BY <1>1, ToSetSmall, OnceEmpty DEF HasJoined
<1> QED
  BY <1>1, <1>2, <1>3 DEF Notifies

LEMMA AdmitsNotifies ==
  ASSUME RoomInv, NEW p \in Peer, Admits(p)
  PROVE  Notifies
<1> DEFINE told == News("PEER_JOINED", p)
<1>1. /\ conn[p] = "attached" /\ outbox'[p] = <<>> /\ (\A a \in Peer : a # p => outbox'[a] = outbox[a] /\ conn'[a] = conn[a])
      /\ inbox'[p] = <<Joined(members')>> /\ ToSet(inbox'[p]) = {Joined(members')}
      /\ UNCHANGED <<link, client>>
  BY AdmitsDoes
<1>2. \A a \in Peer : a # p =>
        \/ inbox'[a] = inbox[a]
        \/ inbox'[a] = Append(inbox[a], told) /\ ToSet(inbox'[a]) = ToSet(inbox[a]) \cup {told}
  BY AdmitsDoes
<1>3. ~HasJoined(p) /\ ToSet(<<>>) = {} /\ \A x : Once(<<>>, x)
  BY <1>1, ToSetSmall, OnceEmpty DEF HasJoined
<1>4. told \in Message /\ \A o : \A t \in {"OFFER", "ANSWER"} : News(t, o) # told /\ News(t, o) # Joined(members')
  BY NewMessages DEF News, Joined, Relayed
<1>5. \A x : Once(<<Joined(members')>>, x)
  BY DEF Once
<1>6. \A a \in Peer : \A o : Once(inbox[a], News("OFFER", o)) => Once(Append(inbox[a], told), News("OFFER", o))
  <2>1. \A a \in Peer : inbox[a] \in Seq(Message)
    BY DEF RoomInv, Types
  <2> HIDE DEF told
  <2> QED
    BY <1>4, <2>1, OnceAppend
<1> HIDE DEF told
<1>7. ASSUME NEW a \in Peer, NEW o \in Peer
      PROVE  /\ News("OFFER", o) \in ToSet(inbox'[a]) => News("OFFER", o) \in ToSet(inbox[a])
             /\ News("ANSWER", o) \in ToSet(inbox'[a]) => News("ANSWER", o) \in ToSet(inbox[a])
             /\ Once(inbox[a], News("OFFER", o)) => Once(inbox'[a], News("OFFER", o))
  BY <1>1, <1>2, <1>4, <1>5, <1>6
<1> QED
  BY <1>1, <1>3, <1>7 DEF Notifies

LEMMA RefusesNotifies ==
  ASSUME RoomInv, NEW p \in Peer, Refuses(p)
  PROVE  Notifies
<1>1. /\ UNCHANGED <<conn, link, client>>
      /\ outbox[p] \in Seq(Request) /\ outbox[p] # <<>> /\ outbox'[p] = Tail(outbox[p])
      /\ ToSet(outbox[p]) = {Head(outbox[p])} \cup ToSet(outbox'[p])
      /\ \A o \in Peer : o # p => outbox'[o] = outbox[o]
      /\ inbox'[p] = Append(inbox[p], Error) /\ ToSet(inbox'[p]) = ToSet(inbox[p]) \cup {Error}
      /\ \A o \in Peer : o # p => inbox'[o] = inbox[o]
  BY RefusesDoes
<1>2. \A x : Once(outbox[p], x) => Once(outbox'[p], x)
  BY <1>1, OnceTail
<1>3. Error \in Message /\ \A o : \A t \in {"OFFER", "ANSWER"} : News(t, o) # Error
  BY NewMessages DEF News, Error
<1>4. \A o : Once(inbox[p], News("OFFER", o)) => Once(Append(inbox[p], Error), News("OFFER", o))
  <2>1. inbox[p] \in Seq(Message)
    BY DEF RoomInv, Types
  <2> QED
    BY <1>3, <2>1, OnceAppend
<1> QED
  BY <1>1, <1>2, <1>3, <1>4 DEF Notifies

LEMMA GoesOffNotifies ==
  ASSUME RoomInv, NEW p \in Peer, GoesOff(p)
  PROVE  Notifies
<1> DEFINE left == News("PEER_LEFT", p)
<1>1. /\ conn'[p] = "closed" /\ outbox'[p] = <<>> /\ (\A a \in Peer : a # p => outbox'[a] = outbox[a] /\ conn'[a] = conn[a])
      /\ UNCHANGED <<link, client>>
  BY GoesOffDoes DEF peerVars
<1>2. \A a \in Peer : \/ inbox'[a] = inbox[a]
                     \/ /\ inbox'[a] \in {Append(inbox[a], left), Append(Append(inbox[a], left), left)}
                        /\ ToSet(inbox'[a]) = ToSet(inbox[a]) \cup {left}
  BY GoesOffDoes
<1>3. ToSet(<<>>) = {} /\ \A x : Once(<<>>, x)
  BY ToSetSmall, OnceEmpty
<1>4. left \in Message /\ \A o : \A t \in {"OFFER", "ANSWER"} : News(t, o) # left
  BY NewMessages DEF News, Relayed
<1> HIDE DEF left
<1>5. ASSUME NEW a \in Peer, NEW o, Once(inbox[a], News("OFFER", o)) PROVE Once(inbox'[a], News("OFFER", o))
  <2> DEFINE t == Append(inbox[a], left)
  <2>1. inbox[a] \in Seq(Message)
    BY DEF RoomInv, Types
  <2>2. t \in Seq(Message)
    BY <1>4, <2>1
  <2>3. Once(t, News("OFFER", o))
    BY <1>4, <1>5, <2>1, OnceAppend
  <2> HIDE DEF t
  <2>4. Once(Append(t, left), News("OFFER", o))
    BY <1>4, <2>2, <2>3, OnceAppend
  <2> QED
    BY <1>2, <1>5, <2>3, <2>4 DEF t
<1>6. ASSUME NEW a \in Peer, NEW o \in Peer
      PROVE  /\ News("OFFER", o) \in ToSet(inbox'[a]) => News("OFFER", o) \in ToSet(inbox[a])
             /\ News("ANSWER", o) \in ToSet(inbox'[a]) => News("ANSWER", o) \in ToSet(inbox[a])
  BY <1>2, <1>4
<1> QED
  BY <1>1, <1>3, <1>5, <1>6 DEF Notifies

LEMMA RelaysKeepsOffers ==
  ASSUME RoomInv, OfferInv, NEW p \in Peer, NEW q \in Peer, NEW type \in {"OFFER", "ANSWER"}, Relays(p, q, type)
  PROVE  OfferInv'
<1> DEFINE x == Head(outbox[p])
           m == News(type, p)
<1>0. Passes(p, q, type)
  BY RelaysDoes
<1>1. /\ UNCHANGED <<conn, client, link>> /\ conn[p] = "member" /\ conn[q] = "member" /\ m \in Message
      /\ outbox[p] \in Seq(Request) /\ outbox[p] # <<>> /\ outbox'[p] = Tail(outbox[p])
      /\ x = IF type = "OFFER" THEN Offer(q) ELSE Answer(q)
      /\ ToSet(outbox[p]) = {x} \cup ToSet(outbox'[p])
      /\ \A o \in Peer : o # p => outbox'[o] = outbox[o]
      /\ inbox'[q] = Append(inbox[q], m) /\ ToSet(inbox'[q]) = ToSet(inbox[q]) \cup {m}
      /\ \A o \in Peer : o # q => inbox'[o] = inbox[o]
  BY <1>0 DEF Passes
<1>2. \A y : Once(outbox[p], y) => Once(outbox'[p], y) /\ (x = y => y \notin ToSet(outbox'[p]))
  BY <1>1, OnceTail
<1>3. \A t, o : News(t, o) = m <=> t = type /\ o = p
  BY DEF News
<1>4. inbox[q] \in Seq(Message)
  BY DEF RoomInv, Types
<1> HIDE DEF x, m
<1>5. \A o : Once(inbox[q], News("OFFER", o)) /\ (m = News("OFFER", o) => m \notin ToSet(inbox[q])) =>
               Once(inbox'[q], News("OFFER", o))
  BY <1>1, <1>4, OnceAppend
<1>6. Directed'
  <2> SUFFICES ASSUME NEW a \in Peer, NEW b \in Peer
               PROVE  /\ Offer(a) \in ToSet(outbox'[b]) => Dir(b, a)
                      /\ News("OFFER", b) \in ToSet(inbox'[a]) => Dir(b, a)
                      /\ link[b][a] \in {"offering", "offered"} => Dir(b, a)
                      /\ Answer(a) \in ToSet(outbox'[b]) => Dir(a, b)
                      /\ News("ANSWER", b) \in ToSet(inbox'[a]) => Dir(a, b)
                      /\ link[b][a] = "answering" => Dir(a, b)
    BY <1>1 DEF Directed
  <2>1. /\ Offer(a) \in ToSet(outbox[b]) => Dir(b, a)
        /\ News("OFFER", b) \in ToSet(inbox[a]) => Dir(b, a)
        /\ link[b][a] \in {"offering", "offered"} => Dir(b, a)
        /\ Answer(a) \in ToSet(outbox[b]) => Dir(a, b)
        /\ News("ANSWER", b) \in ToSet(inbox[a]) => Dir(a, b)
        /\ link[b][a] = "answering" => Dir(a, b)
    BY DEF OfferInv, Directed
  <2>2. /\ type = "OFFER" => Dir(p, q)
        /\ type = "ANSWER" => Dir(q, p)
    BY <1>1 DEF OfferInv, Directed
  <2>3. ToSet(outbox'[b]) \subseteq ToSet(outbox[b])
    BY <1>1
  <2>4. /\ News("OFFER", b) \in ToSet(inbox'[a]) =>
             News("OFFER", b) \in ToSet(inbox[a]) \/ (a = q /\ b = p /\ type = "OFFER")
        /\ News("ANSWER", b) \in ToSet(inbox'[a]) =>
             News("ANSWER", b) \in ToSet(inbox[a]) \/ (a = q /\ b = p /\ type = "ANSWER")
    BY <1>1, <1>3
  <2> QED
    BY <2>1, <2>2, <2>3, <2>4
<1>7. OfferOnce'
  <2> SUFFICES ASSUME NEW a \in Peer, NEW b \in Peer, Dir(b, a)
               PROVE  /\ Once(inbox'[a], News("OFFER", b))
                      /\ News("OFFER", b) \in ToSet(inbox'[a]) => link[a][b] = "none"
                      /\ conn[a] = "member" /\ Offer(a) \in ToSet(outbox'[b]) =>
                           Once(outbox'[b], Offer(a)) /\ News("OFFER", b) \notin ToSet(inbox'[a]) /\ link[a][b] = "none"
                      /\ conn[a] = "member" /\ client[b] = "open" /\ link[b][a] \in {"none", "offering"} =>
                           Offer(a) \notin ToSet(outbox'[b]) /\ News("OFFER", b) \notin ToSet(inbox'[a]) /\ link[a][b] = "none"
    BY <1>1 DEF OfferOnce
  <2>1. /\ Once(inbox[a], News("OFFER", b))
        /\ News("OFFER", b) \in ToSet(inbox[a]) => link[a][b] = "none"
        /\ conn[a] = "member" /\ Offer(a) \in ToSet(outbox[b]) =>
             Once(outbox[b], Offer(a)) /\ News("OFFER", b) \notin ToSet(inbox[a]) /\ link[a][b] = "none"
        /\ conn[a] = "member" /\ client[b] = "open" /\ link[b][a] \in {"none", "offering"} =>
             Offer(a) \notin ToSet(outbox[b]) /\ News("OFFER", b) \notin ToSet(inbox[a]) /\ link[a][b] = "none"
    BY DEF OfferInv, OfferOnce
  <2>2. /\ Offer(a) \in ToSet(outbox'[b]) => Offer(a) \in ToSet(outbox[b])
        /\ Once(outbox[b], Offer(a)) => Once(outbox'[b], Offer(a))
    BY <1>1, <1>2
  <2>3. CASE a = q /\ b = p /\ type = "OFFER"
    <3>1. Offer(a) \in ToSet(outbox[b]) /\ x = Offer(a) /\ m = News("OFFER", b)
      BY <1>1, <1>3, <2>3
    <3>2. Once(outbox[b], Offer(a)) /\ News("OFFER", b) \notin ToSet(inbox[a]) /\ link[a][b] = "none"
          /\ ~(client[b] = "open" /\ link[b][a] \in {"none", "offering"})
      BY <1>1, <2>1, <2>3, <3>1
    <3>3. Offer(a) \notin ToSet(outbox'[b])
      BY <1>2, <2>3, <3>1, <3>2
    <3>4. Once(inbox'[a], News("OFFER", b))
      BY <1>5, <2>1, <2>3, <3>1, <3>2
    <3> QED
      BY <3>2, <3>3, <3>4
  <2>4. CASE ~(a = q /\ b = p /\ type = "OFFER")
    <3>1. a = q => m # News("OFFER", b)
      BY <1>3, <2>4
    <3>2. News("OFFER", b) \in ToSet(inbox'[a]) => News("OFFER", b) \in ToSet(inbox[a])
      BY <1>1, <3>1
    <3>3. Once(inbox'[a], News("OFFER", b))
      BY <1>1, <1>5, <2>1, <3>1
    <3> QED
      BY <2>1, <2>2, <3>2, <3>3
  <2> QED
    BY <2>3, <2>4
<1> QED
  BY <1>6, <1>7 DEF OfferInv

LEMMA NextKeepsOffers ==
  ASSUME RoomInv, OfferInv, Next
  PROVE  OfferInv'
<1>1. CASE RoomExpires
  BY <1>1 DEF OfferInv, Directed, OfferOnce, RoomExpires, Expire, peerVars
<1>2. ASSUME NEW p \in Peer, Enter(p) PROVE OfferInv'
  BY <1>2, EnterNotifies, NotifiesKeepsOffers
<1>3. ASSUME NEW p \in Peer, Receive(p) PROVE OfferInv'
  BY <1>3, ReceiveKeepsOffers
<1>4. ASSUME NEW p \in Peer, NEW q \in Peer, OfferReady(p, q) \/ AnswerReady(p, q) PROVE OfferInv'
  BY <1>4, OfferReadyKeepsOffers, AnswerReadyKeepsOffers
<1>5. ASSUME NEW p \in Peer, Serve(p) PROVE OfferInv'
  BY <1>5, ServeKinds, OpensNotifies, AdmitsNotifies, RefusesNotifies, NotifiesKeepsOffers, RelaysKeepsOffers
<1>6. ASSUME NEW p \in Peer, Leave(p) \/ EvictionArrives(p) PROVE OfferInv'
  BY <1>6, LeaveDrops, EvictionDrops, DropsKeepsOffers
<1>7. ASSUME NEW p \in Peer, CloseArrives(p) \/ EvictIdle(p) PROVE OfferInv'
  <2>1. GoesOff(p)
    BY <1>7, CloseGoesOff, IdleGoesOff DEF GoesOffNow
  <2> QED
    BY <2>1, GoesOffNotifies, NotifiesKeepsOffers
<1>8. ASSUME NEW p \in Receivers, EngineJoins(p) \/ EngineFails(p) PROVE OfferInv'
  <2>1. p \in Peer
    BY PeerNumbers
  <2> QED
    BY <1>8, <2>1, EngineJoinsKeepsOffers, EngineFailsDrops, DropsKeepsOffers
<1> QED
  BY <1>1, <1>2, <1>3, <1>4, <1>5, <1>6, <1>7, <1>8, StepKinds

-----------------------------------------------------------------------------
(* Steps without trouble.                                                   *)

\* The steps that are possible while nobody has left.
LEMMA CalmSteps ==
  ASSUME RoomInv, Undisturbed, Next, trouble' = 0
  PROVE  /\ trouble = 0
         /\ \/ \E p \in Peer :
                 \/ Enter(p) \/ Opens(p) \/ Admits(p) \/ Refuses(p)
                 \/ Receive(p) /\ ~PeerLeft(p)
                 \/ \E q \in Peer : OfferReady(p, q) \/ AnswerReady(p, q)
                 \/ \E q \in Peer, type \in {"OFFER", "ANSWER"} : Relays(p, q, type)
            \/ \E p \in Receivers : EngineJoins(p)
<1>1. trouble \in Nat
  BY MeshAssumption DEF RoomInv, Types
<1>2. ~RoomExpires
  BY <1>1 DEF RoomExpires, Trouble
<1>3. ASSUME NEW p \in Peer, Drops(p) PROVE FALSE
  <2>1. trouble' \in {trouble, trouble + 1} /\ conn[p] = "closed"
    BY <1>3 DEF Drops, Moves
  <2>2. trouble = 0
    BY <1>1, <2>1
  <2> QED
    BY <2>1, <2>2 DEF Undisturbed
<1>4. ASSUME NEW p \in Peer, GoesOffNow(p) PROVE FALSE
  BY <1>4 DEF GoesOffNow, Undisturbed
<1>5. ASSUME NEW p \in Peer, Moves(p) PROVE trouble = 0
  BY <1>1, <1>5 DEF Moves
<1>6. ASSUME NEW p \in Peer, Receive(p) PROVE trouble' = trouble
  BY <1>6 DEF Receive, PeerJoined, PeerLeft, OfferArrives, AnswerArrives, ErrorArrives, SessionJoined, Take1
<1>7. ASSUME NEW p \in Peer, PeerLeft(p) PROVE FALSE
  <2>1. Moves(p) /\ Head(inbox[p]).from \in Peer /\ conn[Head(inbox[p]).from] = "closed"
    <3>1. Moves(p) /\ conn[Head(inbox[p]).from] = "closed" /\ Take1(p, "PEER_LEFT")
      BY <1>7, PeerLeftDoes
    <3> QED
      BY <3>1, NewsDoes DEF Relayed
  <2> QED
    BY <1>5, <2>1 DEF Undisturbed
<1>8. ASSUME NEW p \in Peer, NEW q \in Peer, OfferReady(p, q) \/ AnswerReady(p, q) PROVE trouble = 0
  BY <1>5, <1>8, OfferReadyDoes, AnswerReadyDoes
<1>9. ASSUME NEW p \in Peer, Serve(p) PROVE trouble = 0
  BY <1>9 DEF Serve
<1>10. ASSUME NEW p \in Peer, Enter(p) PROVE trouble = 0
  BY <1>10, EnterDoes
<1>11. ASSUME NEW p \in Receivers, EngineJoins(p) PROVE trouble = 0
  BY <1>11, EngineJoinsDoes
<1>12. \A p \in Peer : ~Leave(p) /\ ~EvictionArrives(p) /\ ~CloseArrives(p) /\ ~EvictIdle(p)
  BY <1>3, <1>4, LeaveDrops, EvictionDrops, CloseGoesOff, IdleGoesOff
<1>13. \A p \in Receivers : ~EngineFails(p)
  BY <1>3, EngineFailsDrops, PeerNumbers
<1> QED
  BY <1>2, <1>6, <1>7, <1>8, <1>9, <1>10, <1>11, <1>12, <1>13, StepKinds, ServeKinds

\* While nobody has left, a refused request is the entry of a receiver into a full room.
LEMMA RefusedForRoom ==
  ASSUME RoomInv, Undisturbed, trouble = 0, NEW p \in Peer, Refuses(p)
  PROVE  conn[p] = "attached" /\ outbox[p] = <<Entry(p)>> /\ Len(members) = MaxPeers
<1>1. CASE p \in Receivers /\ conn[p] = "attached" /\ outbox[p] = <<Entry(p)>> /\ ~(room = "open" /\ Len(members) < MaxPeers)
  <2>1. room = "open"
    BY <1>1 DEF RoomInv, Types, Session, Undisturbed
  <2>2. Len(members) <= MaxPeers /\ ~(Len(members) < MaxPeers) /\ Len(members) \in Nat /\ MaxPeers \in Nat
    BY <1>1, <2>1, RoomAssumption DEF RoomInv, Types
  <2> QED
    BY <1>1, <2>2
<1>2. ASSUME conn[p] = "member", NEW q \in Peer, Head(outbox[p]) \in {Offer(q), Answer(q)},
             ~(Member(p) /\ Member(q) /\ conn[q] = "member")
      PROVE  FALSE
  <2>1. Head(outbox[p]) \in ToSet(outbox[p])
    BY RefusesDoes
  <2>2. HasJoined(q)
    BY <1>2, <2>1 DEF RoomInv, Strangers
  <2>3. conn[q] = "member" /\ q \in ToSet(members) /\ p \in ToSet(members)
    BY <1>2, <2>2 DEF HasJoined, Undisturbed
  <2>4. room = "open"
    <3>1. members # <<>>
      BY <2>3, ToSetSmall
    <3> QED
      BY <3>1 DEF RoomInv, Session
  <2> QED
    BY <1>2, <2>3, <2>4 DEF Member
<1> QED
  BY <1>1, <1>2 DEF Refuses

LEMMA CalmClient ==
  ASSUME RoomInv, AlarmInv, NEW p \in Peer, Moves(p), trouble' = 0, trouble = 0, client'[p] = "open",
         \/ HasJoined(p) /\ ToSet(inbox'[p]) \subseteq ToSet(inbox[p]) /\ alarm'[p] = alarm[p]
         \/ ErrorArrives(p)
  PROVE  AlarmInv'
<1>1. /\ UNCHANGED <<room, members, conn>>
      /\ \A o \in Peer : o # p => inbox'[o] = inbox[o] /\ outbox'[o] = outbox[o] /\ client'[o] = client[o] /\ alarm'[o] = alarm[o]
  BY DEF Moves
<1>2. Undisturbed'
  BY <1>1 DEF AlarmInv, Undisturbed
<1>3. Alarms'
  <2> SUFFICES ASSUME NEW o \in Peer, alarm'[o] \/ Error \in ToSet(inbox'[o])
               PROVE  conn[o] = "attached" /\ outbox'[o] = <<>> /\ Len(members) = MaxPeers
    BY <1>1 DEF Alarms
  <2>1. alarm[o] \/ Error \in ToSet(inbox[o]) => conn[o] = "attached" /\ outbox[o] = <<>> /\ Len(members) = MaxPeers
    BY DEF AlarmInv, Alarms
  <2>2. CASE o # p
    BY <1>1, <2>1, <2>2
  <2>3. CASE o = p /\ HasJoined(p) /\ ToSet(inbox'[p]) \subseteq ToSet(inbox[p]) /\ alarm'[p] = alarm[p]
    BY <2>1, <2>3 DEF HasJoined
  <2>4. CASE o = p /\ ErrorArrives(p)
    <3>1. Head(inbox[p]) = Error /\ Take1(p, "ERROR")
      BY <2>4, ErrorArrivesDoes
    <3>2. Error \in ToSet(inbox[p]) /\ outbox' = outbox
      BY <3>1, Take1Does DEF RoomInv
    <3> QED
      BY <2>1, <2>4, <3>2
  <2> QED
    BY <2>2, <2>3, <2>4
<1> QED
  BY <1>2, <1>3 DEF AlarmInv

LEMMA ReceiveKeepsAlarm ==
  ASSUME RoomInv, AlarmInv, NEW p \in Peer, Receive(p), trouble' = 0, trouble = 0
  PROVE  AlarmInv'
<1>1. ASSUME NEW type, Take1(p, type) PROVE client'[p] = "open" /\ ToSet(inbox'[p]) \subseteq ToSet(inbox[p])
  <2>1. client' = client /\ client[p] = "open" /\ ToSet(inbox[p]) = {Head(inbox[p])} \cup ToSet(inbox'[p])
    BY <1>1, Take1Does DEF RoomInv
  <2> QED
    BY <2>1
<1>2. CASE PeerJoined(p)
  <2>1. Moves(p) /\ Take1(p, "PEER_JOINED") /\ alarm' = alarm
    BY <1>2, PeerJoinedDoes
  <2>2. HasJoined(p)
    BY <2>1, NewsDoes DEF Relayed
  <2> QED
    BY <1>1, <2>1, <2>2, CalmClient
<1>3. CASE PeerLeft(p)
  <2>1. Moves(p) /\ Take1(p, "PEER_LEFT") /\ alarm' = alarm
    BY <1>3, PeerLeftDoes
  <2>2. HasJoined(p)
    BY <2>1, NewsDoes DEF Relayed
  <2> QED
    BY <1>1, <2>1, <2>2, CalmClient
<1>4. CASE OfferArrives(p)
  <2>1. Moves(p) /\ Take1(p, "OFFER") /\ alarm' = alarm
    BY <1>4, OfferArrivesDoes
  <2>2. HasJoined(p)
    BY <2>1, NewsDoes DEF Relayed
  <2> QED
    BY <1>1, <2>1, <2>2, CalmClient
<1>5. CASE AnswerArrives(p)
  <2>1. Moves(p) /\ Take1(p, "ANSWER") /\ alarm' = alarm
    BY <1>5, AnswerArrivesDoes
  <2>2. HasJoined(p)
    BY <2>1, NewsDoes DEF Relayed
  <2> QED
    BY <1>1, <2>1, <2>2, CalmClient
<1>6. CASE ErrorArrives(p)
  <2>1. Moves(p) /\ Take1(p, "ERROR")
    BY <1>6, ErrorArrivesDoes
  <2> QED
    BY <1>1, <1>6, <2>1, CalmClient
<1>7. CASE p \in Receivers /\ SessionJoined(p)
  <2>1. Moves(p) /\ Take1(p, "SESSION_JOINED") /\ alarm' = alarm /\ HasJoined(p)
    BY <1>7, SessionJoinedDoes
  <2> QED
    BY <1>1, <2>1, CalmClient
<1> QED
  BY <1>2, <1>3, <1>4, <1>5, <1>6, <1>7 DEF Receive

LEMMA NextKeepsAlarm ==
  ASSUME RoomInv, AlarmInv, Next
  PROVE  AlarmInv'
<1> SUFFICES ASSUME trouble' = 0 PROVE AlarmInv'
  BY DEF AlarmInv, Undisturbed, Alarms
<1>0. trouble = 0
  BY CalmSteps DEF AlarmInv
<1>a. \A o \in Peer : alarm[o] \/ Error \in ToSet(inbox[o]) => conn[o] = "attached" /\ outbox[o] = <<>> /\ Len(members) = MaxPeers
  BY <1>0 DEF AlarmInv, Alarms
<1>b. /\ room # "gone"
      /\ \A o \in Peer : client[o] # "gone" /\ conn[o] # "closed" /\ (conn[o] = "member" => o \in ToSet(members))
  BY <1>0 DEF AlarmInv, Undisturbed
<1>1. ASSUME NEW p \in Peer, Enter(p) PROVE AlarmInv'
  <2>1. /\ conn[p] = "none" /\ client' = [client EXCEPT ![p] = "open"] /\ conn' = [conn EXCEPT ![p] = "attached"]
        /\ outbox' = [outbox EXCEPT ![p] = <<Entry(p)>>]
        /\ UNCHANGED <<room, members, inbox, alarm>>
    BY <1>1, EnterDoes
  <2>2. /\ client'[p] = "open" /\ conn'[p] = "attached"
        /\ \A o \in Peer : o # p => client'[o] = client[o] /\ conn'[o] = conn[o] /\ outbox'[o] = outbox[o]
    BY <2>1 DEF RoomInv, Types
  <2>3. Undisturbed'
    BY <1>b, <2>1, <2>2 DEF Undisturbed
  <2>4. Alarms'
    BY <1>a, <2>1, <2>2 DEF Alarms
  <2> QED
    BY <2>3, <2>4 DEF AlarmInv
<1>2. ASSUME NEW p \in Peer, Opens(p) PROVE AlarmInv'
  <2>1. /\ p = Owner /\ conn[p] = "attached" /\ room = "none" /\ outbox[p] = <<Entry(p)>>
        /\ room' = "open" /\ members' = <<Owner>> /\ conn' = [conn EXCEPT ![p] = "member"]
        /\ UNCHANGED <<inbox, client, alarm>>
    BY <1>2 DEF Opens, peerVars
  <2>2. conn'[p] = "member" /\ \A o \in Peer : o # p => conn'[o] = conn[o]
    BY <2>1 DEF RoomInv, Types
  <2>3. \A o \in Peer : o # p => conn[o] = "none"
    BY <2>1, PeerNumbers DEF RoomInv, Session
  <2>4. ToSet(members') = {Owner}
    BY <2>1, ToSetSmall
  <2>5. Undisturbed'
    BY <1>b, <2>1, <2>2, <2>3, <2>4 DEF Undisturbed
  <2>6. \A o \in Peer : ~alarm[o] /\ Error \notin ToSet(inbox[o])
    BY <1>a, <2>1, <2>3
  <2>7. Alarms'
    BY <2>1, <2>6 DEF Alarms
  <2> QED
    BY <2>5, <2>7 DEF AlarmInv
<1>3. ASSUME NEW p \in Peer, Admits(p) PROVE AlarmInv'
  <2>1. /\ Len(members) < MaxPeers /\ room' = "open"
        /\ ToSet(members') = ToSet(members) \cup {p}
        /\ conn'[p] = "member" /\ (\A q \in Peer : q # p => conn'[q] = conn[q])
        /\ ToSet(inbox'[p]) = {Joined(members')}
        /\ UNCHANGED <<client, alarm>>
    BY <1>3, AdmitsDoes
  <2>2. \A q \in Peer : q # p => inbox'[q] = inbox[q] \/ ToSet(inbox'[q]) = ToSet(inbox[q]) \cup {News("PEER_JOINED", p)}
    BY <1>3, AdmitsDoes
  <2>3. \A o \in Peer : ~alarm[o] /\ Error \notin ToSet(inbox[o])
    <3>1. Len(members) # MaxPeers
      BY <2>1, RoomAssumption DEF RoomInv, Types
    <3> QED
      BY <1>a, <3>1
  <2>4. Error # Joined(members') /\ Error # News("PEER_JOINED", p)
    BY DEF Error, Joined, News
  <2>5. Alarms'
    BY <2>1, <2>2, <2>3, <2>4 DEF Alarms
  <2>6. Undisturbed'
    BY <1>b, <2>1 DEF Undisturbed
  <2> QED
    BY <2>5, <2>6 DEF AlarmInv
<1>4. ASSUME NEW p \in Peer, Refuses(p) PROVE AlarmInv'
  <2>1. /\ UNCHANGED <<room, members, conn, client, alarm>>
        /\ \A o \in Peer : o # p => outbox'[o] = outbox[o] /\ inbox'[o] = inbox[o]
        /\ conn[p] = "attached" => outbox'[p] = <<>>
    BY <1>4, RefusesDoes
  <2>2. conn[p] = "attached" /\ Len(members) = MaxPeers
    BY <1>0, <1>4, RefusedForRoom DEF AlarmInv
  <2> QED
    BY <1>a, <1>b, <2>1, <2>2 DEF AlarmInv, Alarms, Undisturbed
<1>5. ASSUME NEW p \in Peer, Receive(p) PROVE AlarmInv'
  BY <1>0, <1>5, ReceiveKeepsAlarm
<1>6. ASSUME NEW p \in Peer, NEW q \in Peer, OfferReady(p, q) \/ AnswerReady(p, q) PROVE AlarmInv'
  <2>1. Moves(p) /\ client[p] = "open" /\ HasJoined(p) /\ UNCHANGED <<inbox, client, alarm>>
    BY <1>6, OfferReadyDoes, AnswerReadyDoes
  <2> QED
    BY <1>0, <2>1, CalmClient
<1>7. ASSUME NEW p \in Peer, NEW q \in Peer, NEW type \in {"OFFER", "ANSWER"}, Relays(p, q, type) PROVE AlarmInv'
  <2>0. Passes(p, q, type)
    BY <1>7, RelaysDoes
  <2>1. /\ UNCHANGED <<room, members, conn, client, alarm>> /\ conn[p] = "member"
        /\ \A o \in Peer : o # p => outbox'[o] = outbox[o]
        /\ ToSet(inbox'[q]) = ToSet(inbox[q]) \cup {News(type, p)}
        /\ \A o \in Peer : o # q => inbox'[o] = inbox[o]
    BY <2>0 DEF Passes
  <2>2. Error # News(type, p)
    BY DEF Error, News
  <2>3. \A o \in Peer : Error \in ToSet(inbox'[o]) => Error \in ToSet(inbox[o])
    BY <2>1, <2>2
  <2> QED
    BY <1>a, <1>b, <2>1, <2>3 DEF AlarmInv, Alarms, Undisturbed
<1>8. ASSUME NEW p \in Receivers, EngineJoins(p) PROVE AlarmInv'
  <2>1. Moves(p) /\ client[p] = "open" /\ HasJoined(p) /\ UNCHANGED <<inbox, client, alarm>> /\ p \in Peer
    BY <1>8, EngineJoinsDoes, PeerNumbers
  <2> QED
    BY <1>0, <2>1, CalmClient
<1> QED
  BY <1>1, <1>2, <1>3, <1>4, <1>5, <1>6, <1>7, <1>8, CalmSteps DEF AlarmInv

-----------------------------------------------------------------------------
(* The mesh.                                                                *)

\* A receiver learns of the room before anything else, whatever is sent after that,
LEMMA LearnsGrow ==
  ASSUME Types, NEW r \in Receivers, LearnsAt(r), known'[r] = known[r],
         task[r].stage = "over" => task'[r].stage = "over", conn'[r] = "member" => conn[r] = "member",
         \/ inbox'[r] = inbox[r]
         \/ \E m \in Message : m.type # "SESSION_JOINED" /\ inbox'[r] = Append(inbox[r], m)
  PROVE  LearnsAt(r)'
<1>0. inbox[r] \in Seq(Message)
  BY PeerNumbers DEF Types
<1>1. CASE inbox'[r] = inbox[r]
  BY <1>1 DEF LearnsAt
<1>2. ASSUME NEW m \in Message, m.type # "SESSION_JOINED", inbox'[r] = Append(inbox[r], m)
      PROVE  LearnsAt(r)'
  <2> DEFINE s == inbox[r]
             t == Append(s, m)
  <2>1. /\ Len(t) = Len(s) + 1 /\ t # <<>> /\ (\A i \in 1..Len(s) : t[i] = s[i]) /\ t[Len(s) + 1] = m
        /\ s # <<>> => t[1] = s[1]
    BY <1>0, AppendAt
  <2>2. /\ \A i \in 1..Len(s) : s[i].type = "SESSION_JOINED" => i = 1 /\ ~known[r]
        /\ ~known[r] => task[r].stage = "over"
        /\ conn[r] = "member" /\ ~known[r] => s # <<>> /\ s[1].type = "SESSION_JOINED"
    BY DEF LearnsAt
  <2>3. Len(s) \in Nat
    BY <1>0
  <2>4. inbox'[r] = t
    BY <1>2
  <2> HIDE DEF s, t
  <2>5. ASSUME NEW i \in 1..Len(t), t[i].type = "SESSION_JOINED" PROVE i = 1 /\ ~known[r]
    <3>1. i \in 1..Len(s) \/ i = Len(s) + 1
      BY <2>1, <2>3
    <3> QED
      BY <1>2, <2>1, <2>2, <2>5, <3>1
  <2>6. conn[r] = "member" /\ ~known[r] => t # <<>> /\ t[1].type = "SESSION_JOINED"
    BY <2>1, <2>2
  <2> QED
    BY <2>2, <2>4, <2>5, <2>6 DEF LearnsAt
<1> QED
  BY <1>1, <1>2

\* and whatever it handles.
LEMMA LearnsTail ==
  ASSUME Types, NEW r \in Receivers, LearnsAt(r), inbox[r] # <<>>, inbox'[r] = Tail(inbox[r]), conn' = conn,
         \/ known'[r] = TRUE
         \/ /\ Head(inbox[r]).type # "SESSION_JOINED" /\ known'[r] = known[r]
            /\ task[r].stage = "over" => task'[r].stage = "over"
  PROVE  LearnsAt(r)'
<1> DEFINE s == inbox[r]
           t == Tail(s)
<1>0. s \in Seq(Message) /\ s # <<>>
  BY PeerNumbers DEF Types
<1>1. Head(s) = s[1] /\ Len(s) \in Nat /\ Len(s) >= 1 /\ Len(t) = Len(s) - 1 /\ (\A i \in 1..Len(s) - 1 : t[i] = s[i + 1])
  BY <1>0, TailAt
<1>2. /\ \A i \in 1..Len(s) : s[i].type = "SESSION_JOINED" => i = 1 /\ ~known[r]
      /\ ~known[r] => task[r].stage = "over"
      /\ conn[r] = "member" /\ ~known[r] => s # <<>> /\ s[1].type = "SESSION_JOINED"
  BY DEF LearnsAt
<1>3. inbox'[r] = t /\ (Head(inbox[r]).type = s[1].type)
  BY <1>1
<1> HIDE DEF s, t
<1>4. \A i \in 1..Len(t) : t[i].type # "SESSION_JOINED"
  <2> SUFFICES ASSUME NEW i \in 1..Len(t), t[i].type = "SESSION_JOINED" PROVE FALSE
    OBVIOUS
  <2>1. i \in 1..Len(s) - 1 /\ i + 1 \in 1..Len(s) /\ i + 1 # 1
    BY <1>1
  <2>2. s[i + 1].type = "SESSION_JOINED"
    BY <1>1, <2>1
  <2> QED
    BY <1>2, <2>1, <2>2
<1> QED
  BY <1>2, <1>3, <1>4 DEF LearnsAt

\* Handling a message: what p learns, and what it offers.
LEMMA ReceiveLearns ==
  ASSUME RoomInv, AlarmInv, LearnsFirst, trouble = 0, NEW p \in Peer, Receive(p), ~PeerLeft(p)
  PROVE  LearnsFirst'
<1>t. Types
  BY DEF RoomInv
<1>l. \A r \in Receivers : LearnsAt(r)
  BY DEF LearnsFirst
<1>1. ASSUME NEW type, Take1(p, type), Moves(p),
             p \in Receivers => \/ known'[p] = TRUE
                                \/ type # "SESSION_JOINED" /\ known' = known /\ task' = task
      PROVE  LearnsFirst'
  <2>1. /\ inbox[p] # <<>> /\ Head(inbox[p]).type = type /\ inbox'[p] = Tail(inbox[p]) /\ conn' = conn
        /\ \A o \in Peer : o # p => inbox'[o] = inbox[o]
    BY <1>t, <1>1, Take1Does
  <2>2. \A o \in Peer : o # p => known'[o] = known[o] /\ (o \in Receivers => task'[o] = task[o])
    BY <1>1 DEF Moves
  <2>3. ASSUME NEW r \in Receivers PROVE LearnsAt(r)'
    <3>1. CASE r # p
      <4>1. known'[r] = known[r] /\ task'[r] = task[r] /\ inbox'[r] = inbox[r] /\ conn'[r] = conn[r]
        BY <2>1, <2>2, <3>1, PeerNumbers
      <4> QED
        BY <1>t, <1>l, <4>1, LearnsGrow
    <3>2. CASE r = p
      <4>1. p \in Receivers /\ LearnsAt(p)
        BY <1>l, <3>2
      <4>2. \/ known'[p] = TRUE
            \/ /\ Head(inbox[p]).type # "SESSION_JOINED" /\ known'[p] = known[p]
               /\ task[p].stage = "over" => task'[p].stage = "over"
        BY <1>1, <2>1, <4>1
      <4>3. LearnsAt(p)'
        BY <1>t, <2>1, <4>1, <4>2, LearnsTail
      <4> QED
        BY <3>2, <4>3
    <3> QED
      BY <3>1, <3>2
  <2> QED
    BY <2>3 DEF LearnsFirst
<1>2. CASE PeerJoined(p)
  <2>1. Moves(p) /\ Take1(p, "PEER_JOINED") /\ UNCHANGED <<known, task>>
    BY <1>2, PeerJoinedDoes
  <2> QED
    BY <1>1, <2>1
<1>3. CASE OfferArrives(p)
  <2>1. Moves(p) /\ Take1(p, "OFFER") /\ UNCHANGED <<known, task>>
    BY <1>3, OfferArrivesDoes
  <2> QED
    BY <1>1, <2>1
<1>4. CASE AnswerArrives(p)
  <2>1. Moves(p) /\ Take1(p, "ANSWER") /\ UNCHANGED <<known, task>>
    BY <1>4, AnswerArrivesDoes
  <2> QED
    BY <1>1, <2>1
<1>5. CASE ErrorArrives(p)
  <2>1. Moves(p) /\ Take1(p, "ERROR") /\ UNCHANGED <<known, task>>
    BY <1>5, ErrorArrivesDoes
  <2> QED
    BY <1>1, <2>1
<1>6. CASE p \in Receivers /\ SessionJoined(p)
  <2>1. Moves(p) /\ Take1(p, "SESSION_JOINED") /\ known'[p] = TRUE
    BY <1>6, SessionJoinedDoes
  <2> QED
    BY <1>1, <2>1
<1> QED
  BY <1>2, <1>3, <1>4, <1>5, <1>6 DEF Receive

LEMMA NextKeepsLearns ==
  ASSUME RoomInv, AlarmInv, LearnsFirst, Next
  PROVE  LearnsFirst'
<1> SUFFICES ASSUME trouble' = 0 PROVE LearnsFirst'
  BY DEF LearnsFirst
<1>0. trouble = 0
  BY CalmSteps DEF AlarmInv
<1>t. Types
  BY DEF RoomInv
<1>l. \A r \in Receivers : LearnsAt(r) /\ r \in Peer
  BY <1>0, PeerNumbers DEF LearnsFirst
<1>a. ASSUME \A r \in Receivers :
               \/ LearnsAt(r)'
               \/ /\ known'[r] = known[r] /\ (task[r].stage = "over" => task'[r].stage = "over")
                  /\ conn'[r] = "member" => conn[r] = "member"
                  /\ \/ inbox'[r] = inbox[r]
                     \/ \E m \in Message : m.type # "SESSION_JOINED" /\ inbox'[r] = Append(inbox[r], m)
      PROVE  LearnsFirst'
  BY <1>t, <1>l, <1>a, LearnsGrow DEF LearnsFirst
<1>1. ASSUME NEW p \in Peer, Enter(p) PROVE LearnsFirst'
  <2>1. conn' = [conn EXCEPT ![p] = "attached"] /\ UNCHANGED <<inbox, known, task>>
    BY <1>1, EnterDoes
  <2>2. \A r \in Receivers : conn'[r] = "member" => conn[r] = "member"
    BY <1>t, <1>l, <2>1 DEF Types
  <2> QED
    BY <1>a, <2>1, <2>2
<1>2. ASSUME NEW p \in Peer, Opens(p) PROVE LearnsFirst'
  <2>1. p = Owner /\ conn' = [conn EXCEPT ![p] = "member"] /\ UNCHANGED <<inbox, known, task>>
    BY <1>2 DEF Opens, peerVars
  <2>2. \A r \in Receivers : conn'[r] = "member" => conn[r] = "member"
    BY <1>t, <1>l, <2>1, PeerNumbers DEF Types
  <2> QED
    BY <1>a, <2>1, <2>2
<1>3. ASSUME NEW p \in Peer, Admits(p) PROVE LearnsFirst'
  <2>1. /\ conn[p] = "attached" /\ p \in Receivers /\ UNCHANGED <<known, task>>
        /\ inbox'[p] = <<Joined(members')>> /\ (\A q \in Peer : q # p => conn'[q] = conn[q])
        /\ \A q \in Peer : q # p => inbox'[q] = inbox[q] \/ inbox'[q] = Append(inbox[q], News("PEER_JOINED", p))
    BY <1>3, AdmitsDoes
  <2>2. ~known[p] /\ task[p].stage = "over"
    BY <2>1 DEF RoomInv, Entering
  <2>3. LearnsAt(p)'
    <3>1. /\ Len(<<Joined(members')>>) = 1 /\ <<Joined(members')>> # <<>>
          /\ <<Joined(members')>>[1].type = "SESSION_JOINED"
      BY DEF Joined
    <3>2. \A i \in 1..1 : i = 1
      OBVIOUS
    <3> QED
      BY <2>1, <2>2, <3>1, <3>2 DEF LearnsAt
  <2>4. News("PEER_JOINED", p) \in Message /\ News("PEER_JOINED", p).type # "SESSION_JOINED"
    BY NewMessages DEF Relayed, News
  <2>5. ASSUME NEW r \in Receivers, r # p
        PROVE  /\ known'[r] = known[r] /\ (task[r].stage = "over" => task'[r].stage = "over")
               /\ conn'[r] = "member" => conn[r] = "member"
               /\ \/ inbox'[r] = inbox[r]
                  \/ \E m \in Message : m.type # "SESSION_JOINED" /\ inbox'[r] = Append(inbox[r], m)
    <3>1. r \in Peer
      BY <1>l
    <3> QED
      BY <2>1, <2>4, <2>5, <3>1
  <2> QED
    BY <1>a, <2>3, <2>5
<1>4. ASSUME NEW p \in Peer, Refuses(p) PROVE LearnsFirst'
  <2>1. /\ UNCHANGED <<conn, known, task>> /\ inbox'[p] = Append(inbox[p], Error)
        /\ \A o \in Peer : o # p => inbox'[o] = inbox[o]
    BY <1>4, RefusesDoes
  <2>2. Error \in Message /\ Error.type # "SESSION_JOINED"
    BY NewMessages
  <2>3. \A r \in Receivers : \/ inbox'[r] = inbox[r]
                             \/ \E m \in Message : m.type # "SESSION_JOINED" /\ inbox'[r] = Append(inbox[r], m)
    BY <1>l, <2>1, <2>2
  <2> QED
    BY <1>a, <2>1, <2>3
<1>5. ASSUME NEW p \in Peer, Receive(p), ~PeerLeft(p) PROVE LearnsFirst'
  BY <1>0, <1>5, ReceiveLearns
<1>6. ASSUME NEW p \in Peer, NEW q \in Peer, OfferReady(p, q) PROVE LearnsFirst'
  <2>1. /\ Moves(p) /\ UNCHANGED <<inbox, known>> /\ (p \in Receivers /\ task[p].stage = "over" => task'[p].stage = "over")
    BY <1>6, OfferReadyDoes
  <2>2. conn' = conn /\ \A o \in Peer : o # p => (o \in Receivers => task'[o] = task[o])
    BY <2>1 DEF Moves
  <2> QED
    BY <1>a, <1>l, <2>1, <2>2
<1>7. ASSUME NEW p \in Peer, NEW q \in Peer, AnswerReady(p, q) PROVE LearnsFirst'
  <2>1. UNCHANGED <<inbox, known, task, conn>>
    BY <1>7, AnswerReadyDoes DEF Moves
  <2> QED
    BY <1>a, <2>1
<1>8. ASSUME NEW p \in Peer, NEW q \in Peer, NEW type \in {"OFFER", "ANSWER"}, Relays(p, q, type) PROVE LearnsFirst'
  <2>0. Passes(p, q, type)
    BY <1>8, RelaysDoes
  <2>1. /\ UNCHANGED <<conn, known, task>> /\ inbox'[q] = Append(inbox[q], News(type, p)) /\ News(type, p) \in Message
        /\ \A o \in Peer : o # q => inbox'[o] = inbox[o]
    BY <2>0 DEF Passes
  <2>2. News(type, p).type # "SESSION_JOINED"
    BY DEF News
  <2>3. \A r \in Receivers : \/ inbox'[r] = inbox[r]
                             \/ \E m \in Message : m.type # "SESSION_JOINED" /\ inbox'[r] = Append(inbox[r], m)
    BY <1>l, <2>1, <2>2
  <2> QED
    BY <1>a, <2>1, <2>3
<1>9. ASSUME NEW p \in Receivers, EngineJoins(p) PROVE LearnsFirst'
  <2>1. Moves(p) /\ UNCHANGED <<inbox, known>> /\ task[p].stage = "engine" /\ p \in Peer
    BY <1>9, EngineJoinsDoes, PeerNumbers
  <2>2. conn' = conn /\ \A o \in Peer : o # p => (o \in Receivers => task'[o] = task[o])
    BY <2>1 DEF Moves
  <2> QED
    BY <1>a, <1>l, <2>1, <2>2
<1> QED
  BY <1>1, <1>2, <1>3, <1>4, <1>5, <1>6, <1>7, <1>8, <1>9, CalmSteps DEF AlarmInv

\* An offer that is promised stays promised until it is made.
KeepsPromises ==
  \A p, q \in Peer : Dir(q, p) /\ conn'[q] = "member" /\ conn'[p] = "member" /\ link'[q][p] = "none" =>
    \/ Promised(q, p)'
    \/ /\ conn[q] = "member" /\ conn[p] = "member" /\ link[q][p] = "none"
       /\ Promised(q, p) => Promised(q, p)'

LEMMA PromisesKept ==
  ASSUME OffersFollow, trouble = 0, KeepsPromises
  PROVE  OffersFollow'
BY DEF OffersFollow, KeepsPromises

\* A client's step: every promise of its own that it does not keep it makes anew.
LEMMA ClientPromises ==
  ASSUME NEW p \in Peer, Moves(p),
         \A o \in Peer : Dir(p, o) /\ conn[p] = "member" /\ link'[p][o] = "none" =>
           link[p][o] = "none" /\ (Promised(p, o) => Promised(p, o)')
  PROVE  KeepsPromises
<1>1. conn' = conn
  BY DEF Moves
<1> SUFFICES ASSUME NEW a \in Peer, NEW b \in Peer, Dir(b, a), conn[b] = "member", conn[a] = "member", link'[b][a] = "none"
             PROVE  link[b][a] = "none" /\ (Promised(b, a) => Promised(b, a)')
  BY <1>1 DEF KeepsPromises
<1>2. CASE b = p
  BY <1>2
<1>3. CASE b # p
  <2>1. b \in Receivers
    BY DEF Dir
  <2>2. inbox'[b] = inbox[b] /\ task'[b] = task[b] /\ link'[b] = link[b]
    BY <1>3, <2>1 DEF Moves
  <2> QED
    BY <2>2 DEF Promised
<1> QED
  BY <1>2, <1>3

\* Handling a message that promises nothing.
LEMMA ReceivePromises ==
  ASSUME Types, NEW p \in Peer, NEW type \in {"OFFER", "ANSWER", "ERROR"}, Take1(p, type), Moves(p), task' = task,
         \A o \in Peer : link'[p][o] = "none" => link[p][o] = "none"
  PROVE  KeepsPromises
<1>1. ToSet(inbox[p]) = {Head(inbox[p])} \cup ToSet(inbox'[p]) /\ Head(inbox[p]).type = type
  BY Take1Does
<1>2. \A m : m.type \in {"SESSION_JOINED", "PEER_JOINED"} /\ m \in ToSet(inbox[p]) => m \in ToSet(inbox'[p])
  BY <1>1
<1>3. \A o : News("PEER_JOINED", o).type = "PEER_JOINED"
  BY DEF News
<1>4. \A o \in Peer : Promised(p, o) => Promised(p, o)'
  BY <1>2, <1>3 DEF Promised
<1> QED
  BY <1>4, ClientPromises

LEMMA PeerJoinedPromises ==
  ASSUME RoomInv, LearnsFirst, trouble = 0, NEW p \in Peer, PeerJoined(p)
  PROVE  KeepsPromises
<1> DEFINE h == Head(inbox[p]).from
<1>1. /\ Moves(p) /\ Take1(p, "PEER_JOINED") /\ UNCHANGED <<known, task>>
      /\ \A o \in Peer : o # h => link'[p][o] = link[p][o]
      /\ link'[p][h] = IF p # Owner /\ p < h /\ known[p] /\ link[p][h] = "none" THEN "offering" ELSE link[p][h]
  BY PeerJoinedDoes
<1>2. h \in Peer /\ Head(inbox[p]) = News("PEER_JOINED", h) /\ News("PEER_JOINED", h) \in ToSet(inbox[p])
  BY <1>1, NewsDoes DEF Relayed
<1>3. ToSet(inbox[p]) = {Head(inbox[p])} \cup ToSet(inbox'[p]) /\ inbox[p] # <<>> /\ inbox[p] \in Seq(Message)
  BY <1>1, Take1Does DEF RoomInv
<1> HIDE DEF h
<1>4. h \in Receivers
  BY <1>2 DEF RoomInv, NewsIsTrue, News
<1>5. ASSUME NEW o \in Peer, o # h, Promised(p, o) PROVE Promised(p, o)'
  <2>1. \A m \in ToSet(inbox[p]) : m.type = "SESSION_JOINED" \/ m = News("PEER_JOINED", o) => m \in ToSet(inbox'[p])
    BY <1>2, <1>3, <1>5 DEF News
  <2> QED
    BY <1>1, <1>5, <2>1 DEF Promised
<1>6. ASSUME Dir(p, h), conn[p] = "member" PROVE link'[p][h] # "none"
  <2>1. p \in Receivers /\ p # Owner /\ p < h
    BY <1>4, <1>6, PeerNumbers DEF Dir
  <2>2. known[p]
    <3>1. ~known[p] => inbox[p][1].type = "SESSION_JOINED"
      BY <1>6, <2>1 DEF LearnsFirst, LearnsAt
    <3>2. inbox[p][1].type = "PEER_JOINED"
      BY <1>2, <1>3 DEF News
    <3> QED
      BY <3>1, <3>2
  <2> QED
    BY <1>1, <2>1, <2>2
<1>7. \A o \in Peer : Dir(p, o) /\ conn[p] = "member" /\ link'[p][o] = "none" =>
           link[p][o] = "none" /\ (Promised(p, o) => Promised(p, o)')
  BY <1>1, <1>5, <1>6
<1> QED
  BY <1>1, <1>7, ClientPromises

LEMMA SessionJoinedPromises ==
  ASSUME RoomInv, LearnsFirst, trouble = 0, NEW p \in Receivers, SessionJoined(p)
  PROVE  KeepsPromises
<1> DEFINE list == Head(inbox[p]).peers
<1>1. /\ Moves(p) /\ Take1(p, "SESSION_JOINED") /\ UNCHANGED link /\ Head(inbox[p]) = Joined(list)
      /\ task'[p].stage = "engine" /\ ToSet(task'[p].todo) = ToSet(list) /\ p \in Peer
  BY SessionJoinedDoes, PeerNumbers
<1>2. /\ ToSet(inbox[p]) = {Head(inbox[p])} \cup ToSet(inbox'[p]) /\ inbox[p] # <<>> /\ inbox[p] \in Seq(Message)
  BY <1>1, Take1Does DEF RoomInv
<1>3. task[p].stage = "over"
  <2>1. inbox[p][1].type = "SESSION_JOINED" /\ 1 \in 1..Len(inbox[p])
    BY <1>1, <1>2, TailAt DEF Joined
  <2> QED
    BY <2>1 DEF LearnsFirst, LearnsAt
<1> HIDE DEF list
<1>4. Joined(list).peers = list /\ \A o : News("PEER_JOINED", o) # Joined(list)
  BY DEF Joined, News
<1>5. ASSUME NEW o \in Peer, Promised(p, o) PROVE Promised(p, o)'
  <2>1. CASE News("PEER_JOINED", o) \in ToSet(inbox[p])
    <3>1. News("PEER_JOINED", o) \in ToSet(inbox'[p])
      BY <1>1, <1>2, <1>4, <2>1
    <3> QED
      BY <3>1 DEF Promised
  <2>2. ASSUME NEW m \in ToSet(inbox[p]), m.type = "SESSION_JOINED", o \in ToSet(m.peers) PROVE Promised(p, o)'
    <3>1. CASE m = Head(inbox[p])
      <4>1. task'[p].stage # "over" /\ o \in ToSet(task'[p].todo)
        BY <1>1, <1>4, <2>2, <3>1
      <4> QED
        BY <4>1 DEF Promised
    <3>2. CASE m \in ToSet(inbox'[p])
      BY <2>2, <3>2 DEF Promised
    <3> QED
      BY <1>2, <3>1, <3>2
  <2> QED
    BY <1>3, <1>5, <2>1, <2>2 DEF Promised
<1> QED
  BY <1>1, <1>5, ClientPromises

LEMMA EngineJoinsPromises ==
  ASSUME RoomInv, NEW p \in Receivers, EngineJoins(p)
  PROVE  KeepsPromises
<1>1. /\ Moves(p) /\ inbox' = inbox /\ p \in Peer
      /\ \A o \in Peer : link'[p][o] = link[p][o] \/ OffersFrom(p, o)
      /\ \A o \in ToSet(task[p].todo) : Dir(p, o) /\ link[p][o] = "none" =>
           o \in ToSet(task'[p].todo) /\ task'[p].stage # "over"
  BY EngineJoinsDoes, PeerNumbers
<1>2. \A o \in Peer : link'[p][o] = "none" => link[p][o] = "none"
  BY <1>1 DEF OffersFrom
<1>3. \A o \in Peer : Dir(p, o) /\ link[p][o] = "none" /\ Promised(p, o) => Promised(p, o)'
  BY <1>1 DEF Promised
<1> QED
  BY <1>1, <1>2, <1>3, ClientPromises

LEMMA OfferReadyPromises ==
  ASSUME RoomInv, NEW p \in Peer, NEW q \in Peer, OfferReady(p, q)
  PROVE  KeepsPromises
<1>1. /\ Moves(p) /\ inbox' = inbox /\ link'[p][q] = "offered"
      /\ \A o \in Peer : o # q => link'[p][o] = link[p][o] \/ (p \in Receivers /\ OffersFrom(p, o))
  BY OfferReadyDoes
<1>2. p \in Receivers => \A o \in ToSet(task[p].todo) :
        task[p].stage # "over" /\ o # q /\ Dir(p, o) /\ link[p][o] = "none" =>
          o \in ToSet(task'[p].todo) /\ task'[p].stage # "over"
  BY OfferReadyDoes
<1>3. \A o \in Peer : link'[p][o] = "none" => o # q /\ link[p][o] = "none"
  BY <1>1 DEF OffersFrom
<1>4. \A o \in Peer : o # q /\ Dir(p, o) /\ link[p][o] = "none" /\ Promised(p, o) => Promised(p, o)'
  BY <1>1, <1>2 DEF Promised, Dir
<1> QED
  BY <1>1, <1>3, <1>4, ClientPromises

LEMMA AnswerReadyPromises ==
  ASSUME RoomInv, NEW p \in Peer, NEW q \in Peer, AnswerReady(p, q)
  PROVE  KeepsPromises
<1>1. /\ Moves(p) /\ UNCHANGED <<inbox, task>> /\ link'[p][q] = "connected"
      /\ \A o \in Peer : o # q => link'[p][o] = link[p][o]
  BY AnswerReadyDoes
<1>2. \A o \in Peer : link'[p][o] = "none" => link[p][o] = "none"
  BY <1>1
<1>3. \A o \in Peer : Promised(p, o) => Promised(p, o)'
  BY <1>1 DEF Promised
<1> QED
  BY <1>1, <1>2, <1>3, ClientPromises

LEMMA ReceiveKeepsPromises ==
  ASSUME RoomInv, LearnsFirst, trouble = 0, NEW p \in Peer, Receive(p), ~PeerLeft(p)
  PROVE  KeepsPromises
<1>t. Types
  BY DEF RoomInv
<1>1. CASE PeerJoined(p)
  BY <1>1, PeerJoinedPromises
<1>2. CASE OfferArrives(p)
  <2> DEFINE h == Head(inbox[p]).from
  <2>1. /\ Moves(p) /\ Take1(p, "OFFER") /\ task' = task /\ link'[p][h] = "answering"
        /\ \A o \in Peer : o # h => link'[p][o] = link[p][o]
    BY <1>2, OfferArrivesDoes
  <2> HIDE DEF h
  <2>2. \A o \in Peer : link'[p][o] = "none" => link[p][o] = "none"
    BY <2>1
  <2> QED
    BY <1>t, <2>1, <2>2, ReceivePromises
<1>3. CASE AnswerArrives(p)
  <2> DEFINE h == Head(inbox[p]).from
  <2>1. /\ Moves(p) /\ Take1(p, "ANSWER") /\ task' = task /\ (link'[p][h] = IF link[p][h] = "none" THEN "none" ELSE "connected")
        /\ \A o \in Peer : o # h => link'[p][o] = link[p][o]
    BY <1>3, AnswerArrivesDoes
  <2> HIDE DEF h
  <2>2. \A o \in Peer : link'[p][o] = "none" => link[p][o] = "none"
    BY <2>1
  <2> QED
    BY <1>t, <2>1, <2>2, ReceivePromises
<1>4. CASE ErrorArrives(p)
  <2>1. Moves(p) /\ Take1(p, "ERROR") /\ UNCHANGED <<task, link>>
    BY <1>4, ErrorArrivesDoes
  <2> QED
    BY <1>t, <2>1, ReceivePromises
<1>5. CASE p \in Receivers /\ SessionJoined(p)
  BY <1>5, SessionJoinedPromises
<1> QED
  BY <1>1, <1>2, <1>3, <1>4, <1>5 DEF Receive

\* The server's steps: what is in an inbox stays there.
LEMMA ServerPromises ==
  ASSUME UNCHANGED <<link, task>>, \A a \in Peer : ToSet(inbox[a]) \subseteq ToSet(inbox'[a]),
         \A a \in Peer : conn'[a] = "member" => conn[a] = "member"
  PROVE  KeepsPromises
BY DEF KeepsPromises, Promised

LEMMA NextKeepsPromises ==
  ASSUME RoomInv, AlarmInv, LearnsFirst, OffersFollow, Next
  PROVE  OffersFollow'
<1> SUFFICES ASSUME trouble' = 0 PROVE OffersFollow'
  BY DEF OffersFollow
<1>0. trouble = 0
  BY CalmSteps DEF AlarmInv
<1> SUFFICES KeepsPromises
  BY <1>0, PromisesKept
<1>t. Types
  BY DEF RoomInv
<1>1. ASSUME NEW p \in Peer, Enter(p) PROVE KeepsPromises
  <2>1. conn' = [conn EXCEPT ![p] = "attached"] /\ UNCHANGED <<inbox, link, task>>
    BY <1>1, EnterDoes
  <2>2. \A a \in Peer : conn'[a] = "member" => conn[a] = "member"
    BY <1>t, <2>1 DEF Types
  <2> QED
    BY <2>1, <2>2, ServerPromises
<1>2. ASSUME NEW p \in Peer, Opens(p) PROVE KeepsPromises
  <2>1. p = Owner /\ room = "none" /\ conn' = [conn EXCEPT ![p] = "member"]
    BY <1>2 DEF Opens
  <2>2. \A r \in Receivers : conn'[r] = "none"
    <3>1. \A r \in Receivers : conn[r] = "none" /\ r \in Peer /\ r # Owner
      BY <2>1, PeerNumbers DEF RoomInv, Session
    <3> QED
      BY <1>t, <2>1, <3>1 DEF Types
  <2> QED
    BY <2>2 DEF KeepsPromises, Dir
<1>3. ASSUME NEW p \in Peer, Admits(p) PROVE KeepsPromises
  <2>1. /\ ToSet(members') = ToSet(members) \cup {p}
        /\ conn'[p] = "member" /\ (\A q \in Peer : q # p => conn'[q] = conn[q])
        /\ ToSet(inbox'[p]) = {Joined(members')}
        /\ UNCHANGED <<link, task>>
    BY <1>3, AdmitsDoes
  <2>2. \A q \in Peer : q # p =>
              \/ conn[q] # "member" /\ inbox'[q] = inbox[q]
              \/ ToSet(inbox'[q]) = ToSet(inbox[q]) \cup {News("PEER_JOINED", p)}
    BY <1>3, AdmitsDoes
  <2> SUFFICES ASSUME NEW a \in Peer, NEW b \in Peer, Dir(b, a), conn'[b] = "member", conn'[a] = "member", link'[b][a] = "none"
               PROVE  \/ Promised(b, a)'
                      \/ /\ conn[b] = "member" /\ conn[a] = "member" /\ link[b][a] = "none"
                         /\ Promised(b, a) => Promised(b, a)'
    BY DEF KeepsPromises
  <2>3. a # b
    BY Directions
  <2>4. CASE b = p
    <3>1. a \in ToSet(members)
      BY <1>0, <2>1, <2>3, <2>4 DEF AlarmInv, Undisturbed
    <3>2. Joined(members').type = "SESSION_JOINED" /\ Joined(members').peers = members'
      BY DEF Joined
    <3> QED
      BY <2>1, <2>4, <3>1, <3>2 DEF Promised
  <2>5. CASE b # p /\ a = p
    BY <2>1, <2>2, <2>5 DEF Promised
  <2>6. CASE b # p /\ a # p
    <3>1. ToSet(inbox[b]) \subseteq ToSet(inbox'[b])
      BY <2>2, <2>6
    <3> QED
      BY <2>1, <2>6, <3>1 DEF Promised
  <2> QED
    BY <2>4, <2>5, <2>6
<1>4. ASSUME NEW p \in Peer, Refuses(p) PROVE KeepsPromises
  <2>1. /\ UNCHANGED <<conn, link, task>> /\ ToSet(inbox'[p]) = ToSet(inbox[p]) \cup {Error}
        /\ \A o \in Peer : o # p => inbox'[o] = inbox[o]
    BY <1>4, RefusesDoes
  <2>2. \A a \in Peer : ToSet(inbox[a]) \subseteq ToSet(inbox'[a])
    BY <2>1
  <2> QED
    BY <2>1, <2>2, ServerPromises
<1>5. ASSUME NEW p \in Peer, Receive(p), ~PeerLeft(p) PROVE KeepsPromises
  BY <1>0, <1>5, ReceiveKeepsPromises
<1>6. ASSUME NEW p \in Peer, NEW q \in Peer, NEW type \in {"OFFER", "ANSWER"}, Relays(p, q, type) PROVE KeepsPromises
  <2>0. Passes(p, q, type)
    BY <1>6, RelaysDoes
  <2>1. /\ UNCHANGED <<conn, link, task>> /\ ToSet(inbox'[q]) = ToSet(inbox[q]) \cup {News(type, p)}
        /\ \A o \in Peer : o # q => inbox'[o] = inbox[o]
    BY <2>0 DEF Passes
  <2>2. \A a \in Peer : ToSet(inbox[a]) \subseteq ToSet(inbox'[a])
    BY <2>1
  <2> QED
    BY <2>1, <2>2, ServerPromises
<1> QED
  BY <1>1, <1>2, <1>3, <1>4, <1>5, <1>6, EngineJoinsPromises, OfferReadyPromises, AnswerReadyPromises, CalmSteps DEF AlarmInv

\* What a client's step may do to an offer of its own, and to one made to it.
Follows(p) ==
  /\ Moves(p)
  /\ \A o \in Peer : Dir(p, o) =>
       /\ link'[p][o] = "offered" =>
            \/ Offer(o) \in ToSet(outbox'[p])
            \/ /\ link[p][o] = "offered"
               /\ News("ANSWER", o) \in ToSet(inbox[p]) => News("ANSWER", o) \in ToSet(inbox'[p])
       /\ link'[p][o] = "connected" => link[p][o] = "connected" \/ News("ANSWER", o) \in ToSet(inbox[p])
       /\ News("ANSWER", o) \in ToSet(inbox'[p]) => News("ANSWER", o) \in ToSet(inbox[p])
       /\ Offer(o) \in ToSet(outbox[p]) => Offer(o) \in ToSet(outbox'[p])
  /\ \A o \in Peer : Dir(o, p) =>
       /\ News("OFFER", o) \in ToSet(inbox[p]) => News("OFFER", o) \in ToSet(inbox'[p]) \/ link'[p][o] = "answering"
       /\ link[p][o] = "answering" => link'[p][o] = "answering" \/ Answer(o) \in ToSet(outbox'[p])
       /\ link[p][o] = "connected" => link'[p][o] = "connected"
       /\ Answer(o) \in ToSet(outbox'[p]) => Answer(o) \in ToSet(outbox[p]) \/ link'[p][o] = "connected"
       /\ Answer(o) \in ToSet(outbox[p]) => Answer(o) \in ToSet(outbox'[p])

LEMMA FollowsKeeps ==
  ASSUME AnswersFollow, trouble = 0, NEW p \in Peer, Follows(p)
  PROVE  AnswersFollow'
<1> SUFFICES ASSUME NEW a \in Peer, NEW b \in Peer, Dir(b, a) PROVE AnswersAt(b, a)'
  BY DEF AnswersFollow
<1>1. AnswersAt(b, a)
  BY DEF AnswersFollow
<1>2. a # b
  BY Directions
<1>3. \A o \in Peer : o # p => inbox'[o] = inbox[o] /\ outbox'[o] = outbox[o] /\ link'[o] = link[o]
  BY DEF Follows, Moves
<1>4. CASE a # p /\ b # p
  <2>1. /\ inbox'[a] = inbox[a] /\ outbox'[a] = outbox[a] /\ link'[a] = link[a]
        /\ inbox'[b] = inbox[b] /\ outbox'[b] = outbox[b] /\ link'[b] = link[b]
    BY <1>3, <1>4
  <2> QED
    BY <1>1, <2>1 DEF AnswersAt
<1>5. CASE b = p
  <2>1. inbox'[a] = inbox[a] /\ outbox'[a] = outbox[a] /\ link'[a] = link[a]
    BY <1>2, <1>3, <1>5
  <2>2. /\ link'[b][a] = "offered" =>
             \/ Offer(a) \in ToSet(outbox'[b])
             \/ /\ link[b][a] = "offered"
                /\ News("ANSWER", a) \in ToSet(inbox[b]) => News("ANSWER", a) \in ToSet(inbox'[b])
        /\ link'[b][a] = "connected" => link[b][a] = "connected" \/ News("ANSWER", a) \in ToSet(inbox[b])
        /\ News("ANSWER", a) \in ToSet(inbox'[b]) => News("ANSWER", a) \in ToSet(inbox[b])
        /\ Offer(a) \in ToSet(outbox[b]) => Offer(a) \in ToSet(outbox'[b])
    BY <1>5 DEF Follows
  <2> QED
    BY <1>1, <2>1, <2>2 DEF AnswersAt
<1>6. CASE a = p
  <2>1. inbox'[b] = inbox[b] /\ outbox'[b] = outbox[b] /\ link'[b] = link[b]
    BY <1>2, <1>3, <1>6
  <2>2. /\ News("OFFER", b) \in ToSet(inbox[a]) => News("OFFER", b) \in ToSet(inbox'[a]) \/ link'[a][b] = "answering"
        /\ link[a][b] = "answering" => link'[a][b] = "answering" \/ Answer(b) \in ToSet(outbox'[a])
        /\ link[a][b] = "connected" => link'[a][b] = "connected"
        /\ Answer(b) \in ToSet(outbox'[a]) => Answer(b) \in ToSet(outbox[a]) \/ link'[a][b] = "connected"
        /\ Answer(b) \in ToSet(outbox[a]) => Answer(b) \in ToSet(outbox'[a])
    BY <1>6 DEF Follows
  <2> QED
    BY <1>1, <2>1, <2>2 DEF AnswersAt
<1> QED
  BY <1>4, <1>5, <1>6

\* Handling a message: an offer is answered, an answer connects, and nothing else changes.
LEMMA ReceiveFollows ==
  ASSUME RoomInv, OfferInv, NEW p \in Peer, Receive(p), ~PeerLeft(p)
  PROVE  Follows(p)
<1>t. Types
  BY DEF RoomInv
<1>d. \A o \in Peer : News("ANSWER", o) \in ToSet(inbox[p]) => Dir(p, o)
  BY DEF OfferInv, Directed
<1>a. ASSUME NEW type, Take1(p, type)
      PROVE  /\ outbox' = outbox /\ ToSet(inbox'[p]) \subseteq ToSet(inbox[p])
             /\ \A m : m \in ToSet(inbox[p]) => m \in ToSet(inbox'[p]) \/ m = Head(inbox[p])
             /\ Head(inbox[p]).type = type
  BY <1>t, <1>a, Take1Does
<1>n. \A t, o : News(t, o).type = t /\ News(t, o).from = o
  BY DEF News
<1>1. ASSUME NEW type, type \notin {"OFFER", "ANSWER"}, Take1(p, type), Moves(p),
             \A o \in Peer : link'[p][o] # link[p][o] => link[p][o] = "none" /\ link'[p][o] = "offering"
      PROVE  Follows(p)
  <2>1. /\ outbox' = outbox /\ ToSet(inbox'[p]) \subseteq ToSet(inbox[p])
        /\ \A t \in {"OFFER", "ANSWER"}, o \in Peer : News(t, o) \in ToSet(inbox[p]) => News(t, o) \in ToSet(inbox'[p])
    BY <1>1, <1>a, <1>n
  <2> QED
    BY <1>1, <2>1 DEF Follows
<1>2. CASE PeerJoined(p)
  <2> DEFINE h == Head(inbox[p]).from
  <2>1. /\ Moves(p) /\ Take1(p, "PEER_JOINED")
        /\ \A o \in Peer : o # h => link'[p][o] = link[p][o]
        /\ link'[p][h] = IF p # Owner /\ p < h /\ known[p] /\ link[p][h] = "none" THEN "offering" ELSE link[p][h]
    BY <1>2, PeerJoinedDoes
  <2> HIDE DEF h
  <2>2. \A o \in Peer : link'[p][o] # link[p][o] => link[p][o] = "none" /\ link'[p][o] = "offering"
    BY <2>1
  <2> QED
    BY <1>1, <2>1, <2>2
<1>3. CASE OfferArrives(p)
  <2> DEFINE h == Head(inbox[p]).from
  <2>1. /\ Moves(p) /\ Take1(p, "OFFER") /\ link'[p][h] = "answering"
        /\ \A o \in Peer : o # h => link'[p][o] = link[p][o]
    BY <1>3, OfferArrivesDoes
  <2>2. h \in Peer /\ Head(inbox[p]) = News("OFFER", h) /\ News("OFFER", h) \in ToSet(inbox[p])
    BY <2>1, NewsDoes DEF Relayed
  <2> HIDE DEF h
  <2>3. Dir(h, p) /\ ~Dir(p, h) /\ link[p][h] = "none"
    BY <2>2, Directions DEF OfferInv, Directed, OfferOnce
  <2>4. outbox' = outbox /\ ToSet(inbox'[p]) \subseteq ToSet(inbox[p])
    BY <1>a, <2>1
  <2>5. \A o \in Peer : News("ANSWER", o) \in ToSet(inbox[p]) => News("ANSWER", o) \in ToSet(inbox'[p])
    BY <1>a, <1>n, <2>1
  <2>6. \A o \in Peer : o # h /\ News("OFFER", o) \in ToSet(inbox[p]) => News("OFFER", o) \in ToSet(inbox'[p])
    BY <1>a, <1>n, <2>1, <2>2
  <2>7. \A o \in Peer : Dir(p, o) => o # h
    BY <2>3
  <2> QED
    BY <2>1, <2>3, <2>4, <2>5, <2>6, <2>7 DEF Follows
<1>4. CASE AnswerArrives(p)
  <2> DEFINE h == Head(inbox[p]).from
  <2>1. /\ Moves(p) /\ Take1(p, "ANSWER")
        /\ \A o \in Peer : o # h => link'[p][o] = link[p][o]
        /\ link'[p][h] = IF link[p][h] = "none" THEN "none" ELSE "connected"
    BY <1>4, AnswerArrivesDoes
  <2>2. h \in Peer /\ Head(inbox[p]) = News("ANSWER", h) /\ News("ANSWER", h) \in ToSet(inbox[p])
    BY <2>1, NewsDoes DEF Relayed
  <2> HIDE DEF h
  <2>3. Dir(p, h) /\ ~Dir(h, p)
    BY <1>d, <2>2, Directions
  <2>4. outbox' = outbox /\ ToSet(inbox'[p]) \subseteq ToSet(inbox[p])
    BY <1>a, <2>1
  <2>5. \A o \in Peer : News("OFFER", o) \in ToSet(inbox[p]) => News("OFFER", o) \in ToSet(inbox'[p])
    BY <1>a, <1>n, <2>1
  <2>6. \A o \in Peer : o # h /\ News("ANSWER", o) \in ToSet(inbox[p]) => News("ANSWER", o) \in ToSet(inbox'[p])
    BY <1>a, <1>n, <2>1, <2>2
  <2>7. \A o \in Peer : Dir(o, p) => o # h
    BY <2>3
  <2>8. link'[p][h] # "offered"
    BY <2>1
  <2> QED
    BY <2>1, <2>2, <2>4, <2>5, <2>6, <2>7, <2>8 DEF Follows
<1>5. CASE ErrorArrives(p)
  <2>1. Moves(p) /\ Take1(p, "ERROR") /\ link' = link
    BY <1>5, ErrorArrivesDoes
  <2> QED
    BY <1>1, <2>1
<1>6. CASE p \in Receivers /\ SessionJoined(p)
  <2>1. Moves(p) /\ Take1(p, "SESSION_JOINED") /\ link' = link
    BY <1>6, SessionJoinedDoes
  <2> QED
    BY <1>1, <2>1
<1> QED
  BY <1>2, <1>3, <1>4, <1>5, <1>6 DEF Receive

\* Everybody who has joined is connected while nobody has left.
LEMMA CalmSends ==
  ASSUME RoomInv, Undisturbed, trouble = 0, NEW p \in Peer, HasJoined(p), NEW x \in Request, Sending(p, x)
  PROVE  ToSet(outbox'[p]) = ToSet(outbox[p]) \cup {x}
<1>1. Connected(p)
  BY DEF Undisturbed, HasJoined, Connected
<1> QED
  BY <1>1, SendingDoes DEF RoomInv

LEMMA EngineJoinsFollows ==
  ASSUME RoomInv, NEW p \in Receivers, EngineJoins(p)
  PROVE  Follows(p)
<1>1. /\ Moves(p) /\ UNCHANGED <<inbox, outbox>> /\ p \in Peer
      /\ \A o \in Peer : link'[p][o] = link[p][o] \/ OffersFrom(p, o)
  BY EngineJoinsDoes, PeerNumbers
<1>2. \A o \in Peer : link'[p][o] # link[p][o] => link[p][o] = "none" /\ link'[p][o] = "offering"
  BY <1>1 DEF OffersFrom
<1> QED
  BY <1>1, <1>2 DEF Follows

LEMMA OfferReadyFollows ==
  ASSUME RoomInv, Undisturbed, trouble = 0, NEW p \in Peer, NEW q \in Peer, OfferReady(p, q)
  PROVE  Follows(p)
<1>1. /\ Moves(p) /\ inbox' = inbox /\ link[p][q] = "offering" /\ link'[p][q] = "offered"
      /\ HasJoined(p) /\ Sending(p, Offer(q))
      /\ \A o \in Peer : o # q => link'[p][o] = link[p][o] \/ (p \in Receivers /\ OffersFrom(p, o))
  BY OfferReadyDoes
<1>2. Offer(q) \in Request
  BY NewRequests
<1>3. ToSet(outbox'[p]) = ToSet(outbox[p]) \cup {Offer(q)}
  BY <1>1, <1>2, CalmSends
<1>4. \A o \in Peer : o # q /\ link'[p][o] # link[p][o] => link[p][o] = "none" /\ link'[p][o] = "offering"
  BY <1>1 DEF OffersFrom
<1>5. \A o : Answer(o) # Offer(q)
  BY DEF Answer, Offer
<1> QED
  BY <1>1, <1>3, <1>4, <1>5 DEF Follows

LEMMA AnswerReadyFollows ==
  ASSUME RoomInv, OfferInv, Undisturbed, trouble = 0, NEW p \in Peer, NEW q \in Peer, AnswerReady(p, q)
  PROVE  Follows(p)
<1>1. /\ Moves(p) /\ inbox' = inbox /\ link[p][q] = "answering" /\ link'[p][q] = "connected"
      /\ HasJoined(p) /\ Sending(p, Answer(q))
      /\ \A o \in Peer : o # q => link'[p][o] = link[p][o]
  BY AnswerReadyDoes
<1>2. Answer(q) \in Request
  BY NewRequests
<1>3. ToSet(outbox'[p]) = ToSet(outbox[p]) \cup {Answer(q)}
  BY <1>1, <1>2, CalmSends
<1>4. Dir(q, p) /\ ~Dir(p, q)
  BY <1>1, Directions DEF OfferInv, Directed
<1>5. \A o : Offer(o) # Answer(q) /\ (Answer(o) = Answer(q) => o = q)
  BY DEF Answer, Offer
<1>6. \A o \in Peer : Dir(p, o) => o # q
  BY <1>4
<1> QED
  BY <1>1, <1>3, <1>5, <1>6 DEF Follows

\* What the server does not relay it leaves as it is.
Retains ==
  \A a, o \in Peer :
    /\ News("OFFER", o) \in ToSet(inbox[a]) => News("OFFER", o) \in ToSet(inbox'[a])
    /\ News("ANSWER", o) \in ToSet(inbox[a]) => News("ANSWER", o) \in ToSet(inbox'[a])
    /\ Offer(o) \in ToSet(outbox[a]) => Offer(o) \in ToSet(outbox'[a])
    /\ Answer(o) \in ToSet(outbox[a]) => Answer(o) \in ToSet(outbox'[a])

LEMMA RetainsKeeps ==
  ASSUME AnswersFollow, trouble = 0, Notifies, Retains
  PROVE  AnswersFollow'
<1> SUFFICES ASSUME NEW a \in Peer, NEW b \in Peer, Dir(b, a) PROVE AnswersAt(b, a)'
  BY DEF AnswersFollow
<1>1. AnswersAt(b, a)
  BY DEF AnswersFollow
<1>2. link' = link
  BY DEF Notifies
<1>3. /\ News("OFFER", b) \in ToSet(inbox[a]) => News("OFFER", b) \in ToSet(inbox'[a])
      /\ News("ANSWER", a) \in ToSet(inbox[b]) <=> News("ANSWER", a) \in ToSet(inbox'[b])
      /\ Offer(a) \in ToSet(outbox[b]) => Offer(a) \in ToSet(outbox'[b])
      /\ Answer(b) \in ToSet(outbox[a]) <=> Answer(b) \in ToSet(outbox'[a])
  BY DEF Notifies, Retains
<1> QED
  BY <1>1, <1>2, <1>3 DEF AnswersAt

\* A peer's entry is neither an offer nor an answer.
LEMMA EntryRetains ==
  ASSUME NEW p \in Peer, outbox[p] \in {<<>>, <<Entry(p)>>}, \A o \in Peer : o # p => outbox'[o] = outbox[o],
         \A a \in Peer : ToSet(inbox[a]) \subseteq ToSet(inbox'[a])
  PROVE  Retains
<1>1. ToSet(outbox[p]) \subseteq {Entry(p)}
  BY ToSetSmall
<1>2. \A o : Offer(o) # Entry(p) /\ Answer(o) # Entry(p)
  BY DEF Offer, Answer, Entry
<1>3. \A o \in Peer : Offer(o) \notin ToSet(outbox[p]) /\ Answer(o) \notin ToSet(outbox[p])
  BY <1>1, <1>2
<1> QED
  BY <1>3 DEF Retains

LEMMA RelaysFollows ==
  ASSUME RoomInv, AnswersFollow, trouble = 0,
         NEW p \in Peer, NEW q \in Peer, NEW type \in {"OFFER", "ANSWER"}, Relays(p, q, type)
  PROVE  AnswersFollow'
<1>0. Passes(p, q, type)
  BY RelaysDoes
<1>1. /\ link' = link
      /\ Head(outbox[p]) = IF type = "OFFER" THEN Offer(q) ELSE Answer(q)
      /\ ToSet(outbox[p]) = {Head(outbox[p])} \cup ToSet(outbox'[p])
      /\ \A o \in Peer : o # p => outbox'[o] = outbox[o]
      /\ ToSet(inbox'[q]) = ToSet(inbox[q]) \cup {News(type, p)}
      /\ \A o \in Peer : o # q => inbox'[o] = inbox[o]
  BY <1>0 DEF Passes
<1> SUFFICES ASSUME NEW a \in Peer, NEW b \in Peer, Dir(b, a) PROVE AnswersAt(b, a)'
  BY DEF AnswersFollow
<1>2. AnswersAt(b, a)
  BY DEF AnswersFollow
<1>3. \A o \in Peer : /\ ToSet(inbox[o]) \subseteq ToSet(inbox'[o]) /\ ToSet(outbox'[o]) \subseteq ToSet(outbox[o])
                      /\ \A x \in ToSet(outbox[o]) : x \in ToSet(outbox'[o]) \/ (o = p /\ x = Head(outbox[p]))
                      /\ \A m \in ToSet(inbox'[o]) : m \in ToSet(inbox[o]) \/ (o = q /\ m = News(type, p))
  BY <1>1
<1>4. \A o, r : /\ Offer(o) # Answer(r) /\ (Offer(o) = Offer(r) => o = r) /\ (Answer(o) = Answer(r) => o = r)
                /\ \A s, t : News(s, o) = News(t, r) => s = t /\ o = r
  BY DEF Offer, Answer, News
<1>5. Offer(a) \in ToSet(outbox[b]) => Offer(a) \in ToSet(outbox'[b]) \/ News("OFFER", b) \in ToSet(inbox'[a])
  <2> SUFFICES ASSUME Offer(a) \in ToSet(outbox[b]), Offer(a) \notin ToSet(outbox'[b])
               PROVE  News("OFFER", b) \in ToSet(inbox'[a])
    OBVIOUS
  <2>1. b = p /\ Offer(a) = Head(outbox[p])
    BY <1>3
  <2>2. type = "OFFER" /\ a = q
    BY <1>1, <1>4, <2>1
  <2> QED
    BY <1>1, <2>1, <2>2
<1>6. Answer(b) \in ToSet(outbox[a]) => Answer(b) \in ToSet(outbox'[a]) \/ News("ANSWER", a) \in ToSet(inbox'[b])
  <2> SUFFICES ASSUME Answer(b) \in ToSet(outbox[a]), Answer(b) \notin ToSet(outbox'[a])
               PROVE  News("ANSWER", a) \in ToSet(inbox'[b])
    OBVIOUS
  <2>1. a = p /\ Answer(b) = Head(outbox[p])
    BY <1>3
  <2>2. type = "ANSWER" /\ b = q
    BY <1>1, <1>4, <2>1
  <2> QED
    BY <1>1, <2>1, <2>2
<1>7. News("ANSWER", a) \in ToSet(inbox'[b]) => News("ANSWER", a) \in ToSet(inbox[b]) \/ Answer(b) \in ToSet(outbox[a])
  <2> SUFFICES ASSUME News("ANSWER", a) \in ToSet(inbox'[b]), News("ANSWER", a) \notin ToSet(inbox[b])
               PROVE  Answer(b) \in ToSet(outbox[a])
    OBVIOUS
  <2>1. b = q /\ News("ANSWER", a) = News(type, p)
    BY <1>3
  <2>2. type = "ANSWER" /\ a = p
    BY <1>4, <2>1
  <2> QED
    BY <1>1, <2>1, <2>2
<1> QED
  BY <1>1, <1>2, <1>3, <1>5, <1>6, <1>7 DEF AnswersAt

LEMMA NextKeepsAnswers ==
  ASSUME RoomInv, OfferInv, AlarmInv, AnswersFollow, Next
  PROVE  AnswersFollow'
<1> SUFFICES ASSUME trouble' = 0 PROVE AnswersFollow'
  BY DEF AnswersFollow
<1>0. trouble = 0 /\ Undisturbed
  BY CalmSteps DEF AlarmInv
<1>1. ASSUME NEW p \in Peer, Enter(p) PROVE AnswersFollow'
  <2>1. outbox[p] = <<>> /\ outbox' = [outbox EXCEPT ![p] = <<Entry(p)>>] /\ inbox' = inbox
    BY <1>1, EnterDoes
  <2>2. \A o \in Peer : o # p => outbox'[o] = outbox[o]
    BY <2>1 DEF RoomInv, Types
  <2> QED
    BY <1>0, <1>1, <2>1, <2>2, EntryRetains, EnterNotifies, RetainsKeeps
<1>2. ASSUME NEW p \in Peer, Opens(p) PROVE AnswersFollow'
  <2>1. outbox[p] = <<Entry(p)>> /\ outbox' = [outbox EXCEPT ![p] = <<>>] /\ inbox' = inbox
    BY <1>2 DEF Opens
  <2>2. \A o \in Peer : o # p => outbox'[o] = outbox[o]
    BY <2>1 DEF RoomInv, Types
  <2> QED
    BY <1>0, <1>2, <2>1, <2>2, EntryRetains, OpensNotifies, RetainsKeeps
<1>3. ASSUME NEW p \in Peer, Admits(p) PROVE AnswersFollow'
  <2>1. outbox[p] = <<Entry(p)>> /\ (\A q \in Peer : q # p => outbox'[q] = outbox[q]) /\ inbox[p] = <<>>
    BY <1>3, AdmitsDoes
  <2>2. \A q \in Peer : q # p => inbox'[q] = inbox[q] \/ ToSet(inbox'[q]) = ToSet(inbox[q]) \cup {News("PEER_JOINED", p)}
    BY <1>3, AdmitsDoes
  <2>3. \A q \in Peer : ToSet(inbox[q]) \subseteq ToSet(inbox'[q])
    BY <2>1, <2>2, ToSetSmall
  <2> QED
    BY <1>0, <1>3, <2>1, <2>3, EntryRetains, AdmitsNotifies, RetainsKeeps
<1>4. ASSUME NEW p \in Peer, Refuses(p) PROVE AnswersFollow'
  <2>1. outbox[p] = <<Entry(p)>>
    BY <1>0, <1>4, RefusedForRoom
  <2>2. /\ \A o \in Peer : o # p => outbox'[o] = outbox[o] /\ inbox'[o] = inbox[o]
        /\ ToSet(inbox'[p]) = ToSet(inbox[p]) \cup {Error}
    BY <1>4, RefusesDoes
  <2>3. \A q \in Peer : ToSet(inbox[q]) \subseteq ToSet(inbox'[q])
    BY <2>2
  <2> QED
    BY <1>0, <1>4, <2>1, <2>2, <2>3, EntryRetains, RefusesNotifies, RetainsKeeps
<1>5. ASSUME NEW p \in Peer, Receive(p), ~PeerLeft(p) PROVE AnswersFollow'
  BY <1>0, <1>5, ReceiveFollows, FollowsKeeps
<1>6. ASSUME NEW p \in Peer, NEW q \in Peer, OfferReady(p, q) \/ AnswerReady(p, q) PROVE AnswersFollow'
  BY <1>0, <1>6, OfferReadyFollows, AnswerReadyFollows, FollowsKeeps
<1>7. ASSUME NEW p \in Peer, NEW q \in Peer, NEW type \in {"OFFER", "ANSWER"}, Relays(p, q, type) PROVE AnswersFollow'
  BY <1>0, <1>7, RelaysFollows
<1>8. ASSUME NEW p \in Receivers, EngineJoins(p) PROVE AnswersFollow'
  BY <1>0, <1>8, EngineJoinsFollows, FollowsKeeps, PeerNumbers
<1> QED
  BY <1>0, <1>1, <1>2, <1>3, <1>4, <1>5, <1>6, <1>7, <1>8, CalmSteps

-----------------------------------------------------------------------------
(* The inductive invariant, and what follows from it.                       *)

Inv == RoomInv /\ RosterInv /\ OfferInv /\ AlarmInv /\ MeshInv

LEMMA InitInv ==
  ASSUME Init
  PROVE  Inv
<1>1. /\ room = "none" /\ members = <<>> /\ trouble = 0
      /\ \A p \in Peer : /\ conn[p] = "none" /\ inbox[p] = <<>> /\ outbox[p] = <<>> /\ client[p] = "out"
                         /\ ~alarm[p] /\ ~known[p] /\ (\A q \in Peer : link[p][q] = "none")
                         /\ p \in Receivers => task[p].stage = "over"
  BY DEF Init, RoomInit, Over
<1>2. \A p \in Peer : ToSet(inbox[p]) = {} /\ ToSet(outbox[p]) = {}
  BY <1>1, ToSetSmall
<1>3. RosterInv
  BY <1>1 DEF RosterInv
<1>4. OfferInv
  <2>1. \A p \in Peer : \A x : Once(inbox[p], x)
    BY <1>1, OnceEmpty
  <2> QED
    BY <1>1, <1>2, <2>1 DEF OfferInv, Directed, OfferOnce
<1>5. AlarmInv
  BY <1>1, <1>2 DEF AlarmInv, Undisturbed, Alarms
<1>6. MeshInv
  <2>1. \A p \in Receivers : p \in Peer /\ 1..Len(inbox[p]) = {}
    BY <1>1, PeerNumbers
  <2>2. LearnsFirst
    BY <1>1, <2>1 DEF LearnsFirst, LearnsAt
  <2>3. OffersFollow /\ AnswersFollow
    BY <1>1, <1>2 DEF OffersFollow, AnswersFollow, AnswersAt
  <2> QED
    BY <2>2, <2>3 DEF MeshInv
<1> QED
  BY <1>3, <1>4, <1>5, <1>6, InitRoom DEF Inv

LEMMA StepInv ==
  ASSUME Inv, [Next]_vars
  PROVE  Inv'
<1>1. CASE Next
  <2>1. RoomInv /\ RosterInv /\ OfferInv /\ AlarmInv /\ LearnsFirst /\ OffersFollow /\ AnswersFollow
    BY DEF Inv, MeshInv
  <2>2. RoomInv'
    BY <1>1, <2>1, NextKeepsRoom
  <2>3. RosterInv' /\ OfferInv' /\ AlarmInv'
    BY <1>1, <2>1, NextKeepsRoster, NextKeepsOffers, NextKeepsAlarm
  <2>4. MeshInv'
    BY <1>1, <2>1, NextKeepsLearns, NextKeepsPromises, NextKeepsAnswers DEF MeshInv
  <2> QED
    BY <2>2, <2>3, <2>4 DEF Inv
<1>2. CASE UNCHANGED vars
  <2>1. UNCHANGED <<room, members, conn, inbox, outbox, client, roster, known, link, task, alarm, trouble>>
    BY <1>2 DEF vars, roomVars, peerVars
  <2>2. RoomInv'
    <3>1. Types' /\ Entering'
      BY <2>1 DEF Inv, RoomInv, Types, Entering
    <3>2. Session' /\ MembersAreConnected'
      BY <2>1 DEF Inv, RoomInv, Session, MembersAreConnected
    <3>3. Strangers' /\ NewsIsTrue'
      BY <2>1 DEF Inv, RoomInv, Strangers, HasJoined, NewsIsTrue
    <3> QED
      BY <3>1, <3>2, <3>3 DEF RoomInv
  <2>3. RosterInv' /\ OfferInv' /\ AlarmInv'
    BY <2>1 DEF Inv, RosterInv, OfferInv, Directed, OfferOnce, AlarmInv, Undisturbed, Alarms
  <2>4. MeshInv'
    BY <2>1 DEF Inv, MeshInv, LearnsFirst, LearnsAt, OffersFollow, Promised, AnswersFollow, AnswersAt
  <2> QED
    BY <2>2, <2>3, <2>4 DEF Inv
<1> QED
  BY <1>1, <1>2

\* Every state the room and its pages reach, whoever joins, leaves, is evicted or is refused in
\* whatever order, satisfies the inductive invariant (Next: every handler of the server and
\* of the pages).
THEOREM Invariance == Spec => []Inv
<1> QED
  BY InitInv, StepInv, PTL DEF Spec

LEMMA SharedFollows ==
  ASSUME Inv
  PROVE  RoomIsShared
<1>1. TypeOK
  BY DEF Inv, RoomInv, Types, TypeOK
<1>2. RosterIsMembership
  BY RosterByTold DEF Inv, RosterInv
<1> QED
  BY <1>1, <1>2 DEF RoomIsShared, Inv, RoomInv

LEMMA FreshFollows ==
  ASSUME Inv
  PROVE  OffersAreFresh
<1> SUFFICES ASSUME NEW p \in Peer, NEW i \in 1..Len(inbox[p]), inbox[p][i].type = "OFFER"
             PROVE  link[p][inbox[p][i].from] = "none"
  BY DEF OffersAreFresh
<1> DEFINE m == inbox[p][i]
<1>1. inbox[p] \in Seq(Message)
  BY DEF Inv, RoomInv, Types
<1>2. m \in ToSet(inbox[p]) /\ m \in Message
  BY <1>1, InSeq
<1> HIDE DEF m
<1>3. m = News("OFFER", m.from) /\ m.from \in Peer
  <2>1. m.type = "OFFER"
    BY DEF m
  <2> QED
    BY <1>2, <2>1, MessageKinds DEF Relayed
<1>4. Dir(m.from, p) /\ link[p][m.from] = "none"
  BY <1>2, <1>3 DEF Inv, OfferInv, Directed, OfferOnce
<1> QED
  BY <1>4 DEF m

LEMMA CauseFollows ==
  ASSUME Inv
  PROVE  AlarmHasCause
<1>1. trouble \in Nat
  BY MeshAssumption DEF Inv, RoomInv, Types
<1> QED
  BY <1>1 DEF Inv, AlarmInv, Alarms, AlarmHasCause

LEMMA MeshFollows ==
  ASSUME Inv
  PROVE  MeshIsComplete
<1> SUFFICES ASSUME Quiet, trouble = 0, NEW p \in Peer, NEW q \in Peer, p # q, InRoom(p), InRoom(q)
             PROVE  Linked(p, q)
  BY DEF MeshIsComplete
<1>1. ASSUME NEW a \in Peer, NEW b \in Peer, Dir(a, b), InRoom(a), InRoom(b)
      PROVE  link[a][b] = "connected" /\ link[b][a] = "connected"
  <2>1. \A o \in Peer : ToSet(inbox[o]) = {} /\ ToSet(outbox[o]) = {}
    BY ToSetSmall DEF Quiet
  <2>2. conn[a] = "member" /\ conn[b] = "member"
    BY <1>1 DEF Inv, RoomInv, MembersAreConnected, InRoom, Member
  <2>3. link[a][b] # "none"
    <3>1. task[a].stage = "over"
      BY <1>1 DEF Quiet, Dir
    <3>2. ~Promised(a, b)
      BY <2>1, <3>1 DEF Promised
    <3> QED
      BY <1>1, <2>2, <3>2 DEF Inv, MeshInv, OffersFollow
  <2>4. AnswersAt(a, b)
    BY <1>1 DEF Inv, MeshInv, AnswersFollow
  <2>5. link[a][b] # "offering" /\ link[a][b] # "answering" /\ link[b][a] # "answering"
    BY DEF Quiet
  <2>6. link[a][b] # "offered"
    BY <2>1, <2>4, <2>5 DEF AnswersAt
  <2>7. link[a][b] = "connected"
    BY <2>3, <2>5, <2>6 DEF Inv, RoomInv, Types
  <2> QED
    BY <2>4, <2>7 DEF AnswersAt
<1>2. Dir(q, p) \/ Dir(p, q)
  BY Directions
<1> QED
  BY <1>1, <1>2 DEF Linked

-----------------------------------------------------------------------------
(* The theorems.                                                            *)

\* Types, the room and the rosters: whatever order joins, departures, evictions and
\* late offers reach a page in, a member has a connection that will take it out again,
\* and the peers a page counts as online, once it has handled what it was sent, are the
\* members of the room (handleJoinSession, leaveSession, detach and the handlers of
\* PEER_JOINED, PEER_LEFT and SESSION_JOINED).
THEOREM RoomShared == Spec => []RoomIsShared
<1> QED
  BY Invariance, SharedFollows, PTL

\* No glare: an offer never reaches a peer that has its own connection to the sender
\* (handleReceiverSignal, "lower peerId offers to higher peerId").
THEOREM OffersFresh == Spec => []OffersAreFresh
<1> QED
  BY Invariance, FreshFollows, PTL

\* While nobody has left, the server refuses only an entry into a full room: no offer
\* or answer overtakes the joins it depends on (handleRelay, relayWebRtc).
THEOREM AlarmsHaveCause == Spec => []AlarmHasCause
<1> QED
  BY Invariance, CauseFollows, PTL

\* While nobody has left, any two peers in the room are connected once every message is
\* handled and every handler has run (ensureMeshPeerConnection and the signal handlers).
THEOREM MeshComplete == Spec => []MeshIsComplete
<1> QED
  BY Invariance, MeshFollows, PTL
=============================================================================
