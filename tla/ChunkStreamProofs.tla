-------------------------- MODULE ChunkStreamProofs --------------------------
(***************************************************************************)
(* Proofs about ChunkStream: the books of the send queue, and what the      *)
(* receiver puts together from headers and frames that travel apart.       *)
(*                                                                         *)
(* The queue needs only its own invariant, QueueInv: the byte counter is    *)
(* the size of what waits, and one chunk loop at most is awake.            *)
(*                                                                         *)
(* The assembly rests on one order.  Everything a provider sends is sorted  *)
(* along the line wire - buffer - current - pending (StreamInv): requests   *)
(* are served in the order they were made, and of a request whose send was  *)
(* rejected nothing more is sent.  So whatever comes while a frame is       *)
(* awaited, and is not that frame, shows that the frame was cut off         *)
(* (OverdueFrame).  A request mixed up is either one of those cut, or a     *)
(* victim: the next request to arrive, its header refused because the cut   *)
(* one's still waits.  Between a cut request and its victim there is no     *)
(* other victim (VictimsAreApart), which gives the bound by counting.       *)
(***************************************************************************)
EXTENDS ChunkStream, FiniteSetTheorems, TLAPS

-----------------------------------------------------------------------------
(* The items of the stream and their order.                                 *)

Headers == {HeaderOf(r, k) : r \in Requests, k \in 1..Chunks}
Frames == {FrameOf(r, k) : r \in Requests, k \in 1..Chunks}
Answer == Headers \cup Frames \cup {RefusalOf(r) : r \in Requests}
Item == Answer \cup {Note(n) : n \in Notes}

\* The order in which the provider sends: request by request, chunk by chunk, and
\* the header of a chunk before its frame.
Before(x, y) ==
  \/ x.req < y.req
  \/ x.req = y.req /\ x.chunk < y.chunk
  \/ x.req = y.req /\ x.chunk = y.chunk /\ x.kind = "header" /\ y.kind = "frame"

Carried(s) == {x \in ToSet(s) : x \in Answer}

\* Everything on its way, the oldest first; what is still in the queue; what the
\* channel has taken.
Line == (wire \o buffer) \o (current \o pending)
OnLine == Carried(Line)
Queued == Carried(current \o pending)
Sent == Carried(wire \o buffer)

-----------------------------------------------------------------------------
(* The queue and the chain.                                                 *)

Shape ==
  /\ wire \in Seq(Item) /\ buffer \in Seq(Item) /\ pending \in Seq(Item)
  /\ current \in Seq(Item) /\ Len(current) <= 1
  /\ pump \in {"idle", "waiting", "sending"} /\ (pump = "idle" <=> current = <<>>)
  /\ channel \in {"open", "closed"} /\ lowEvent \in BOOLEAN
  /\ (channel = "closed" => wire = <<>> /\ buffer = <<>>)
  /\ bytes \in Nat /\ rejected \in SUBSET Item /\ IsFiniteSet(rejected)

Serve ==
  /\ chain \in Seq(Requests) /\ noted \in SUBSET Notes /\ unread \in SUBSET Requests
  /\ job \in [Requests -> Seq(Answer)]
  /\ \A r \in Requests : job[r] # <<>> =>
       Len(job[r]) = 1 /\ job[r][1].req = r /\ chain # <<>> /\ Head(chain) = r

Receive ==
  /\ active \in SUBSET Requests
  /\ result \in [Requests -> {"none", "asked", "ended", "invalid", "good", "corrupt", "refused"}]
  /\ header \in Headers \cup {NoHeader}
  /\ chunks \in [Requests -> [1..Chunks -> SUBSET Item]]


-----------------------------------------------------------------------------
(* Bytes of a sequence of sends.                                            *)

LEMMA BytesOfOne ==
  ASSUME NEW n \in Nat, NEW i
  PROVE  IsFiniteSet({i} \X (1..n)) /\ Cardinality({i} \X (1..n)) = n
<1>1. IsFiniteSet(1..n) /\ Cardinality(1..n) = n
  BY FS_Interval
<1>2. IsFiniteSet({i}) /\ Cardinality({i}) = 1
  BY FS_Singleton
<1>3. IsFiniteSet({i} \X (1..n)) /\ Cardinality({i} \X (1..n)) = Cardinality({i}) * Cardinality(1..n)
  BY <1>1, <1>2, FS_Product
<1> QED
  BY <1>1, <1>2, <1>3

\* Each member has a size.
Sized(s) == Len(s) \in Nat /\ DOMAIN s = 1..Len(s) /\ \A i \in 1..Len(s) : s[i].size \in Nat

LEMMA BytesAreFinite ==
  ASSUME NEW s, Sized(s)
  PROVE  IsFiniteSet(BytesOf(s)) /\ Total(s) \in Nat
<1> DEFINE All == {{i} \X (1..s[i].size) : i \in DOMAIN s}
<1> DEFINE f == [i \in DOMAIN s |-> {i} \X (1..s[i].size)]
<1>1. f \in Surjection(DOMAIN s, All)
  <2>1. f \in [DOMAIN s -> All]
    OBVIOUS
  <2>2. \A T \in All : \E i \in DOMAIN s : f[i] = T
    OBVIOUS
  <2> QED
    BY <2>1, <2>2, Zenon DEF Surjection
<1>2. IsFiniteSet(DOMAIN s)
  BY FS_Interval DEF Sized
<1>3. IsFiniteSet(All)
  BY <1>1, <1>2, FS_Surjection, Zenon
<1>4. \A T \in All : IsFiniteSet(T)
  BY BytesOfOne DEF Sized
<1>5. IsFiniteSet(UNION All)
  BY <1>3, <1>4, FS_UNION, Zenon
<1>6. BytesOf(s) = UNION All
  BY Zenon DEF BytesOf
<1> QED
  BY <1>5, <1>6, FS_CardinalityType, Zenon DEF Total

LEMMA TotalOfNone == Total(<<>>) = 0 /\ BytesOf(<<>>) = {}
<1>1. BytesOf(<<>>) = {}
  BY DEF BytesOf
<1> QED
  BY <1>1, FS_EmptySet DEF Total

LEMMA TotalOfMore ==
  ASSUME NEW s, Sized(s), NEW x, x.size \in Nat, NEW t, Sized(t),
         Len(t) = Len(s) + 1, \A i \in 1..Len(s) : t[i] = s[i], t[Len(s) + 1] = x
  PROVE  Total(t) = Total(s) + x.size
<1> DEFINE n == Len(s) + 1
<1> DEFINE new == {n} \X (1..x.size)
<1>1. BytesOf(t) = BytesOf(s) \cup new
  <2>1. ASSUME NEW b \in BytesOf(t) PROVE b \in BytesOf(s) \cup new
    <3>1. PICK i \in 1..n : b \in {i} \X (1..t[i].size)
      BY DEF BytesOf, Sized
    <3>2. CASE i = n
      BY <3>1, <3>2
    <3>3. CASE i # n
      <4>1. i \in 1..Len(s) /\ t[i] = s[i]
        BY <3>3 DEF Sized
      <4> QED
        BY <3>1, <4>1 DEF BytesOf, Sized
    <3> QED
      BY <3>2, <3>3
  <2>2. ASSUME NEW b \in BytesOf(s) PROVE b \in BytesOf(t)
    <3>1. PICK i \in 1..Len(s) : b \in {i} \X (1..s[i].size)
      BY <2>2 DEF BytesOf, Sized
    <3>2. i \in DOMAIN t /\ t[i] = s[i]
      BY DEF Sized
    <3> QED
      BY <3>1, <3>2 DEF BytesOf
  <2>3. ASSUME NEW b \in new PROVE b \in BytesOf(t)
    BY DEF BytesOf, Sized
  <2> QED
    BY <2>1, <2>2, <2>3
<1>2. BytesOf(s) \cap new = {}
  BY DEF BytesOf, Sized
<1>3. IsFiniteSet(BytesOf(s)) /\ Cardinality(BytesOf(s)) \in Nat
  BY BytesAreFinite, Zenon DEF Total
<1>4. IsFiniteSet(new) /\ Cardinality(new) = x.size
  BY BytesOfOne, Zenon
<1> HIDE DEF new, n
<1>5. Cardinality(BytesOf(s) \cup new) = Cardinality(BytesOf(s)) + Cardinality(new) - Cardinality(BytesOf(s) \cap new)
  BY <1>3, <1>4, FS_Union, Zenon
<1>6. Cardinality(BytesOf(s) \cap new) = 0
  BY <1>2, FS_EmptySet, Zenon
<1> QED
  BY <1>1, <1>3, <1>4, <1>5, <1>6 DEF Total

LEMMA TotalOfTail ==
  ASSUME NEW s, Sized(s), NEW t, Sized(t), Len(s) = Len(t) + 1,
         \A i \in 1..Len(t) : t[i] = s[i + 1]
  PROVE  Total(s) = s[1].size + Total(t)
<1> DEFINE first == {1} \X (1..s[1].size)
<1> DEFINE moved == {b \in BytesOf(s) : b[1] # 1}
<1>1. s[1].size \in Nat
  BY DEF Sized
<1>2. BytesOf(s) = first \cup moved
  <2>1. ASSUME NEW b \in BytesOf(s) PROVE b \in first \cup moved
    BY DEF BytesOf, Sized
  <2>2. first \subseteq BytesOf(s)
    BY DEF BytesOf, Sized
  <2> QED
    BY <2>1, <2>2
<1>3. first \cap moved = {}
  OBVIOUS
<1>4. IsFiniteSet(first) /\ Cardinality(first) = s[1].size
  BY <1>1, BytesOfOne, Zenon
<1>5. IsFiniteSet(BytesOf(t)) /\ Cardinality(BytesOf(t)) \in Nat
  BY BytesAreFinite, Zenon DEF Total
<1>6. IsFiniteSet(moved) /\ Cardinality(moved) = Cardinality(BytesOf(t))
  <2> DEFINE f == [b \in BytesOf(t) |-> <<b[1] + 1, b[2]>>]
  <2>1. \A b \in BytesOf(t) : b = <<b[1], b[2]>> /\ b[1] \in 1..Len(t) /\ b[2] \in 1..t[b[1]].size
    BY DEF BytesOf, Sized
  <2>2. \A b \in BytesOf(t) : f[b] \in moved
    BY <2>1 DEF BytesOf, Sized
  <2>3. \A b, c \in BytesOf(t) : f[b] = f[c] => b = c
    BY <2>1 DEF Sized
  <2>4. ASSUME NEW m \in moved PROVE \E b \in BytesOf(t) : f[b] = m
    <3>1. m = <<m[1], m[2]>> /\ m[1] \in 1..Len(s) /\ m[2] \in 1..s[m[1]].size /\ m[1] # 1
      BY DEF BytesOf, Sized
    <3>2. m[1] - 1 \in 1..Len(t) /\ t[m[1] - 1] = s[m[1]]
      BY <3>1 DEF Sized
    <3>3. <<m[1] - 1, m[2]>> \in BytesOf(t)
      BY <3>1, <3>2 DEF BytesOf, Sized
    <3>4. f[<<m[1] - 1, m[2]>>] = <<m[1], m[2]>>
      BY <3>1, <3>3 DEF Sized
    <3> QED
      BY <3>1, <3>3, <3>4
  <2>5. f \in [BytesOf(t) -> moved]
    BY <2>2
  <2> HIDE DEF f
  <2>6. f \in Bijection(BytesOf(t), moved)
    BY <2>3, <2>4, <2>5, Zenon DEF Bijection, Injection, Surjection, IsInjective
  <2> QED
    BY <2>6, <1>5, FS_Bijection, Zenon DEF ExistsBijection
<1> HIDE DEF first, moved
<1>7. Cardinality(first \cup moved) = Cardinality(first) + Cardinality(moved) - Cardinality(first \cap moved)
  BY <1>4, <1>6, FS_Union, Zenon
<1>8. Cardinality(first \cap moved) = 0
  BY <1>3, FS_EmptySet, Zenon
<1> QED
  BY <1>1, <1>2, <1>4, <1>5, <1>6, <1>7, <1>8 DEF Total

LEMMA Items ==
  /\ \A x \in Item : x.size \in {1, 2} /\ x.kind \in {"header", "frame", "refusal", "note"}
  /\ \A x \in Item : x.kind = "header" => x \in Headers
  /\ \A x \in Item : x.kind = "frame" => x \in Frames
  /\ \A x \in Item : x.kind = "refusal" => x.req \in Requests /\ x = RefusalOf(x.req)
  /\ \A x \in Answer : x \in Item /\ x.req \in Requests /\ x.kind # "note"
  /\ \A x \in Headers \cup Frames : x \in Answer /\ x.req \in Requests /\ x.chunk \in 1..Chunks
BY DEF Item, Answer, Headers, Frames, HeaderOf, FrameOf, RefusalOf, Note

LEMMA ItemsAreSized ==
  ASSUME NEW s \in Seq(Item)
  PROVE  Sized(s)
BY Items DEF Sized

LEMMA TotalOfAppend ==
  ASSUME NEW s \in Seq(Item), NEW x \in Item
  PROVE  /\ Append(s, x) \in Seq(Item)
         /\ Total(s) \in Nat /\ x.size \in Nat
         /\ Total(Append(s, x)) = Total(s) + x.size
<1>1. Append(s, x) \in Seq(Item)
  OBVIOUS
<1>2. Sized(s) /\ Sized(Append(s, x))
  BY <1>1, ItemsAreSized
<1>3. /\ Len(Append(s, x)) = Len(s) + 1 /\ Append(s, x)[Len(s) + 1] = x
      /\ \A i \in 1..Len(s) : Append(s, x)[i] = s[i]
  OBVIOUS
<1>4. x.size \in Nat
  BY Items
<1>5. Total(Append(s, x)) = Total(s) + x.size
  BY <1>2, <1>3, <1>4, TotalOfMore, Zenon
<1> QED
  BY <1>1, <1>2, <1>4, <1>5, BytesAreFinite

LEMMA TotalOfHead ==
  ASSUME NEW s \in Seq(Item), s # <<>>
  PROVE  /\ Tail(s) \in Seq(Item) /\ Head(s) \in Item
         /\ Total(Tail(s)) \in Nat /\ Head(s).size \in Nat
         /\ Total(s) = Head(s).size + Total(Tail(s))
<1>1. Tail(s) \in Seq(Item) /\ Head(s) \in Item /\ Head(s) = s[1]
  OBVIOUS
<1>2. Len(s) = Len(Tail(s)) + 1 /\ \A i \in 1..Len(Tail(s)) : Tail(s)[i] = s[i + 1]
  OBVIOUS
<1>3. Sized(s) /\ Sized(Tail(s))
  BY <1>1, ItemsAreSized
<1>4. Total(s) = s[1].size + Total(Tail(s))
  BY <1>2, <1>3, TotalOfTail, Zenon
<1> QED
  BY <1>1, <1>3, <1>4, Items, BytesAreFinite

LEMMA TotalOfSingle ==
  ASSUME NEW x \in Item
  PROVE  <<x>> \in Seq(Item) /\ x.size \in Nat /\ Total(<<x>>) = x.size
<1>1. <<>> \in Seq(Item) /\ Append(<<>>, x) = <<x>>
  OBVIOUS
<1>2. Total(Append(<<>>, x)) = Total(<<>>) + x.size /\ Append(<<>>, x) \in Seq(Item) /\ x.size \in Nat
  BY <1>1, TotalOfAppend, Zenon
<1> QED
  BY <1>1, <1>2, TotalOfNone

LEMMA TotalIsNat ==
  ASSUME NEW s \in Seq(Item)
  PROVE  Total(s) \in Nat
BY ItemsAreSized, BytesAreFinite

-----------------------------------------------------------------------------
(* The queue under the stream.                                              *)

Queue == Shape /\ BytesAreExact /\ WaiterIsWoken

LEMMA EnqueueKeeps ==
  ASSUME Queue, NEW item \in Item, Enqueue(item)
  PROVE  Queue'
<1> USE QueueAssumption
<1>1. CASE Fits(item)
  <2>1. /\ pending' = Append(pending, item) /\ bytes' = bytes + item.size /\ rejected' = rejected
        /\ UNCHANGED <<pump, current, channel, buffer, lowEvent, wire>>
    BY <1>1 DEF Enqueue
  <2>2. /\ Append(pending, item) \in Seq(Item) /\ item.size \in Nat
        /\ Total(pending) \in Nat /\ Total(Append(pending, item)) = Total(pending) + item.size
    BY TotalOfAppend DEF Queue, Shape
  <2>3. Total(current) \in Nat
    BY TotalIsNat DEF Queue, Shape
  <2>4. Shape'
    BY <2>1, <2>2, SMTT(20) DEF Queue, Shape
  <2>5. BytesAreExact'
    BY <1>1, <2>1, <2>2, <2>3 DEF Queue, Shape, BytesAreExact, Fits
  <2>6. WaiterIsWoken'
    BY <2>1, Zenon DEF Queue, WaiterIsWoken, BufferedAmount
  <2> QED
    BY <2>4, <2>5, <2>6 DEF Queue
<1>2. CASE ~Fits(item)
  <2>1. rejected' = rejected \cup {item} /\ UNCHANGED <<pending, bytes, pump, current, channel, buffer, lowEvent, wire>>
    BY <1>2 DEF Enqueue
  <2>2. IsFiniteSet(rejected') /\ rejected' \in SUBSET Item
    BY <2>1, FS_AddElement DEF Queue, Shape
  <2>3. Shape'
    BY <2>1, <2>2 DEF Queue, Shape
  <2> QED
    BY <2>1, <2>3, Zenon DEF Queue, BytesAreExact, WaiterIsWoken, BufferedAmount
<1> QED
  BY <1>1, <1>2

LEMMA PumpTakesKeeps ==
  ASSUME Queue, PumpTakes
  PROVE  Queue'
<1> USE QueueAssumption
<1>1. /\ pump = "idle" /\ pending # <<>> /\ current = <<>>
      /\ current' = <<Head(pending)>> /\ pending' = Tail(pending)
      /\ pump' \in {"waiting", "sending"}
      /\ UNCHANGED <<bytes, channel, buffer, lowEvent, wire, rejected>>
  BY DEF PumpTakes, Queue, Shape
<1>2. /\ Tail(pending) \in Seq(Item) /\ Head(pending) \in Item /\ Total(Tail(pending)) \in Nat
      /\ Head(pending).size \in Nat /\ Total(pending) = Head(pending).size + Total(Tail(pending))
  BY <1>1, TotalOfHead DEF Queue, Shape
<1>3. <<Head(pending)>> \in Seq(Item) /\ Total(<<Head(pending)>>) = Head(pending).size
  BY <1>2, TotalOfSingle
<1>4. Shape'
  <2>1. current' \in Seq(Item) /\ Len(current') <= 1 /\ current' # <<>> /\ pump' # "idle"
    BY <1>1, <1>2
  <2> QED
    BY <1>1, <1>2, <2>1 DEF Queue, Shape
<1>5. BytesAreExact'
  BY <1>1, <1>2, <1>3, TotalOfNone DEF Queue, BytesAreExact
<1>6. WaiterIsWoken'
  <2>1. pump' = "waiting" => channel = "open" /\ BufferedAmount >= High
    BY DEF PumpTakes
  <2>2. Total(buffer) \in Nat
    BY TotalIsNat DEF Queue, Shape
  <2> QED
    BY <1>1, <2>1, <2>2 DEF WaiterIsWoken, BufferedAmount
<1> QED
  BY <1>4, <1>5, <1>6 DEF Queue

LEMMA OneItem ==
  ASSUME NEW S, NEW s \in Seq(S), Len(s) <= 1, s # <<>>
  PROVE  \E x \in S : s = <<x>>
<1>1. Len(s) # 0 /\ Len(s) \in Nat
  OBVIOUS
<1>2. \A n \in Nat : n <= 1 /\ n # 0 => n = 1
  OBVIOUS
<1>3. Len(s) = 1
  BY <1>1, <1>2, Zenon
<1>4. s[1] \in S /\ s = <<s[1]>>
  BY <1>3
<1> QED
  BY <1>4, Zenon

LEMMA PumpSendsKeeps ==
  ASSUME Queue, PumpSends
  PROVE  Queue'
<1>1. /\ pump = "sending" /\ pump' = "idle" /\ current' = <<>> /\ bytes' = bytes - Total(current)
      /\ UNCHANGED <<pending, channel, lowEvent, wire>>
      /\ \/ channel = "open" /\ buffer' = buffer \o current /\ rejected' = rejected
         \/ channel = "closed" /\ rejected' = rejected \cup ToSet(current) /\ buffer' = buffer
  BY DEF PumpSends, Queue, Shape
<1>2. PICK x \in Item : current = <<x>>
  BY <1>1, OneItem DEF Queue, Shape
<1>3. ToSet(current) = {x}
  BY <1>2 DEF ToSet
<1>4. buffer' \in Seq(Item) /\ (channel = "closed" => buffer' = buffer)
  <2>1. buffer \in Seq(Item) /\ current \in Seq(Item)
    BY DEF Queue, Shape
  <2>2. buffer \o current \in Seq(Item)
    BY <2>1
  <2> QED
    BY <1>1, <2>1, <2>2
<1>5. rejected' \in SUBSET Item /\ IsFiniteSet(rejected')
  BY <1>1, <1>3, FS_AddElement DEF Queue, Shape
<1>6. Total(pending) \in Nat /\ Total(current) \in Nat
  BY TotalIsNat DEF Queue, Shape
<1>7. bytes' = Total(pending) /\ bytes' \in Nat /\ bytes' <= bytes
  BY <1>1, <1>6 DEF Queue, Shape, BytesAreExact
<1>8. Shape'
  <2>1. current' \in Seq(Item) /\ Len(current') <= 1
    BY <1>1
  <2> QED
    BY <1>1, <1>4, <1>5, <1>7, <2>1 DEF Queue, Shape
<1>9. BytesAreExact'
  BY <1>1, <1>6, <1>7, TotalOfNone, QueueAssumption DEF Queue, Shape, BytesAreExact
<1>10. WaiterIsWoken'
  BY <1>1 DEF WaiterIsWoken
<1> QED
  BY <1>8, <1>9, <1>10 DEF Queue

LEMMA BufferDrainsKeeps ==
  ASSUME Queue, BufferDrains
  PROVE  Queue'
<1>1. /\ channel = "open" /\ buffer # <<>>
      /\ buffer' = Tail(buffer) /\ wire' = Append(wire, Head(buffer))
      /\ lowEvent' = (lowEvent \/ FallsToLow)
      /\ UNCHANGED <<pending, bytes, pump, current, channel, rejected>>
  BY DEF BufferDrains
<1>2. Tail(buffer) \in Seq(Item) /\ Head(buffer) \in Item /\ Total(Tail(buffer)) \in Nat
  BY <1>1, TotalOfHead DEF Queue, Shape
<1>3. wire' \in Seq(Item) /\ lowEvent' \in BOOLEAN
  BY <1>1, <1>2 DEF Queue, Shape, FallsToLow
<1>4. Shape'
  BY <1>1, <1>2, <1>3 DEF Queue, Shape
<1>5. BytesAreExact'
  BY <1>1, Zenon DEF Queue, BytesAreExact
<1>6. WaiterIsWoken'
  <2>1. Total(buffer) \in Nat
    BY TotalIsNat DEF Queue, Shape
  <2>2. CASE pump = "waiting"
    <3>1. Total(buffer) > Low \/ lowEvent
      BY <2>2 DEF Queue, WaiterIsWoken, BufferedAmount
    <3>2. Low \in Nat
      BY QueueAssumption
    <3>3. Total(buffer') > Low \/ lowEvent'
      <4>1. CASE lowEvent
        BY <1>1, <4>1, Zenon
      <4>2. CASE Total(buffer) > Low /\ Total(Tail(buffer)) <= Low
        BY <1>1, <4>2, Zenon DEF FallsToLow, BufferedAmount
      <4>3. CASE ~(Total(Tail(buffer)) <= Low)
        <5>1. Total(Tail(buffer)) > Low
          BY <1>2, <3>2, <4>3
        <5> QED
          BY <1>1, <5>1, Zenon
      <4> QED
        BY <3>1, <4>1, <4>2, <4>3
    <3> QED
      BY <1>1, <3>3 DEF WaiterIsWoken, BufferedAmount
  <2>3. CASE pump # "waiting"
    BY <1>1, <2>3 DEF WaiterIsWoken
  <2> QED
    BY <2>2, <2>3
<1> QED
  BY <1>4, <1>5, <1>6 DEF Queue

LEMMA HandleDrainKeeps ==
  ASSUME Queue, HandleDrain
  PROVE  Queue'
<1>1. /\ lowEvent' = FALSE
      /\ pump' = IF pump = "waiting" /\ IsLow THEN "sending" ELSE pump
      /\ UNCHANGED <<pending, bytes, current, channel, buffer, wire, rejected>>
  BY DEF HandleDrain
<1>2. Shape'
  BY <1>1 DEF Queue, Shape
<1>3. BytesAreExact'
  BY <1>1, Zenon DEF Queue, BytesAreExact
<1>4. WaiterIsWoken'
  <2>1. Total(buffer) \in Nat
    BY TotalIsNat DEF Queue, Shape
  <2> QED
    BY <1>1, <2>1, QueueAssumption DEF Queue, WaiterIsWoken, BufferedAmount, IsLow
<1> QED
  BY <1>2, <1>3, <1>4 DEF Queue

LEMMA ItemsOfSeq ==
  ASSUME NEW s \in Seq(Item)
  PROVE  ToSet(s) \in SUBSET Item /\ IsFiniteSet(ToSet(s))
<1>1. ToSet(s) \in SUBSET Item
  BY DEF ToSet
<1>2. IsFiniteSet(DOMAIN s)
  BY FS_Interval
<1>3. s \in Surjection(DOMAIN s, ToSet(s))
  <2>1. s \in [DOMAIN s -> ToSet(s)]
    BY DEF ToSet
  <2>2. \A x \in ToSet(s) : \E i \in DOMAIN s : s[i] = x
    BY DEF ToSet
  <2> QED
    BY <2>1, <2>2, Zenon DEF Surjection
<1> QED
  BY <1>1, <1>2, <1>3, FS_Surjection, Zenon

LEMMA ChannelFailsKeeps ==
  ASSUME Queue, ChannelFails
  PROVE  Queue'
<1>1. /\ channel = "open" /\ pending' = <<>> /\ lowEvent' = lowEvent
      /\ channel' \in {"open", "closed"}
      /\ buffer' = IF channel' = "open" THEN buffer ELSE <<>>
      /\ wire' = IF channel' = "open" THEN wire ELSE <<>>
  BY DEF ChannelFails
<1>2. \/ /\ pump = "waiting" /\ pump' = "idle" /\ current' = <<>>
         /\ rejected' = rejected \cup ToSet(pending) \cup ToSet(current)
         /\ bytes' = Dropped - Total(current)
      \/ /\ pump # "waiting" /\ pump' = pump /\ current' = current
         /\ rejected' = rejected \cup ToSet(pending) /\ bytes' = Dropped
  BY DEF ChannelFails
<1>3. Total(pending) \in Nat /\ Total(current) \in Nat
  BY TotalIsNat DEF Queue, Shape
<1>4. Dropped = Total(current)
  BY <1>3 DEF Queue, BytesAreExact, Dropped
<1>5. /\ ToSet(pending) \in SUBSET Item /\ IsFiniteSet(ToSet(pending))
      /\ ToSet(current) \in SUBSET Item /\ IsFiniteSet(ToSet(current))
  BY ItemsOfSeq DEF Queue, Shape
<1>6. rejected' \in SUBSET Item
  BY <1>2, <1>5 DEF Queue, Shape
<1>7. IsFiniteSet(rejected')
  <2>1. IsFiniteSet(rejected \cup ToSet(pending))
    BY <1>5, FS_Union, Zenon DEF Queue, Shape
  <2>2. IsFiniteSet((rejected \cup ToSet(pending)) \cup ToSet(current))
    BY <1>5, <2>1, FS_Union, Zenon
  <2> QED
    BY <1>2, <2>1, <2>2, Zenon
<1>8. bytes' \in Nat /\ bytes' = Total(current') /\ bytes' <= bytes
  BY <1>2, <1>3, <1>4, TotalOfNone DEF Queue, Shape, BytesAreExact
<1>9. current' \in Seq(Item) /\ Len(current') <= 1 /\ (pump' = "idle" <=> current' = <<>>)
  <2>1. CASE current' = <<>> /\ pump' = "idle"
    BY <2>1
  <2>2. CASE current' = current /\ pump' = pump
    BY <2>2, Zenon DEF Queue, Shape
  <2> QED
    BY <1>2, <2>1, <2>2
<1>10. /\ buffer' \in Seq(Item) /\ wire' \in Seq(Item) /\ pending' \in Seq(Item)
       /\ (channel' = "closed" => wire' = <<>> /\ buffer' = <<>>)
  BY <1>1 DEF Queue, Shape
<1>11. Shape'
  BY <1>1, <1>2, <1>6, <1>7, <1>8, <1>9, <1>10 DEF Queue, Shape
<1>12. BytesAreExact'
  BY <1>1, <1>8, TotalOfNone, QueueAssumption DEF Queue, Shape, BytesAreExact
<1>13. WaiterIsWoken'
  <2>1. pump' # "waiting"
    BY <1>2
  <2> QED
    BY <2>1 DEF WaiterIsWoken
<1> QED
  BY <1>11, <1>12, <1>13 DEF Queue
-----------------------------------------------------------------------------
(* The provider and the receiver.                                           *)

LEMMA FirstIsAnswer ==
  ASSUME NEW r \in Requests, NEW item \in First(r)
  PROVE  item \in Answer /\ item \in Item /\ item.req = r /\ item.kind # "frame"
         /\ (item.kind = "header" => item = HeaderOf(r, 1))
<1>1. 1 \in 1..Chunks
  BY StreamAssumption
<1>2. item = HeaderOf(r, 1) \/ item = RefusalOf(r)
  BY DEF First
<1> QED
  BY <1>1, <1>2 DEF Item, Answer, Headers, HeaderOf, RefusalOf

LEMMA FollowsIsAnswer ==
  ASSUME NEW y \in Answer
  PROVE  \/ Follows(y) = <<>> /\ y.kind # "header"
         \/ \E z \in Answer : Follows(y) = <<z>> /\ z.req = y.req /\ z \in Item
<1>0. Chunks \in Nat
  BY StreamAssumption
<1>1. CASE y \in Headers
  <2>1. PICK r \in Requests, k \in 1..Chunks : y = HeaderOf(r, k)
    BY <1>1 DEF Headers
  <2>2. Follows(y) = <<FrameOf(r, k)>> /\ FrameOf(r, k).req = y.req
    BY <2>1 DEF Follows, HeaderOf, FrameOf
  <2>3. FrameOf(r, k) \in Answer /\ FrameOf(r, k) \in Item
    BY DEF Item, Answer, Frames
  <2> QED
    BY <2>2, <2>3
<1>2. CASE y \in Frames
  <2>1. PICK r \in Requests, k \in 1..Chunks : y = FrameOf(r, k)
    BY <1>2 DEF Frames
  <2>2. CASE k < Chunks
    <3>1. Follows(y) = <<HeaderOf(r, k + 1)>> /\ HeaderOf(r, k + 1).req = y.req
      BY <2>1, <2>2 DEF Follows, HeaderOf, FrameOf
    <3>2. k + 1 \in 1..Chunks
      BY <1>0, <2>2
    <3>3. HeaderOf(r, k + 1) \in Answer /\ HeaderOf(r, k + 1) \in Item
      BY <3>2 DEF Item, Answer, Headers
    <3> QED
      BY <3>1, <3>3
  <2>3. CASE ~(k < Chunks)
    BY <2>1, <2>3 DEF Follows, FrameOf
  <2> QED
    BY <2>2, <2>3
<1>3. CASE y \in {RefusalOf(r) : r \in Requests}
  BY <1>3 DEF Follows, RefusalOf
<1> QED
  BY <1>1, <1>2, <1>3 DEF Answer

\* The job of a request that is served.
LEMMA JobItem ==
  ASSUME Serve, NEW r \in Requests, job[r] # <<>>
  PROVE  \E y \in Answer : job[r] = <<y>> /\ job[r][1] = y /\ y.req = r
<1>1. job[r] \in Seq(Answer) /\ Len(job[r]) = 1 /\ job[r][1].req = r
  BY DEF Serve
<1>2. job[r][1] \in Answer /\ job[r] = <<job[r][1]>>
  BY <1>1
<1> QED
  BY <1>1, <1>2

LEMMA OnlyHeadIsServed ==
  ASSUME Serve, NEW r \in Requests, NEW o \in Requests, job[o] # <<>>, chain # <<>>, Head(chain) = r
  PROVE  o = r
BY DEF Serve

\* A request that is served sends its next item.
LEMMA ServeGoesOn ==
  ASSUME Serve, NEW r \in Requests, NEW item \in Answer, item.req = r, chain # <<>>, Head(chain) = r,
         job' = [job EXCEPT ![r] = <<item>>], UNCHANGED <<chain, noted, unread>>
  PROVE  Serve'
<1>1. job \in [Requests -> Seq(Answer)] /\ <<item>> \in Seq(Answer)
  BY DEF Serve
<1>2. job' \in [Requests -> Seq(Answer)] /\ job'[r] = <<item>>
  BY <1>1
<1>3. \A o \in Requests : o # r => job'[o] = <<>>
  <2>1. \A o \in Requests : o # r => job[o] = <<>>
    BY OnlyHeadIsServed
  <2> QED
    BY <1>1, <2>1
<1>4. Len(<<item>>) = 1 /\ <<item>>[1] = item
  OBVIOUS
<1>5. ASSUME NEW o \in Requests, job'[o] # <<>>
      PROVE  Len(job'[o]) = 1 /\ job'[o][1].req = o /\ chain' # <<>> /\ Head(chain') = o
  <2>1. o = r
    BY <1>3, <1>5
  <2> QED
    BY <1>2, <1>4, <2>1, Zenon
<1> QED
  BY <1>2, <1>5 DEF Serve

\* The request that is served is done: the next one is the head of the chain.
LEMMA ServeEnds ==
  ASSUME Serve, NEW r \in Requests, chain # <<>>, Head(chain) = r,
         job' = [job EXCEPT ![r] = <<>>], chain' = Rest, UNCHANGED noted,
         unread' \in SUBSET Requests
  PROVE  Serve'
<1>1. \A o \in Requests : job'[o] = <<>>
  <2>1. \A o \in Requests : o # r => job[o] = <<>>
    BY OnlyHeadIsServed
  <2> QED
    BY <2>1 DEF Serve
<1>2. job' \in [Requests -> Seq(Answer)]
  BY DEF Serve
<1>3. chain' \in Seq(Requests)
  BY DEF Serve, Rest
<1> QED
  BY <1>1, <1>2, <1>3 DEF Serve

LEMMA MayStartIsHead ==
  ASSUME Serve, NEW r \in Requests, r \in ToSet(chain)
  PROVE  chain # <<>>
BY DEF Serve, ToSet

QueueInv == Queue /\ Serve /\ Receive

LEMMA RequestPieceShape ==
  ASSUME QueueInv, NEW r \in Requests, RequestPiece(r)
  PROVE  QueueInv'
<1>1. /\ active' = active \cup {r} /\ result' = [result EXCEPT ![r] = "asked"]
      /\ chain' = Append(chain, r) /\ UNCHANGED <<queueVars, job, noted, unread, header, chunks>>
  BY DEF RequestPiece
<1>2. Queue'
  BY <1>1, Zenon DEF QueueInv, Queue, Shape, BytesAreExact, WaiterIsWoken, BufferedAmount, queueVars
<1>3. chain \in Seq(Requests) /\ chain' \in Seq(Requests)
  BY <1>1 DEF QueueInv, Serve
<1>4. chain # <<>> => chain' # <<>> /\ Head(chain') = Head(chain)
  BY <1>1, <1>3
<1>5. Serve'
  BY <1>1, <1>3, <1>4 DEF QueueInv, Serve
<1>6. Receive'
  BY <1>1 DEF QueueInv, Receive
<1> QED
  BY <1>2, <1>5, <1>6 DEF QueueInv

LEMMA ServeStartsShape ==
  ASSUME QueueInv, NEW r \in Requests, ServeStarts(r)
  PROVE  QueueInv'
<1>1. PICK item \in First(r) : job' = [job EXCEPT ![r] = <<item>>] /\ Enqueue(item)
  BY DEF ServeStarts
<1>2. r \in ToSet(chain) /\ Head(chain) = r /\ UNCHANGED <<chain, noted, unread, receiver>>
  BY DEF ServeStarts, MayStart
<1>3. item \in Answer /\ item \in Item /\ item.req = r
  BY FirstIsAnswer
<1>4. Queue'
  BY <1>1, <1>3, EnqueueKeeps DEF QueueInv
<1>5. Serve'
  BY <1>1, <1>2, <1>3, MayStartIsHead, ServeGoesOn DEF QueueInv
<1>6. Receive'
  BY <1>2, Zenon DEF QueueInv, Receive, receiver
<1> QED
  BY <1>4, <1>5, <1>6 DEF QueueInv

LEMMA SourceFailsShape ==
  ASSUME QueueInv, NEW r \in Requests, SourceFails(r)
  PROVE  QueueInv'
<1>1. /\ r \in ToSet(chain) /\ Head(chain) = r /\ job[r] = <<>> /\ chain' = Rest
      /\ unread' = unread \cup {r} /\ UNCHANGED <<queueVars, job, noted, receiver>>
  BY DEF SourceFails, MayStart, AfterFailure
<1>2. job' = [job EXCEPT ![r] = <<>>]
  BY <1>1 DEF QueueInv, Serve
<1>3. Queue'
  BY <1>1, Zenon DEF QueueInv, Queue, Shape, BytesAreExact, WaiterIsWoken, BufferedAmount, queueVars
<1>4. Serve'
  <2>1. unread' \in SUBSET Requests
    BY <1>1 DEF QueueInv, Serve
  <2> QED
    BY <1>1, <1>2, <2>1, MayStartIsHead, ServeEnds DEF QueueInv
<1>5. Receive'
  BY <1>1, Zenon DEF QueueInv, Receive, receiver
<1> QED
  BY <1>3, <1>4, <1>5 DEF QueueInv

LEMMA ChunkSentShape ==
  ASSUME QueueInv, NEW r \in Requests, ChunkSent(r)
  PROVE  QueueInv'
<1>1. /\ job[r] # <<>> /\ job' = [job EXCEPT ![r] = Follows(@[1])] /\ UNCHANGED <<noted, unread, receiver>>
  BY DEF ChunkSent
<1>2. PICK y \in Answer : job[r] = <<y>> /\ job[r][1] = y /\ y.req = r
  BY <1>1, JobItem DEF QueueInv
<1>3. job' = [job EXCEPT ![r] = Follows(y)] /\ job'[r] = Follows(y)
  BY <1>1, <1>2 DEF QueueInv, Serve
<1>4. chain # <<>> /\ Head(chain) = r
  BY <1>1 DEF QueueInv, Serve
<1>5. Receive'
  BY <1>1, Zenon DEF QueueInv, Receive, receiver
<1>6. CASE Follows(y) = <<>>
  <2>1. chain' = Rest /\ UNCHANGED queueVars
    BY <1>3, <1>6 DEF ChunkSent
  <2>2. Queue'
    BY <2>1, Zenon DEF QueueInv, Queue, Shape, BytesAreExact, WaiterIsWoken, BufferedAmount, queueVars
  <2>3. Serve'
    <3>1. unread' \in SUBSET Requests
      BY <1>1 DEF QueueInv, Serve
    <3> QED
      BY <1>1, <1>3, <1>4, <1>6, <2>1, <3>1, ServeEnds DEF QueueInv
  <2> QED
    BY <1>5, <2>2, <2>3 DEF QueueInv
<1>7. ASSUME NEW z \in Answer, Follows(y) = <<z>>, z.req = y.req, z \in Item
      PROVE  QueueInv'
  <2>1. job'[r] = <<z>> /\ job'[r] # <<>> /\ job'[r][1] = z
    BY <1>3, <1>7
  <2>2. Enqueue(z) /\ UNCHANGED chain
    BY <2>1 DEF ChunkSent
  <2>3. Queue'
    BY <1>7, <2>2, EnqueueKeeps DEF QueueInv
  <2>4. job' = [job EXCEPT ![r] = <<z>>] /\ z.req = r /\ UNCHANGED <<chain, noted, unread>>
    BY <1>1, <1>2, <1>3, <1>7, <2>2
  <2>5. Serve
    BY DEF QueueInv
  <2>6. Serve'
    BY <1>4, <1>7, <2>4, <2>5, ServeGoesOn
  <2> QED
    BY <1>5, <2>3, <2>6 DEF QueueInv
<1> QED
  BY <1>6, <1>7, FollowsIsAnswer

LEMMA ChunkFailsShape ==
  ASSUME QueueInv, NEW r \in Requests, ChunkFails(r)
  PROVE  QueueInv'
<1>1. /\ job[r] # <<>> /\ job' = [job EXCEPT ![r] = <<>>] /\ chain' = Rest
      /\ UNCHANGED <<queueVars, noted, unread, receiver>>
  BY DEF ChunkFails, AfterFailure
<1>2. chain # <<>> /\ Head(chain) = r
  BY <1>1 DEF QueueInv, Serve
<1>3. Queue'
  BY <1>1, Zenon DEF QueueInv, Queue, Shape, BytesAreExact, WaiterIsWoken, BufferedAmount, queueVars
<1>4. Serve'
  <2>1. unread' \in SUBSET Requests
    BY <1>1 DEF QueueInv, Serve
  <2> QED
    BY <1>1, <1>2, <2>1, ServeEnds DEF QueueInv
<1>5. Receive'
  BY <1>1, Zenon DEF QueueInv, Receive, receiver
<1> QED
  BY <1>3, <1>4, <1>5 DEF QueueInv

LEMMA SendNoteShape ==
  ASSUME QueueInv, NEW n \in Notes, SendNote(n)
  PROVE  QueueInv'
<1>1. noted' = noted \cup {n} /\ Enqueue(Note(n)) /\ UNCHANGED <<chain, job, unread, receiver>>
  BY DEF SendNote
<1>2. Queue'
  BY <1>1, EnqueueKeeps DEF QueueInv, Item
<1>3. Serve'
  BY <1>1 DEF QueueInv, Serve
<1>4. Receive'
  BY <1>1, Zenon DEF QueueInv, Receive, receiver
<1> QED
  BY <1>2, <1>3, <1>4 DEF QueueInv

\* A request of the receiver ends.
LEMMA EndsKeeps ==
  ASSUME Receive, NEW r \in Requests, NEW how \in {"ended", "invalid", "good", "corrupt", "refused"},
         Ends(r, how), header' \in Headers \cup {NoHeader}
  PROVE  Receive'
<1>1. Nothing \in [1..Chunks -> SUBSET Item]
  BY DEF Nothing
<1> QED
  BY <1>1 DEF Receive, Ends

LEMMA EndsEarlyShape ==
  ASSUME QueueInv, NEW r \in Requests, EndsEarly(r)
  PROVE  QueueInv'
<1>1. Ends(r, "ended") /\ header' = HeaderAfter(r) /\ UNCHANGED <<queueVars, provider>>
  BY DEF EndsEarly
<1>2. Queue'
  BY <1>1, Zenon DEF QueueInv, Queue, Shape, BytesAreExact, WaiterIsWoken, BufferedAmount, queueVars
<1>3. Serve'
  BY <1>1, Zenon DEF QueueInv, Serve, provider
<1>4. header' \in Headers \cup {NoHeader}
  BY <1>1 DEF QueueInv, Receive, HeaderAfter
<1>5. Receive'
  BY <1>1, <1>4, EndsKeeps DEF QueueInv
<1> QED
  BY <1>2, <1>3, <1>5 DEF QueueInv

LEMMA OnFrameShape ==
  ASSUME Receive, NEW item \in Item, OnFrame(item)
  PROVE  Receive'
<1>1. PICK r \in Requests, k \in 1..Chunks : header = HeaderOf(r, k)
  BY DEF Receive, OnFrame, Headers
<1>2. header.req = r /\ header.chunk = k
  BY <1>1 DEF HeaderOf
<1>3. header' = NoHeader
  BY DEF OnFrame, HeaderAfterFrame
<1> DEFINE taken == [chunks[r] EXCEPT ![k] = {item}]
<1>4. chunks[r] \in [1..Chunks -> SUBSET Item] /\ taken \in [1..Chunks -> SUBSET Item]
  BY DEF Receive
<1>5. \/ \E how \in {"invalid", "good", "corrupt"} : Ends(r, how)
      \/ /\ chunks' = [chunks EXCEPT ![r] = Nothing] \/ chunks' = [chunks EXCEPT ![r] = taken]
         /\ UNCHANGED <<active, result>>
  BY <1>2 DEF OnFrame
<1>6. CASE \E how \in {"invalid", "good", "corrupt"} : Ends(r, how)
  BY <1>3, <1>6, EndsKeeps
<1>7. Nothing \in [1..Chunks -> SUBSET Item]
  BY DEF Nothing
<1> HIDE DEF taken
<1>8. CASE /\ chunks' = [chunks EXCEPT ![r] = Nothing] \/ chunks' = [chunks EXCEPT ![r] = taken]
           /\ UNCHANGED <<active, result>>
  BY <1>3, <1>4, <1>7, <1>8 DEF Receive
<1> QED
  BY <1>5, <1>6, <1>8

LEMMA DeliverReceive ==
  ASSUME Receive, NEW item \in Item,
         \/ item.kind = "header" /\ OnHeader(item)
         \/ OnFrame(item)
         \/ item.kind = "refusal" /\ OnRefusal(item)
         \/ UNCHANGED receiver
  PROVE  Receive'
<1>1. CASE item.kind = "header" /\ OnHeader(item)
  <2>1. item \in Headers /\ item.req \in Requests
    BY <1>1, Items
  <2>2. CASE UNCHANGED receiver
    BY <2>2, Zenon DEF Receive, receiver
  <2>3. CASE header' = item /\ UNCHANGED <<active, chunks, result>>
    BY <2>1, <2>3 DEF Receive
  <2>4. CASE Ends(item.req, "invalid") /\ UNCHANGED header
    <3>1. header' \in Headers \cup {NoHeader}
      BY <2>4 DEF Receive
    <3> QED
      BY <2>1, <2>4, <3>1, EndsKeeps
  <2> QED
    BY <1>1, <2>2, <2>3, <2>4 DEF OnHeader
<1>2. CASE OnFrame(item)
  BY <1>2, OnFrameShape
<1>3. CASE item.kind = "refusal" /\ OnRefusal(item)
  <2>1. item.req \in Requests
    BY <1>3, Items
  <2>2. CASE UNCHANGED receiver
    BY <2>2, Zenon DEF Receive, receiver
  <2>3. CASE Ends(item.req, "refused") /\ header' = HeaderAfter(item.req)
    <3>1. header' \in Headers \cup {NoHeader}
      BY <2>3 DEF Receive, HeaderAfter
    <3> QED
      BY <2>1, <2>3, <3>1, EndsKeeps
  <2> QED
    BY <1>3, <2>2, <2>3 DEF OnRefusal
<1>4. CASE UNCHANGED receiver
  BY <1>4, Zenon DEF Receive, receiver
<1> QED
  BY <1>1, <1>2, <1>3, <1>4

LEMMA DeliverShape ==
  ASSUME QueueInv, Deliver
  PROVE  QueueInv'
<1>1. /\ wire # <<>> /\ wire' = Tail(wire)
      /\ UNCHANGED <<pending, bytes, pump, current, channel, buffer, lowEvent, rejected, provider>>
  BY DEF Deliver
<1>2. Head(wire) \in Item /\ Tail(wire) \in Seq(Item) /\ channel = "open"
  BY <1>1 DEF QueueInv, Queue, Shape
<1>3. Queue'
  BY <1>1, <1>2 DEF QueueInv, Queue, Shape, BytesAreExact, WaiterIsWoken, BufferedAmount
<1>4. Serve'
  BY <1>1, Zenon DEF QueueInv, Serve, provider
<1>5. PICK item \in Item : item = Head(wire)
  BY <1>2
<1>6. \/ item.kind = "header" /\ OnHeader(item)
      \/ OnFrame(item)
      \/ item.kind = "refusal" /\ OnRefusal(item)
      \/ UNCHANGED receiver
  BY <1>5 DEF Deliver
<1>7. Receive'
  BY <1>6, DeliverReceive DEF QueueInv
<1> QED
  BY <1>3, <1>4, <1>7 DEF QueueInv

LEMMA QueueingShape ==
  ASSUME QueueInv, QueueStep \/ ChannelFails, UNCHANGED streamVars
  PROVE  QueueInv'
<1>1. Queue'
  BY PumpTakesKeeps, PumpSendsKeeps, BufferDrainsKeeps, HandleDrainKeeps, ChannelFailsKeeps
     DEF QueueInv, QueueStep
<1>2. Serve' /\ Receive'
  BY Zenon DEF QueueInv, Serve, Receive, streamVars
<1> QED
  BY <1>1, <1>2 DEF QueueInv

LEMMA QueueStarts ==
  ASSUME Init
  PROVE  QueueInv
<1>1. <<>> \in Seq(Item) /\ <<>> \in Seq(Requests) /\ <<>> \in Seq(Answer)
  OBVIOUS
<1>2. Shape
  <2>1. current \in Seq(Item) /\ Len(current) <= 1 /\ rejected \in SUBSET Item /\ IsFiniteSet(rejected)
    BY <1>1, FS_EmptySet DEF Init, QueueInit
  <2> QED
    BY <1>1, <2>1 DEF Init, QueueInit, Shape
<1>3. BytesAreExact /\ WaiterIsWoken
  BY TotalOfNone, QueueAssumption DEF Init, QueueInit, BytesAreExact, WaiterIsWoken
<1>4. Serve
  BY <1>1 DEF Init, Serve
<1>5. Receive
  BY DEF Init, Receive, Nothing
<1> QED
  BY <1>2, <1>3, <1>4, <1>5 DEF QueueInv, Queue

LEMMA QueueKept ==
  ASSUME QueueInv, [Next]_vars
  PROVE  QueueInv'
<1>1. CASE Next
  <2>1. CASE Queueing
    BY <2>1, QueueingShape DEF Queueing
  <2>2. CASE Deliver
    BY <2>2, DeliverShape
  <2>3. CASE ChannelFails /\ UNCHANGED streamVars
    BY <2>3, QueueingShape
  <2>4. ASSUME NEW r \in Requests, RequestPiece(r) \/ Serving(r) \/ EndsEarly(r)
        PROVE  QueueInv'
    BY <2>4, RequestPieceShape, ServeStartsShape, SourceFailsShape, ChunkSentShape, ChunkFailsShape,
       EndsEarlyShape DEF Serving
  <2>5. ASSUME NEW n \in Notes, SendNote(n)
        PROVE  QueueInv'
    BY <2>5, SendNoteShape
  <2> QED
    BY <1>1, <2>1, <2>2, <2>3, <2>4, <2>5 DEF Next
<1>2. CASE UNCHANGED vars
  BY <1>2, Zenon DEF QueueInv, Queue, Shape, Serve, Receive, BytesAreExact, WaiterIsWoken, BufferedAmount,
     vars, queueVars, streamVars
<1> QED
  BY <1>1, <1>2

LEMMA QueueInvImplies ==
  ASSUME QueueInv
  PROVE  QueueIsSound
<1>1. ToSet(chain) \subseteq Requests
  BY DEF QueueInv, Serve, ToSet
<1>2. header = NoHeader \/ header \in {HeaderOf(r, k) : r \in Requests, k \in 1..Chunks}
  BY DEF QueueInv, Receive, Headers
<1> DEFINE served == {r \in Requests : job[r] # <<>>}
<1>3. served \subseteq {Head(chain)}
  BY DEF QueueInv, Serve
<1>4. IsFiniteSet({Head(chain)}) /\ Cardinality({Head(chain)}) = 1
  BY FS_Singleton
<1> HIDE DEF served
<1>5. Cardinality(served) <= Cardinality({Head(chain)})
  BY <1>3, <1>4, FS_Subset
<1>6. Cardinality(served) <= 1
  BY <1>4, <1>5
<1>7. TypeOK
  BY <1>1, <1>2, <1>6 DEF QueueInv, Serve, Receive, TypeOK, served
<1> QED
  BY <1>7 DEF QueueInv, Queue, QueueIsSound

(* The send queue under the stream keeps its books and its shape: the counter *)
(* of pending bytes is exact whether a send succeeds, fails or is rejected   *)
(* in bulk, a pump that waits is woken by a low event still to come, and no  *)
(* two chunk loops of a peer are awake at once (enqueueSend, drainSendQueue, *)
(* waitForWritable, queueRequestedPiece).                                   *)
THEOREM QueueSound == Spec => []QueueIsSound
<1>1. Init => QueueInv
  BY QueueStarts
<1>2. QueueInv /\ [Next]_vars => QueueInv'
  BY QueueKept
<1>3. QueueInv => QueueIsSound
  BY QueueInvImplies
<1> QED
  BY <1>1, <1>2, <1>3, PTL DEF Spec
-----------------------------------------------------------------------------
(* The order of the stream.                                                 *)

Rising(s) == \A i, j \in 1..Len(s) : i < j => s[i] < s[j]

Sorted(s) == \A i, j \in 1..Len(s) : i < j /\ s[i] \in Answer /\ s[j] \in Answer => Before(s[i], s[j])
LineSorted == Sorted(Line)

InOrder ==
  /\ Rising(chain)
  /\ \A o \in ToSet(chain) : result[o] # "none"
  /\ \A o, p \in Requests : p < o /\ result[o] # "none" => result[p] # "none"

\* What was sent and still matters: it is on the line, rejected, the header whose
\* frame is awaited, or the frame a chunk was taken for.
Taken == {f \in Frames : chunks[f.req][f.chunk] # {}}
Known == OnLine \cup (rejected \cap Answer) \cup ({header} \cap Answer) \cup Taken

\* It belongs to the request that is served or to one before it.
Placed ==
  \A x \in Known :
    /\ result[x.req] # "none"
    /\ \A o \in ToSet(chain) : x.req <= o
    /\ x.req \in ToSet(chain) => job[x.req] # <<>>
JobIsLast == \A x \in Known, y \in Answer : job[x.req] = <<y>> => x = y \/ Before(x, y)
QueuedIsAwaited == \A x \in Queued : job[x.req] = <<x>>

\* After a rejected send nothing more of its request is sent.
RejectedIsLast ==
  \A x \in rejected \cap Answer :
    /\ job[x.req] = <<>> \/ job[x.req] = <<x>>
    /\ \A y \in OnLine : y.req = x.req => Before(y, x)

StreamInv == InOrder /\ LineSorted /\ Placed /\ JobIsLast /\ QueuedIsAwaited /\ RejectedIsLast

-----------------------------------------------------------------------------
(* What the receiver holds against what is still to come.                   *)

\* The frame behind a header that was sent: cut off, on its way, or next to be sent.
Follow(v, k) ==
  \/ FrameOf(v, k) \in rejected
  \/ FrameOf(v, k) \in OnLine
  \/ job[v] = <<HeaderOf(v, k)>> /\ HeaderOf(v, k) \notin rejected \cup Queued

HeaderIsOlder ==
  header # NoHeader =>
    /\ \A x \in OnLine : Before(header, x)
    /\ \A j \in 1..Chunks : chunks[header.req][j] # {} => j < header.chunk
ChunksAreOlder ==
  \A r \in Requests, j \in 1..Chunks : chunks[r][j] # {} => \A x \in OnLine : Before(FrameOf(r, j), x)
ChunksAreRight ==
  \A r \in Requests, j \in 1..Chunks :
    chunks[r][j] # {} => chunks[r][j] = {FrameOf(r, j)} \/ FrameOf(r, j) \in rejected
FrameFollows ==
  channel = "open" =>
    /\ header # NoHeader => Follow(header.req, header.chunk)
    /\ \A r \in Requests, k \in 1..Chunks : HeaderOf(r, k) \in Sent => Follow(r, k)
MixedIsOld ==
  \A v \in Mixed :
    /\ \A x \in OnLine : v <= x.req
    /\ \A o \in ToSet(chain) : v <= o
    /\ channel = "open" /\ header # NoHeader /\ header.req < v => \E k \in 1..Chunks : Follow(v, k)
ActiveIsAsked == \A r \in active : result[r] = "asked"
Kept ==
  /\ header # NoHeader => header.req \in active \cup Grid
  /\ NoOrphanAssembly

CutReqs == {r \in Requests : \E k \in 1..Chunks : FrameOf(r, k) \in rejected}
Victims == Mixed \ CutReqs
VictimsAreApart ==
  \A v \in Victims : \E c \in CutReqs : c < v /\ \A u \in Victims : ~(c < u /\ u < v)

AssemblyInv ==
  /\ HeaderIsOlder /\ ChunksAreOlder /\ ChunksAreRight /\ FrameFollows /\ MixedIsOld
  /\ ActiveIsAsked /\ Kept /\ VictimsAreApart
-----------------------------------------------------------------------------
(* Lemmas on sequences and on the order.                                    *)

LEMMA AnswerFields ==
  ASSUME NEW x \in Answer
  PROVE  /\ x \in Item /\ x.req \in Nat /\ x.req \in Requests /\ x.chunk \in Nat
         /\ x.kind \in {"header", "frame", "refusal"}
         /\ (x.kind = "header" => x = HeaderOf(x.req, x.chunk) /\ x.chunk \in 1..Chunks)
         /\ (x.kind = "frame" => x = FrameOf(x.req, x.chunk) /\ x.chunk \in 1..Chunks)
         /\ (x.kind = "refusal" => x.chunk = 0)
<1>1. CASE x \in Headers
  <2>1. PICK r \in Requests, k \in 1..Chunks : x = HeaderOf(r, k)
    BY <1>1 DEF Headers
  <2>2. r \in Nat /\ k \in Nat
    BY StreamAssumption DEF Requests
  <2>3. x.req = r /\ x.chunk = k /\ x.kind = "header"
    BY <2>1 DEF HeaderOf
  <2> QED
    BY <2>1, <2>2, <2>3 DEF Item
<1>2. CASE x \in Frames
  <2>1. PICK r \in Requests, k \in 1..Chunks : x = FrameOf(r, k)
    BY <1>2 DEF Frames
  <2>2. r \in Nat /\ k \in Nat
    BY StreamAssumption DEF Requests
  <2>3. x.req = r /\ x.chunk = k /\ x.kind = "frame"
    BY <2>1 DEF FrameOf
  <2> QED
    BY <2>1, <2>2, <2>3 DEF Item
<1>3. CASE x \in {RefusalOf(r) : r \in Requests}
  <2>1. PICK r \in Requests : x = RefusalOf(r)
    BY <1>3
  <2>2. r \in Nat
    BY StreamAssumption DEF Requests
  <2>3. x.req = r /\ x.chunk = 0 /\ x.kind = "refusal"
    BY <2>1 DEF RefusalOf
  <2> QED
    BY <2>2, <2>3 DEF Item
<1> QED
  BY <1>1, <1>2, <1>3 DEF Answer

LEMMA BeforeIsStrict ==
  /\ \A x \in Answer : ~Before(x, x)
  /\ \A x, y \in Answer : Before(x, y) => ~Before(y, x) /\ x # y
  /\ \A x, y, z \in Answer : Before(x, y) /\ Before(y, z) => Before(x, z)
BY AnswerFields DEF Before

LEMMA BeforeByRequest ==
  /\ \A x, y \in Answer : x.req < y.req => Before(x, y)
  /\ \A x, y \in Answer : Before(x, y) => x.req <= y.req
BY AnswerFields DEF Before

LEMMA ChunkItems ==
  ASSUME NEW r \in Requests, NEW k \in 1..Chunks
  PROVE  /\ HeaderOf(r, k) \in Answer /\ FrameOf(r, k) \in Answer
         /\ HeaderOf(r, k).req = r /\ HeaderOf(r, k).chunk = k /\ HeaderOf(r, k).kind = "header"
         /\ FrameOf(r, k).req = r /\ FrameOf(r, k).chunk = k /\ FrameOf(r, k).kind = "frame"
         /\ Before(HeaderOf(r, k), FrameOf(r, k))
BY DEF Answer, Headers, Frames, HeaderOf, FrameOf, Before

\* Nothing of the stream is between a header and its frame.
LEMMA FrameIsNext ==
  ASSUME NEW r \in Requests, NEW k \in 1..Chunks, NEW y \in Answer, Before(HeaderOf(r, k), y)
  PROVE  y = FrameOf(r, k) \/ Before(FrameOf(r, k), y)
<1>1. y.req \in Nat /\ y.chunk \in Nat /\ r \in Nat /\ k \in Nat /\ k # 0
  BY AnswerFields, StreamAssumption DEF Requests
<1>2. /\ HeaderOf(r, k).req = r /\ HeaderOf(r, k).chunk = k /\ HeaderOf(r, k).kind = "header"
      /\ FrameOf(r, k).req = r /\ FrameOf(r, k).chunk = k /\ FrameOf(r, k).kind = "frame"
  BY ChunkItems
<1>3. CASE r < y.req \/ (r = y.req /\ k < y.chunk)
  BY <1>2, <1>3 DEF Before
<1>4. CASE r = y.req /\ k = y.chunk /\ y.kind = "frame"
  BY <1>4, AnswerFields
<1> QED
  BY <1>2, <1>3, <1>4 DEF Before

LEMMA FollowsIsLater ==
  ASSUME NEW y \in Answer, NEW z \in Answer, Follows(y) = <<z>>
  PROVE  Before(y, z)
<1>1. y.chunk \in Nat /\ Chunks \in Nat
  BY AnswerFields, StreamAssumption
<1>2. CASE y.kind = "header"
  <2>1. z = FrameOf(y.req, y.chunk)
    BY <1>2 DEF Follows
  <2> QED
    BY <1>2, <2>1 DEF Before, FrameOf
<1>3. CASE y.kind = "frame" /\ y.chunk < Chunks
  <2>1. z = HeaderOf(y.req, y.chunk + 1)
    BY <1>3 DEF Follows
  <2>2. z.req = y.req /\ z.chunk = y.chunk + 1
    BY <2>1 DEF HeaderOf
  <2> QED
    BY <1>1, <2>2 DEF Before
<1>4. CASE ~(y.kind = "header") /\ ~(y.kind = "frame" /\ y.chunk < Chunks)
  BY <1>4 DEF Follows
<1> QED
  BY <1>2, <1>3, <1>4

LEMMA InSeq ==
  ASSUME NEW S, NEW s \in Seq(S), NEW x
  PROVE  /\ x \in ToSet(s) <=> \E i \in 1..Len(s) : s[i] = x
         /\ x \in ToSet(s) => x \in S
BY DEF ToSet

LEMMA ToSetConcat ==
  ASSUME NEW S, NEW s \in Seq(S), NEW t \in Seq(S)
  PROVE  s \o t \in Seq(S) /\ ToSet(s \o t) = ToSet(s) \cup ToSet(t)
<1>1. s \o t \in Seq(S) /\ Len(s \o t) = Len(s) + Len(t) /\ Len(s) \in Nat /\ Len(t) \in Nat
  OBVIOUS
<1>2. ASSUME NEW x \in ToSet(s \o t) PROVE x \in ToSet(s) \cup ToSet(t)
  <2>0. PICK i \in DOMAIN (s \o t) : (s \o t)[i] = x
    BY <1>2, Zenon DEF ToSet
  <2>1. i \in 1..Len(s \o t) /\ (s \o t)[i] = x
    BY <1>1, <2>0
  <2>2. CASE i <= Len(s)
    <3>1. i \in 1..Len(s) /\ s[i] = x
      BY <1>1, <2>1, <2>2
    <3> QED
      BY <3>1, InSeq
  <2>3. CASE ~(i <= Len(s))
    <3>1. i - Len(s) \in 1..Len(t) /\ t[i - Len(s)] = x
      BY <1>1, <2>1, <2>3
    <3> QED
      BY <3>1, InSeq
  <2> QED
    BY <2>2, <2>3
<1>3. ASSUME NEW x \in ToSet(s) PROVE x \in ToSet(s \o t)
  <2>1. PICK i \in 1..Len(s) : s[i] = x
    BY <1>3, InSeq
  <2>2. i \in 1..Len(s \o t) /\ (s \o t)[i] = x
    BY <1>1, <2>1
  <2> QED
    BY <1>1, <2>2, InSeq
<1>4. ASSUME NEW x \in ToSet(t) PROVE x \in ToSet(s \o t)
  <2>1. PICK i \in 1..Len(t) : t[i] = x
    BY <1>4, InSeq
  <2>2. Len(s) + i \in 1..Len(s \o t) /\ (s \o t)[Len(s) + i] = x
    BY <1>1, <2>1
  <2> QED
    BY <1>1, <2>2, InSeq
<1> QED
  BY <1>1, <1>2, <1>3, <1>4

LEMMA ToSetSmall ==
  /\ ToSet(<<>>) = {}
  /\ \A x : ToSet(<<x>>) = {x}
BY DEF ToSet

LEMMA ToSetAppend ==
  ASSUME NEW S, NEW s \in Seq(S), NEW x \in S
  PROVE  Append(s, x) \in Seq(S) /\ ToSet(Append(s, x)) = ToSet(s) \cup {x}
<1>1. Append(s, x) = s \o <<x>> /\ <<x>> \in Seq(S)
  OBVIOUS
<1>2. s \o <<x>> \in Seq(S) /\ ToSet(s \o <<x>>) = ToSet(s) \cup ToSet(<<x>>)
  BY <1>1, ToSetConcat, Zenon
<1> QED
  BY <1>1, <1>2, ToSetSmall, Zenon

LEMMA ToSetTail ==
  ASSUME NEW S, NEW s \in Seq(S), s # <<>>
  PROVE  Tail(s) \in Seq(S) /\ Head(s) \in S /\ ToSet(s) = {Head(s)} \cup ToSet(Tail(s))
<1>1. s = <<Head(s)>> \o Tail(s) /\ Tail(s) \in Seq(S) /\ Head(s) \in S /\ <<Head(s)>> \in Seq(S)
  OBVIOUS
<1>2. ToSet(<<Head(s)>> \o Tail(s)) = ToSet(<<Head(s)>>) \cup ToSet(Tail(s))
  BY <1>1, ToSetConcat, Zenon
<1> QED
  BY <1>1, <1>2, ToSetSmall, Zenon

LEMMA CarriedConcat ==
  ASSUME NEW s \in Seq(Item), NEW t \in Seq(Item)
  PROVE  s \o t \in Seq(Item) /\ Carried(s \o t) = Carried(s) \cup Carried(t)
<1>1. s \o t \in Seq(Item) /\ ToSet(s \o t) = ToSet(s) \cup ToSet(t)
  BY ToSetConcat, Zenon
<1> QED
  BY <1>1 DEF Carried

LEMMA CarriedAppend ==
  ASSUME NEW s \in Seq(Item), NEW x \in Item
  PROVE  Append(s, x) \in Seq(Item) /\ Carried(Append(s, x)) = Carried(s) \cup ({x} \cap Answer)
<1>1. Append(s, x) \in Seq(Item) /\ ToSet(Append(s, x)) = ToSet(s) \cup {x}
  BY ToSetAppend, ZenonT(40)
<1> QED
  BY <1>1 DEF Carried

LEMMA SortedParts ==
  ASSUME NEW s \in Seq(Item), NEW t \in Seq(Item), Sorted(s \o t)
  PROVE  /\ Sorted(s) /\ Sorted(t)
         /\ \A x \in Carried(s), y \in Carried(t) : Before(x, y)
<1>1. s \o t \in Seq(Item) /\ Len(s \o t) = Len(s) + Len(t) /\ Len(s) \in Nat /\ Len(t) \in Nat
  OBVIOUS
<1>2. /\ \A i \in 1..Len(s) : i \in 1..Len(s \o t) /\ (s \o t)[i] = s[i]
      /\ \A i \in 1..Len(t) : Len(s) + i \in 1..Len(s \o t) /\ (s \o t)[Len(s) + i] = t[i]
  BY <1>1
<1>3. Sorted(s)
  BY <1>1, <1>2 DEF Sorted
<1>4. Sorted(t)
  <2>1. ASSUME NEW i \in 1..Len(t), NEW j \in 1..Len(t), i < j, t[i] \in Answer, t[j] \in Answer
        PROVE  Before(t[i], t[j])
    <3>1. Len(s) + i < Len(s) + j
      BY <1>1, <2>1
    <3> QED
      BY <1>2, <2>1, <3>1 DEF Sorted
  <2> QED
    BY <2>1 DEF Sorted
<1>5. ASSUME NEW x \in Carried(s), NEW y \in Carried(t) PROVE Before(x, y)
  <2>1. PICK i \in 1..Len(s) : s[i] = x
    BY InSeq DEF Carried
  <2>2. PICK j \in 1..Len(t) : t[j] = y
    BY InSeq DEF Carried
  <2>3. i < Len(s) + j
    BY <1>1
  <2> QED
    BY <1>2, <2>1, <2>2, <2>3 DEF Sorted, Carried
<1> QED
  BY <1>3, <1>4, <1>5

LEMMA SortedAppend ==
  ASSUME NEW s \in Seq(Item), NEW x \in Item, Sorted(s), x \in Answer => \A y \in Carried(s) : Before(y, x)
  PROVE  Sorted(Append(s, x))
<1>1. /\ Len(Append(s, x)) = Len(s) + 1 /\ Append(s, x)[Len(s) + 1] = x /\ Len(s) \in Nat
      /\ \A i \in 1..Len(s) : Append(s, x)[i] = s[i]
  OBVIOUS
<1>2. ASSUME NEW i \in 1..Len(s) + 1, NEW j \in 1..Len(s) + 1, i < j,
             Append(s, x)[i] \in Answer, Append(s, x)[j] \in Answer
      PROVE  Before(Append(s, x)[i], Append(s, x)[j])
  <2>1. i \in 1..Len(s)
    BY <1>1, <1>2
  <2>2. CASE j = Len(s) + 1
    <3>1. s[i] \in Carried(s) /\ x \in Answer
      BY <1>1, <1>2, <2>1, <2>2, InSeq DEF Carried
    <3> QED
      BY <1>1, <2>1, <2>2, <3>1
  <2>3. CASE j \in 1..Len(s)
    BY <1>1, <1>2, <2>1, <2>3 DEF Sorted
  <2> QED
    BY <1>1, <2>2, <2>3
<1> QED
  BY <1>1, <1>2 DEF Sorted

LEMMA SortedTail ==
  ASSUME NEW s \in Seq(Item), s # <<>>, Sorted(s)
  PROVE  /\ Tail(s) \in Seq(Item) /\ Sorted(Tail(s)) /\ Carried(Tail(s)) \subseteq Carried(s)
         /\ Carried(s) \subseteq Carried(Tail(s)) \cup {Head(s)}
         /\ Head(s) \in Answer => Head(s) \in Carried(s) /\ \A y \in Carried(Tail(s)) : Before(Head(s), y)
<1>1. s = <<Head(s)>> \o Tail(s) /\ <<Head(s)>> \in Seq(Item) /\ Tail(s) \in Seq(Item)
  OBVIOUS
<1>2. Sorted(<<Head(s)>> \o Tail(s))
  BY <1>1, Zenon
<1>3. /\ Sorted(Tail(s))
      /\ \A x \in Carried(<<Head(s)>>), y \in Carried(Tail(s)) : Before(x, y)
  BY <1>1, <1>2, SortedParts, Zenon
<1>4. Carried(<<Head(s)>>) = {Head(s)} \cap Answer
  BY ToSetSmall DEF Carried
<1>5. Carried(<<Head(s)>> \o Tail(s)) = Carried(<<Head(s)>>) \cup Carried(Tail(s))
  BY <1>1, CarriedConcat, Zenon
<1>6. Carried(s) = ({Head(s)} \cap Answer) \cup Carried(Tail(s))
  BY <1>1, <1>4, <1>5, Zenon
<1> QED
  BY <1>1, <1>3, <1>4, <1>6

LEMMA RisingHead ==
  ASSUME NEW s \in Seq(Requests), s # <<>>, Rising(s)
  PROVE  /\ Head(s) \in ToSet(s) /\ Head(s) \in Requests /\ Tail(s) \in Seq(Requests) /\ Rising(Tail(s))
         /\ \A o \in ToSet(Tail(s)) : o \in ToSet(s) /\ Head(s) < o /\ o \in Requests
         /\ \A o \in ToSet(s) : Head(s) = o \/ o \in ToSet(Tail(s))
<1>1. /\ Head(s) = s[1] /\ Len(s) \in Nat /\ Len(s) >= 1 /\ Len(Tail(s)) = Len(s) - 1 /\ Tail(s) \in Seq(Requests)
      /\ \A i \in 1..Len(Tail(s)) : Tail(s)[i] = s[i + 1]
  OBVIOUS
<1>2. ToSet(s) = {Head(s)} \cup ToSet(Tail(s)) /\ Head(s) \in Requests
  BY ToSetTail, Zenon
<1>3. Rising(Tail(s))
  BY <1>1 DEF Rising
<1>4. ASSUME NEW o \in ToSet(Tail(s)) PROVE Head(s) < o /\ o \in Requests
  <2>0. PICK i \in DOMAIN Tail(s) : Tail(s)[i] = o
    BY <1>4, Zenon DEF ToSet
  <2>1. i \in 1..Len(Tail(s)) /\ Tail(s)[i] = o
    BY <1>1, <2>0
  <2>2. 1 \in 1..Len(s) /\ i + 1 \in 1..Len(s) /\ s[i + 1] = o /\ 1 < i + 1
    BY <1>1, <2>1
  <2> QED
    BY <1>1, <1>4, <2>2, InSeq DEF Rising
<1> QED
  BY <1>1, <1>2, <1>3, <1>4

LEMMA RisingAppend ==
  ASSUME NEW s \in Seq(Requests), NEW r \in Requests, Rising(s), \A o \in ToSet(s) : o < r
  PROVE  Append(s, r) \in Seq(Requests) /\ Rising(Append(s, r)) /\ ToSet(Append(s, r)) = ToSet(s) \cup {r}
<1>1. /\ Len(Append(s, r)) = Len(s) + 1 /\ Append(s, r)[Len(s) + 1] = r /\ Len(s) \in Nat
      /\ \A i \in 1..Len(s) : Append(s, r)[i] = s[i] /\ s[i] \in ToSet(s)
  BY SMTT(20) DEF ToSet
<1>2. Append(s, r) \in Seq(Requests) /\ ToSet(Append(s, r)) = ToSet(s) \cup {r}
  BY ToSetAppend, ZenonT(40)
<1>3. ASSUME NEW i \in 1..Len(s) + 1, NEW j \in 1..Len(s) + 1, i < j
      PROVE  Append(s, r)[i] < Append(s, r)[j]
  <2>1. i \in 1..Len(s)
    BY <1>1, <1>3
  <2>2. CASE j = Len(s) + 1
    BY <1>1, <2>1, <2>2
  <2>3. CASE j \in 1..Len(s)
    BY <1>1, <1>3, <2>1, <2>3 DEF Rising
  <2> QED
    BY <1>1, <2>2, <2>3
<1> QED
  BY <1>1, <1>2, <1>3 DEF Rising
-----------------------------------------------------------------------------
(* What the steps of the queue and the channel do to the line.              *)

LEMMA LineTypes ==
  ASSUME Shape
  PROVE  /\ wire \in Seq(Item) /\ buffer \in Seq(Item) /\ current \in Seq(Item) /\ pending \in Seq(Item)
         /\ wire \o buffer \in Seq(Item) /\ current \o pending \in Seq(Item) /\ Line \in Seq(Item)
         /\ OnLine = Sent \cup Queued /\ Sent = Carried(wire) \cup Carried(buffer)
         /\ Queued = Carried(current) \cup Carried(pending)
<1>1. wire \in Seq(Item) /\ buffer \in Seq(Item) /\ current \in Seq(Item) /\ pending \in Seq(Item)
  BY DEF Shape
<1>2. /\ wire \o buffer \in Seq(Item) /\ Carried(wire \o buffer) = Carried(wire) \cup Carried(buffer)
      /\ current \o pending \in Seq(Item) /\ Carried(current \o pending) = Carried(current) \cup Carried(pending)
  BY <1>1, CarriedConcat, Zenon
<1>3. Line \in Seq(Item) /\ Carried(Line) = Carried(wire \o buffer) \cup Carried(current \o pending)
  BY <1>2, CarriedConcat, Zenon DEF Line
<1> QED
  BY <1>1, <1>2, <1>3, Zenon DEF OnLine, Sent, Queued

LEMMA CarriedAreAnswers ==
  /\ \A s, x : x \in Carried(s) => x \in Answer
  /\ \A x \in OnLine \cup Sent \cup Queued \cup Known : x \in Answer
BY DEF Carried, OnLine, Sent, Queued, Known, Taken, Answer

\* Items move along the line; some are rejected out of the queue, and a channel that
\* closes loses the rest.
FlowStep ==
  /\ UNCHANGED streamVars
  /\ LineSorted' /\ OnLine' \subseteq OnLine /\ Queued' \subseteq Queued
  /\ rejected \subseteq rejected'
  /\ \A x \in rejected' \ rejected : x \in Answer => x \in Queued /\ x \notin OnLine'
  /\ channel' = "open" =>
       /\ channel = "open" /\ OnLine \subseteq OnLine' \cup rejected'
       /\ \A x \in Sent' : x \in OnLine' /\ (x \in Sent \/ (x \in Queued /\ x \notin Queued'))

LEMMA LineSame ==
  ASSUME Shape, LineSorted, UNCHANGED streamVars, UNCHANGED <<channel, rejected>>, Line' = Line,
         current' \o pending' = current \o pending, wire' \o buffer' = wire \o buffer
  PROVE  FlowStep
<1>1. OnLine' = OnLine /\ Queued' = Queued /\ Sent' = Sent
  BY Zenon DEF OnLine, Queued, Sent, Carried
<1>2. LineSorted'
  BY Zenon DEF LineSorted, Sorted
<1>3. Sent \subseteq OnLine
  BY LineTypes
<1> QED
  BY <1>1, <1>2, <1>3 DEF FlowStep

LEMMA PumpTakesFlows ==
  ASSUME Shape, LineSorted, PumpTakes, UNCHANGED streamVars
  PROVE  FlowStep
<1>1. /\ pending # <<>> /\ current = <<>> /\ current' = <<Head(pending)>> /\ pending' = Tail(pending)
      /\ UNCHANGED <<channel, buffer, wire, rejected>>
  BY DEF PumpTakes, Shape
<1>2. <<Head(pending)>> \o Tail(pending) = pending /\ <<>> \o pending = pending
  BY <1>1 DEF Shape
<1>3. current' \o pending' = current \o pending
  BY <1>1, <1>2, Zenon
<1>4. Line' = Line /\ wire' \o buffer' = wire \o buffer
  BY <1>1, <1>3, Zenon DEF Line
<1> QED
  BY <1>1, <1>3, <1>4, LineSame

LEMMA BufferDrainsFlows ==
  ASSUME Shape, LineSorted, BufferDrains, UNCHANGED streamVars
  PROVE  FlowStep
<1>1. /\ buffer # <<>> /\ buffer' = Tail(buffer) /\ wire' = Append(wire, Head(buffer))
      /\ UNCHANGED <<channel, pending, current, rejected>>
  BY DEF BufferDrains
<1>2. Append(wire, Head(buffer)) \o Tail(buffer) = wire \o buffer
  BY <1>1 DEF Shape
<1>3. wire' \o buffer' = wire \o buffer /\ current' \o pending' = current \o pending
  BY <1>1, <1>2, Zenon
<1>4. Line' = Line
  BY <1>3, Zenon DEF Line
<1> QED
  BY <1>1, <1>3, <1>4, LineSame

LEMMA HandleDrainFlows ==
  ASSUME Shape, LineSorted, HandleDrain, UNCHANGED streamVars
  PROVE  FlowStep
<1>1. UNCHANGED <<pending, current, channel, buffer, wire, rejected>>
  BY DEF HandleDrain
<1>2. wire' \o buffer' = wire \o buffer /\ current' \o pending' = current \o pending
  BY <1>1, Zenon
<1>3. Line' = Line
  BY <1>2, Zenon DEF Line
<1> QED
  BY <1>1, <1>2, <1>3, LineSame

LEMMA PumpSendsFlows ==
  ASSUME Shape, LineSorted, PumpSends, UNCHANGED streamVars
  PROVE  FlowStep
<1>1. /\ pump = "sending" /\ current' = <<>>
      /\ UNCHANGED <<pending, channel, wire>>
      /\ \/ channel = "open" /\ buffer' = buffer \o current /\ rejected' = rejected
         \/ channel = "closed" /\ rejected' = rejected \cup ToSet(current) /\ buffer' = buffer
  BY DEF PumpSends, Shape
<1>2. current # <<>> /\ Len(current) <= 1 /\ current \in Seq(Item)
  BY <1>1 DEF Shape
<1>3. PICK c \in Item : current = <<c>>
  BY <1>2, OneItem, Zenon
<1>4. /\ Line \in Seq(Item) /\ Sorted(current \o pending)
      /\ \A x \in Carried(current), y \in Carried(pending) : Before(x, y)
  <2>1. Line \in Seq(Item) /\ wire \o buffer \in Seq(Item) /\ current \o pending \in Seq(Item)
    BY LineTypes
  <2>2. Sorted(current \o pending)
    BY <2>1, SortedParts, Zenon DEF LineSorted, Line
  <2>3. \A x \in Carried(current), y \in Carried(pending) : Before(x, y)
    BY <2>2, LineTypes, SortedParts, Zenon
  <2> QED
    BY <2>1, <2>2, <2>3
<1>5. Carried(current) \cap Carried(pending) = {}
  BY <1>4, BeforeIsStrict, CarriedAreAnswers
<1>6. <<>> \o pending = pending
  BY LineTypes
<1>7. Queued' = Carried(pending)
  BY <1>1, <1>6, Zenon DEF Queued, Carried
<1>8. Queued = Carried(current) \cup Carried(pending)
  BY LineTypes
<1>9. ToSet(current) = {c} /\ Carried(current) = {c} \cap Answer
  BY <1>3, ToSetSmall DEF Carried
<1>10. CASE channel = "open"
  <2>1. buffer' = buffer \o current /\ rejected' = rejected
    BY <1>1, <1>10
  <2>2. (wire \o (buffer \o current)) \o (<<>> \o pending) = (wire \o buffer) \o (current \o pending)
    <3>1. wire \in Seq(Item) /\ buffer \in Seq(Item) /\ current \in Seq(Item) /\ pending \in Seq(Item)
      BY LineTypes
    <3>2. <<>> \o pending = pending
      BY <3>1
    <3>3. wire \o (buffer \o current) = (wire \o buffer) \o current
      BY <3>1
    <3>4. ((wire \o buffer) \o current) \o pending = (wire \o buffer) \o (current \o pending)
      BY <3>1, SMTT(30)
    <3> QED
      BY <3>2, <3>3, <3>4
  <2>3. Line' = Line
    BY <1>1, <2>1, <2>2, Zenon DEF Line
  <2>4. OnLine' = OnLine /\ LineSorted'
    BY <2>3, Zenon DEF OnLine, Carried, LineSorted, Sorted
  <2>5. wire \o (buffer \o current) = (wire \o buffer) \o current
    BY LineTypes
  <2>6. Carried((wire \o buffer) \o current) = Carried(wire \o buffer) \cup Carried(current)
    BY LineTypes, CarriedConcat, Zenon
  <2>7. Sent' = Sent \cup Carried(current)
    BY <1>1, <2>1, <2>5, <2>6, Zenon DEF Sent, Carried
  <2>8. \A x \in Sent' : x \in OnLine' /\ (x \in Sent \/ (x \in Queued /\ x \notin Queued'))
    BY <1>5, <1>7, <1>8, <2>4, <2>7, LineTypes
  <2> QED
    BY <1>1, <1>7, <1>8, <1>10, <2>1, <2>4, <2>8 DEF FlowStep
<1>11. CASE channel = "closed"
  <2>1. /\ wire = <<>> /\ buffer = <<>> /\ wire' = <<>> /\ buffer' = <<>> /\ channel' = "closed"
        /\ rejected' = rejected \cup {c}
    BY <1>1, <1>9, <1>11 DEF Shape
  <2>2. (<<>> \o <<>>) \o (<<>> \o pending) = pending
    BY LineTypes
  <2>3. Line' = pending
    BY <1>1, <2>1, <2>2, Zenon DEF Line
  <2>4. OnLine' = Carried(pending)
    BY <1>1, <2>3, Zenon DEF OnLine, Carried
  <2>5. Sorted(pending)
    BY <1>4, LineTypes, SortedParts, Zenon
  <2>6. LineSorted'
    BY <2>3, <2>5, Zenon DEF LineSorted, Sorted
  <2>7. OnLine' \subseteq OnLine
    BY <1>8, <2>4, LineTypes
  <2>8. \A x \in rejected' \ rejected : x \in Answer => x \in Queued /\ x \notin OnLine'
    BY <1>5, <1>8, <1>9, <2>1, <2>4
  <2> QED
    BY <1>7, <1>8, <2>1, <2>6, <2>7, <2>8 DEF FlowStep
<1> QED
  BY <1>10, <1>11 DEF Shape

LEMMA ChannelFailsFlows ==
  ASSUME Shape, LineSorted, ChannelFails, UNCHANGED streamVars
  PROVE  FlowStep
<1>1. /\ channel = "open" /\ pending' = <<>> /\ channel' \in {"open", "closed"}
      /\ buffer' = IF channel' = "open" THEN buffer ELSE <<>>
      /\ wire' = IF channel' = "open" THEN wire ELSE <<>>
      /\ \/ current' = <<>> /\ rejected' = (rejected \cup ToSet(pending)) \cup ToSet(current)
         \/ current' = current /\ rejected' = rejected \cup ToSet(pending)
  BY DEF ChannelFails
<1>2. /\ wire \in Seq(Item) /\ buffer \in Seq(Item) /\ current \in Seq(Item) /\ pending \in Seq(Item)
      /\ wire \o buffer \in Seq(Item) /\ current \o pending \in Seq(Item)
      /\ Line \in Seq(Item) /\ OnLine = Sent \cup Queued /\ Queued = Carried(current) \cup Carried(pending)
  BY LineTypes
<1>3. Sorted((wire \o buffer) \o (current \o pending))
  BY DEF LineSorted, Line
<1>4. /\ Sorted(wire \o buffer) /\ Sorted(current \o pending)
      /\ \A x \in Sent, y \in Queued : Before(x, y)
  BY <1>2, <1>3, SortedParts, Zenon DEF Sent, Queued
<1>5. Sorted(current) /\ \A x \in Carried(current), y \in Carried(pending) : Before(x, y)
  BY <1>2, <1>4, SortedParts, Zenon
<1>6. (wire \o buffer) \o (current \o pending) = ((wire \o buffer) \o current) \o pending
  BY <1>2, SMTT(30)
<1>7. Sorted((wire \o buffer) \o current)
  <2>1. Sorted(((wire \o buffer) \o current) \o pending)
    BY <1>3, <1>6, Zenon
  <2>2. (wire \o buffer) \o current \in Seq(Item)
    BY <1>2, CarriedConcat, Zenon
  <2> QED
    BY <1>2, <2>1, <2>2, SortedParts, Zenon
<1>8. Carried((wire \o buffer) \o current) = Sent \cup Carried(current)
  BY <1>2, CarriedConcat, Zenon DEF Sent
<1>9. Carried(<<>>) = {} /\ Sorted(<<>>)
  BY ToSetSmall DEF Carried, Sorted
<1>10. Queued' = Carried(current') /\ (current' = <<>> \/ current' = current)
  <2>1. current \o <<>> = current /\ <<>> \o <<>> = <<>>
    BY <1>2
  <2>2. current' \o pending' = current' /\ (current' = <<>> \/ current' = current)
    BY <1>1, <2>1
  <2> QED
    BY <2>2, Zenon DEF Queued, Carried
<1>11. Queued' \subseteq Carried(current) /\ Queued' \subseteq Queued
  <2>1. CASE current' = <<>>
    BY <1>9, <1>10, <2>1, Zenon
  <2>2. CASE current' = current
    BY <1>2, <1>10, <2>2
  <2> QED
    BY <1>10, <2>1, <2>2
<1>12. Sorted(Line') /\ Carried(Line') = Sent' \cup Queued' /\ Sent' \subseteq Sent
      /\ (channel' = "open" => Sent' = Sent)
  <2>1. CASE channel' = "open" /\ current' = current
    <3>1. Line' = (wire \o buffer) \o (current \o <<>>) /\ current \o <<>> = current /\ Sent' = Sent
      BY <1>1, <1>2, <2>1 DEF Line, Sent
    <3> QED
      BY <1>7, <1>8, <1>10, <2>1, <3>1, Zenon
  <2>2. CASE channel' = "open" /\ current' = <<>>
    <3>1. Line' = (wire \o buffer) \o (<<>> \o <<>>) /\ (wire \o buffer) \o (<<>> \o <<>>) = wire \o buffer
      BY <1>1, <1>2, <2>2 DEF Line
    <3>2. Sent' = Sent /\ Sent = Carried(wire \o buffer)
      BY <1>1, <2>2 DEF Sent
    <3> QED
      BY <1>4, <1>9, <1>10, <2>2, <3>1, <3>2
  <2>3. CASE channel' = "closed"
    <3>1. wire' = <<>> /\ buffer' = <<>>
      BY <1>1, <2>3
    <3>2. Line' = (<<>> \o <<>>) \o (current' \o <<>>) /\ Sent' = Carried(<<>> \o <<>>)
      BY <1>1, <3>1 DEF Line, Sent
    <3>3. <<>> \o <<>> = <<>> /\ (<<>> \o <<>>) \o (current' \o <<>>) = current'
      BY <1>2, <1>10
    <3>4. Sorted(current')
      BY <1>5, <1>9, <1>10
    <3> QED
      BY <1>9, <1>10, <2>3, <3>2, <3>3, <3>4
  <2> QED
    BY <1>1, <1>10, <2>1, <2>2, <2>3
<1>13. LineSorted' /\ OnLine' = Sent' \cup Queued'
  BY <1>12, Zenon DEF LineSorted, Sorted, OnLine, Carried
<1>14. OnLine' \subseteq OnLine
  BY <1>2, <1>11, <1>12, <1>13
<1>15. \A x \in rejected' \ rejected : x \in Answer => x \in Queued /\ x \notin OnLine'
  <2>1. \A x \in Sent' : x \in Sent
    BY <1>12
  <2>2. \A x \in Queued : x \notin Sent
    BY <1>4, BeforeIsStrict, CarriedAreAnswers
  <2>3. Carried(current) \cap Carried(pending) = {}
    BY <1>5, BeforeIsStrict, CarriedAreAnswers
  <2>4. CASE current' = current /\ rejected' = rejected \cup ToSet(pending)
    <3>1. \A x \in rejected' \ rejected : x \in Answer => x \in Carried(pending)
      BY <2>4 DEF Carried
    <3> QED
      BY <1>2, <1>11, <1>13, <2>1, <2>2, <2>3, <3>1
  <2>5. CASE current' = <<>> /\ rejected' = (rejected \cup ToSet(pending)) \cup ToSet(current)
    <3>1. \A x \in rejected' \ rejected : x \in Answer => x \in Carried(pending) \cup Carried(current)
      BY <2>5 DEF Carried
    <3>2. Queued' = {}
      BY <1>9, <1>10, <2>5, Zenon
    <3> QED
      BY <1>2, <1>13, <2>1, <2>2, <3>1, <3>2
  <2> QED
    BY <1>1, <2>4, <2>5
<1>16. rejected \subseteq rejected'
  BY <1>1
<1>17. OnLine \subseteq OnLine' \cup rejected' \/ channel' # "open"
  <2>1. Carried(pending) \subseteq rejected'
    BY <1>1 DEF Carried
  <2>2. Carried(current) \subseteq rejected' \cup Queued'
    BY <1>1, <1>10 DEF Carried
  <2> QED
    BY <1>2, <1>12, <1>13, <2>1, <2>2
<1> QED
  BY <1>1, <1>11, <1>12, <1>13, <1>14, <1>15, <1>16, <1>17 DEF FlowStep

LEMMA FlowIsFlowStep ==
  ASSUME Shape, LineSorted, QueueStep \/ ChannelFails, UNCHANGED streamVars
  PROVE  FlowStep
BY PumpTakesFlows, PumpSendsFlows, BufferDrainsFlows, HandleDrainFlows, ChannelFailsFlows DEF QueueStep

\* A send joins the line at its end or is rejected at once.
Joins(item) ==
  /\ UNCHANGED channel /\ Sent' = Sent
  /\ \/ /\ rejected' = rejected /\ Line' = Append(Line, item)
        /\ OnLine' = OnLine \cup ({item} \cap Answer) /\ Queued' = Queued \cup ({item} \cap Answer)
     \/ /\ rejected' = rejected \cup {item} /\ Line' = Line
        /\ OnLine' = OnLine /\ Queued' = Queued

LEMMA EnqueueJoins ==
  ASSUME Shape, NEW item \in Item, Enqueue(item)
  PROVE  Joins(item)
<1>1. UNCHANGED <<current, channel, buffer, wire>>
  BY DEF Enqueue
<1>2. Sent' = Sent
  BY <1>1, Zenon DEF Sent, Carried
<1>3. CASE Fits(item)
  <2>1. pending' = Append(pending, item) /\ rejected' = rejected
    BY <1>3 DEF Enqueue
  <2>2. current \o Append(pending, item) = Append(current \o pending, item)
    BY LineTypes
  <2>3. (wire \o buffer) \o Append(current \o pending, item) = Append((wire \o buffer) \o (current \o pending), item)
    BY LineTypes
  <2>4. Line' = Append(Line, item) /\ current' \o pending' = Append(current \o pending, item)
    BY <1>1, <2>1, <2>2, <2>3, Zenon DEF Line
  <2>5. /\ Carried(Append(Line, item)) = Carried(Line) \cup ({item} \cap Answer)
        /\ Carried(Append(current \o pending, item)) = Carried(current \o pending) \cup ({item} \cap Answer)
    BY LineTypes, CarriedAppend, Zenon
  <2>6. OnLine' = OnLine \cup ({item} \cap Answer) /\ Queued' = Queued \cup ({item} \cap Answer)
    BY <2>4, <2>5, Zenon DEF OnLine, Queued, Carried
  <2> QED
    BY <1>1, <1>2, <2>1, <2>4, <2>6 DEF Joins
<1>4. CASE ~Fits(item)
  <2>1. UNCHANGED pending /\ rejected' = rejected \cup {item}
    BY <1>4 DEF Enqueue
  <2>2. Line' = Line /\ current' \o pending' = current \o pending
    BY <1>1, <2>1, Zenon DEF Line
  <2>3. OnLine' = OnLine /\ Queued' = Queued
    BY <2>2, Zenon DEF OnLine, Queued, Carried
  <2> QED
    BY <1>1, <1>2, <2>1, <2>2, <2>3 DEF Joins
<1> QED
  BY <1>3, <1>4
-----------------------------------------------------------------------------
(* The order of the stream is kept.                                         *)

\* Steps that take nothing new into the stream.
ShrinkStep ==
  /\ UNCHANGED <<chain, job>>
  /\ \A r \in Requests : result'[r] = "none" <=> result[r] = "none"
  /\ LineSorted' /\ OnLine' \subseteq OnLine /\ Queued' \subseteq Queued /\ Known' \subseteq Known
  /\ \A x \in rejected' \ rejected : x \in Answer => x \in Queued /\ x \notin OnLine'

LEMMA KnownParts ==
  /\ OnLine \subseteq Known /\ (rejected \cap Answer) \subseteq Known
  /\ header \in Answer => header \in Known
  /\ Taken \subseteq Known
BY DEF Known

LEMMA ChainMembers ==
  ASSUME Serve
  PROVE  chain \in Seq(Requests) /\ (\A o \in ToSet(chain) : o \in Requests /\ o \in Nat)
<1>1. chain \in Seq(Requests)
  BY DEF Serve
<1>2. \A o \in ToSet(chain) : o \in Requests
  BY <1>1, InSeq
<1> QED
  BY <1>1, <1>2, StreamAssumption DEF Requests

LEMMA ShrinkKeepsStream ==
  ASSUME QueueInv, StreamInv, ShrinkStep
  PROVE  StreamInv'
<1>1. InOrder'
  <2>1. \A o \in ToSet(chain) : o \in Requests
    BY ChainMembers DEF QueueInv
  <2> QED
    BY <2>1 DEF StreamInv, InOrder, ShrinkStep
<1>2. Placed'
  <2>1. \A x \in Known' : x \in Known /\ x.req \in Requests
    BY CarriedAreAnswers, AnswerFields DEF ShrinkStep
  <2> QED
    BY <2>1 DEF StreamInv, Placed, ShrinkStep
<1>3. JobIsLast'
  BY DEF StreamInv, JobIsLast, ShrinkStep
<1>4. QueuedIsAwaited'
  BY DEF StreamInv, QueuedIsAwaited, ShrinkStep
<1>5. RejectedIsLast'
  <2>1. ASSUME NEW x \in rejected' \cap Answer
        PROVE  /\ job'[x.req] = <<>> \/ job'[x.req] = <<x>>
               /\ \A y \in OnLine' : y.req = x.req => Before(y, x)
    <3>1. CASE x \in rejected
      BY <2>1, <3>1 DEF StreamInv, RejectedIsLast, ShrinkStep
    <3>2. CASE x \notin rejected
      <4>1. x \in Queued /\ x \notin OnLine'
        BY <2>1, <3>2 DEF ShrinkStep
      <4>2. job[x.req] = <<x>> /\ job' = job
        BY <4>1 DEF StreamInv, QueuedIsAwaited, ShrinkStep
      <4>3. \A y \in OnLine' : y \in Known /\ y # x
        BY <4>1, KnownParts DEF ShrinkStep
      <4>4. \A y \in OnLine' : y.req = x.req => Before(y, x)
        BY <2>1, <4>2, <4>3 DEF StreamInv, JobIsLast
      <4> QED
        BY <4>2, <4>4
    <3> QED
      BY <3>1, <3>2
  <2> QED
    BY <2>1 DEF RejectedIsLast
<1>6. LineSorted'
  BY DEF ShrinkStep
<1> QED
  BY <1>1, <1>2, <1>3, <1>4, <1>5, <1>6 DEF StreamInv

LEMMA FlowShrinks ==
  ASSUME QueueInv, StreamInv, FlowStep
  PROVE  ShrinkStep
<1>1. UNCHANGED <<chain, job, result, header, chunks>>
  BY DEF FlowStep, streamVars
<1>2. Queued \subseteq OnLine
  BY LineTypes DEF QueueInv, Queue
<1>3. Known' \subseteq Known
  <2>1. rejected' \cap Answer \subseteq Known
    BY <1>2, KnownParts DEF FlowStep
  <2>2. OnLine' \subseteq Known
    BY KnownParts DEF FlowStep
  <2>3. {header'} \cap Answer \subseteq Known
    BY <1>1, KnownParts
  <2>4. Taken' = Taken
    BY <1>1, Zenon DEF Taken
  <2> QED
    BY <2>1, <2>2, <2>3, <2>4, KnownParts DEF Known
<1> QED
  BY <1>1, <1>3 DEF FlowStep, ShrinkStep

\* A request that is served sends an item that is new.
ServeStep(r, item) ==
  /\ item.req = r /\ chain # <<>> /\ Head(chain) = r
  /\ job' = [job EXCEPT ![r] = <<item>>] /\ UNCHANGED <<chain, receiver>>
  /\ Joins(item)
  /\ \A x \in Known : x.req = r => Before(x, item)
  /\ \A x \in Queued : x.req # r
  /\ \A x \in rejected \cap Answer : x.req # r
  /\ \A k \in 1..Chunks : job[r] = <<HeaderOf(r, k)>> => item = FrameOf(r, k)

LEMMA ServeStartsIsServeStep ==
  ASSUME QueueInv, StreamInv, NEW r \in Requests, ServeStarts(r)
  PROVE  \E item \in Answer : ServeStep(r, item)
<1>1. PICK item \in First(r) : job' = [job EXCEPT ![r] = <<item>>] /\ Enqueue(item)
  BY DEF ServeStarts
<1>2. r \in ToSet(chain) /\ Head(chain) = r /\ job[r] = <<>> /\ UNCHANGED <<chain, receiver>>
  BY DEF ServeStarts, MayStart
<1>3. item \in Answer /\ item \in Item /\ item.req = r
  BY FirstIsAnswer
<1>4. Joins(item)
  BY <1>1, <1>3, EnqueueJoins DEF QueueInv, Queue
<1>5. \A x \in Known : x.req # r
  BY <1>2 DEF StreamInv, Placed
<1>6. Queued \subseteq Known
  BY LineTypes, KnownParts DEF QueueInv, Queue
<1>7. \A x \in Queued \cup (rejected \cap Answer) : x.req # r
  BY <1>5, <1>6, KnownParts
<1>8. chain # <<>>
  BY <1>2, MayStartIsHead DEF QueueInv
<1>9. \A k \in 1..Chunks : job[r] # <<HeaderOf(r, k)>>
  BY <1>2
<1> QED
  BY <1>1, <1>2, <1>3, <1>4, <1>5, <1>7, <1>8, <1>9 DEF ServeStep

LEMMA HeadIsInChain ==
  ASSUME Serve, NEW r \in Requests, chain # <<>>, Head(chain) = r
  PROVE  r \in ToSet(chain)
BY ToSetTail DEF Serve

LEMMA ChunkSentIsServeStep ==
  ASSUME QueueInv, StreamInv, NEW r \in Requests, ChunkSent(r), job'[r] # <<>>
  PROVE  \E item \in Answer : ServeStep(r, item)
<1>1. /\ job[r] # <<>> /\ ~Waits(job[r][1]) /\ job[r][1] \notin rejected
      /\ job' = [job EXCEPT ![r] = Follows(@[1])] /\ UNCHANGED receiver
      /\ Enqueue(job'[r][1]) /\ UNCHANGED chain
  BY DEF ChunkSent
<1>2. PICK y \in Answer : job[r] = <<y>> /\ job[r][1] = y /\ y.req = r
  BY <1>1, JobItem DEF QueueInv
<1>3. job' = [job EXCEPT ![r] = Follows(y)] /\ job'[r] = Follows(y)
  BY <1>1, <1>2 DEF QueueInv, Serve
<1>4. PICK z \in Answer : Follows(y) = <<z>> /\ z.req = y.req /\ z \in Item
  BY <1>3, FollowsIsAnswer
<1>5. job'[r][1] = z /\ Joins(z)
  <2>1. job'[r][1] = z
    BY <1>3, <1>4
  <2> QED
    BY <1>1, <1>4, <2>1, EnqueueJoins DEF QueueInv, Queue
<1>6. chain # <<>> /\ Head(chain) = r
  BY <1>1 DEF QueueInv, Serve
<1>7. \A x \in Known : x.req = r => Before(x, z)
  <2>1. Before(y, z)
    BY <1>4, FollowsIsLater
  <2>2. \A x \in Known : x.req = r => x = y \/ Before(x, y)
    BY <1>2 DEF StreamInv, JobIsLast
  <2>3. \A x \in Known : x \in Answer
    BY CarriedAreAnswers
  <2> QED
    BY <2>1, <2>2, <2>3, BeforeIsStrict
<1>8. \A x \in Queued : x.req # r
  <2>1. \A x \in Queued : x.req = r => x = y
    BY <1>2 DEF StreamInv, QueuedIsAwaited
  <2>2. y \notin Queued
    <3>1. y \notin ToSet(pending) /\ y \notin ToSet(current)
      BY <1>1, <1>2 DEF Waits
    <3> QED
      BY <3>1, LineTypes DEF QueueInv, Queue, Carried
  <2> QED
    BY <2>1, <2>2
<1>9. \A x \in rejected \cap Answer : x.req # r
  <2>1. \A x \in rejected \cap Answer : x.req = r => x = y
    BY <1>1, <1>2 DEF StreamInv, RejectedIsLast
  <2> QED
    BY <1>1, <1>2, <2>1
<1>10. \A k \in 1..Chunks : job[r] = <<HeaderOf(r, k)>> => z = FrameOf(r, k)
  <2>1. ASSUME NEW k \in 1..Chunks, job[r] = <<HeaderOf(r, k)>> PROVE z = FrameOf(r, k)
    <3>1. y = HeaderOf(r, k)
      BY <1>2, <2>1
    <3>2. Follows(y) = <<FrameOf(r, k)>>
      BY <3>1 DEF Follows, HeaderOf
    <3> QED
      BY <1>4, <3>2
  <2> QED
    BY <2>1
<1>11. job' = [job EXCEPT ![r] = <<z>>] /\ z.req = r
  BY <1>2, <1>3, <1>4
<1> QED
  BY <1>1, <1>5, <1>6, <1>7, <1>8, <1>9, <1>10, <1>11 DEF ServeStep

LEMMA OthersIdle ==
  ASSUME Serve, NEW r \in Requests, chain # <<>>, Head(chain) = r
  PROVE  \A o \in Requests : o # r => job[o] = <<>>
BY OnlyHeadIsServed

LEMMA ServeKeepsStream ==
  ASSUME QueueInv, StreamInv, NEW r \in Requests, NEW item \in Answer, ServeStep(r, item)
  PROVE  StreamInv'
<1>1. /\ item.req = r /\ chain # <<>> /\ Head(chain) = r /\ r \in ToSet(chain)
      /\ chain' = chain /\ result' = result /\ header' = header /\ Taken' = Taken
  BY HeadIsInChain DEF ServeStep, receiver, QueueInv, Taken
<1>2. job' = [job EXCEPT ![r] = <<item>>] /\ job'[r] = <<item>> /\ \A o \in Requests : o # r => job'[o] = <<>>
  BY <1>1, OthersIdle DEF ServeStep, QueueInv, Serve
<1>3. item \in Item /\ r \in Nat /\ {item} \cap Answer = {item}
  BY StreamAssumption DEF Requests, Item
<1>4. /\ \A x \in Known' : x \in Known \/ x = item
      /\ \A x \in Queued' : x \in Queued \/ x = item
      /\ \A x \in OnLine' : x \in OnLine \/ x = item
  BY <1>1, <1>3 DEF ServeStep, Joins, Known
<1>5. \A x \in Known : x \in Answer /\ x.req \in Requests /\ x.req \in Nat /\ x.req <= r /\ result[x.req] # "none"
  BY <1>1, CarriedAreAnswers, AnswerFields DEF StreamInv, Placed
<1>6. \A x \in Known : Before(x, item)
  <2>1. \A x \in Known : x.req = r => Before(x, item)
    BY DEF ServeStep
  <2>2. \A x \in Known : x.req < r => Before(x, item)
    BY <1>1, <1>5, BeforeByRequest
  <2> QED
    BY <1>3, <1>5, <2>1, <2>2
<1>7. InOrder'
  BY <1>1, Zenon DEF StreamInv, InOrder
<1>8. LineSorted'
  <2>1. Line \in Seq(Item) /\ Sorted(Line)
    BY LineTypes DEF QueueInv, Queue, StreamInv, LineSorted
  <2>2. \A x \in Carried(Line) : Before(x, item)
    BY <1>6, KnownParts DEF OnLine
  <2>3. Sorted(Append(Line, item))
    BY <1>3, <2>1, <2>2, SortedAppend
  <2>4. Line' = Line \/ Line' = Append(Line, item)
    BY DEF ServeStep, Joins
  <2> QED
    BY <2>1, <2>3, <2>4, Zenon DEF LineSorted, Sorted
<1>9. Placed'
  <2>1. ASSUME NEW x \in Known'
        PROVE  /\ result'[x.req] # "none"
               /\ \A o \in ToSet(chain') : x.req <= o
               /\ x.req \in ToSet(chain') => job'[x.req] # <<>>
    <3>1. CASE x = item
      <4>1. result[r] # "none"
        BY <1>1 DEF StreamInv, InOrder
      <4>2. \A o \in ToSet(chain) : r <= o
        <5>1. chain \in Seq(Requests) /\ Rising(chain) /\ \A o \in ToSet(chain) : o \in Nat
          BY ChainMembers DEF QueueInv, StreamInv, InOrder
        <5> QED
          BY <1>1, <1>3, <5>1, RisingHead
      <4> QED
        BY <1>1, <1>2, <3>1, <4>1, <4>2
    <3>2. CASE x \in Known
      <4>1. x.req \in ToSet(chain) => x.req = r
        <5>1. x.req \in ToSet(chain) => job[x.req] # <<>>
          BY <3>2 DEF StreamInv, Placed
        <5> QED
          BY <1>1, <1>5, <3>2, <5>1, OthersIdle DEF QueueInv
      <4> QED
        BY <1>1, <1>2, <3>2, <4>1 DEF StreamInv, Placed
    <3> QED
      BY <1>4, <2>1, <3>1, <3>2
  <2> QED
    BY <2>1 DEF Placed
<1>10. JobIsLast'
  <2>1. ASSUME NEW x \in Known', NEW y \in Answer, job'[x.req] = <<y>>
        PROVE  x = y \/ Before(x, y)
    <3>1. x.req \in Requests
      BY <1>1, <1>4, <1>5
    <3>0. x.req = r
      <4>1. job'[x.req] # <<>>
        BY <2>1
      <4> QED
        BY <1>2, <3>1, <4>1
    <3>2. x.req = r /\ y = item
      <4>1. <<y>> = <<item>>
        BY <1>2, <2>1, <3>0, Zenon
      <4> QED
        BY <3>0, <4>1
    <3> QED
      BY <1>4, <1>6, <3>2
  <2> QED
    BY <2>1 DEF JobIsLast
<1>11. QueuedIsAwaited'
  <2>1. \A x \in Queued : x.req \in Requests /\ x.req # r /\ job[x.req] = <<x>>
    BY CarriedAreAnswers, AnswerFields DEF ServeStep, StreamInv, QueuedIsAwaited
  <2>2. \A x \in Queued : FALSE
    BY <1>1, <2>1, OthersIdle DEF QueueInv
  <2> QED
    BY <1>1, <1>2, <1>4, <2>2 DEF QueuedIsAwaited
<1>12. RejectedIsLast'
  <2>1. ASSUME NEW x \in rejected' \cap Answer
        PROVE  /\ job'[x.req] = <<>> \/ job'[x.req] = <<x>>
               /\ \A y \in OnLine' : y.req = x.req => Before(y, x)
    <3>1. CASE x \in rejected
      <4>1. x.req \in Requests /\ x.req # r
        BY <2>1, <3>1, AnswerFields DEF ServeStep
      <4>2. \A y \in OnLine' : y.req = x.req => y \in OnLine
        BY <1>1, <1>4, <4>1
      <4> QED
        BY <1>2, <2>1, <3>1, <4>1, <4>2 DEF StreamInv, RejectedIsLast
    <3>2. CASE x \notin rejected
      <4>1. x = item /\ OnLine' = OnLine
        BY <2>1, <3>2 DEF ServeStep, Joins
      <4>2. \A y \in OnLine' : Before(y, item)
        BY <1>6, <4>1, KnownParts
      <4> QED
        BY <1>1, <1>2, <4>1, <4>2
    <3> QED
      BY <3>1, <3>2
  <2> QED
    BY <2>1 DEF RejectedIsLast
<1> QED
  BY <1>7, <1>8, <1>9, <1>10, <1>11, <1>12 DEF StreamInv

\* Another message of the provider joins the line.
NoteStep(item) == item \notin Answer /\ Joins(item) /\ UNCHANGED <<chain, job, unread, receiver>>

LEMMA SendNoteIsNoteStep ==
  ASSUME QueueInv, NEW n \in Notes, SendNote(n)
  PROVE  NoteStep(Note(n)) /\ Note(n) \in Item
<1>1. Enqueue(Note(n)) /\ UNCHANGED <<chain, job, unread, receiver>>
  BY DEF SendNote
<1>2. Note(n) \in Item /\ Note(n).kind = "note"
  BY DEF Item, Note
<1>3. Note(n) \notin Answer
  BY <1>2, AnswerFields
<1> QED
  BY <1>1, <1>2, <1>3, EnqueueJoins DEF QueueInv, Queue, NoteStep

LEMMA NoteShrinks ==
  ASSUME QueueInv, StreamInv, NEW item \in Item, NoteStep(item)
  PROVE  ShrinkStep /\ OnLine' = OnLine /\ Queued' = Queued /\ Sent' = Sent /\ UNCHANGED channel
         /\ rejected' \cap Answer = rejected \cap Answer
<1>1. /\ OnLine' = OnLine /\ Queued' = Queued /\ Sent' = Sent /\ UNCHANGED <<channel, chain, job, result, header>>
      /\ rejected' \cap Answer = rejected \cap Answer /\ Taken' = Taken
  BY DEF NoteStep, Joins, receiver, Taken
<1>2. Known' = Known
  BY <1>1 DEF Known
<1>3. LineSorted'
  <2>1. Line \in Seq(Item) /\ Sorted(Line)
    BY LineTypes DEF QueueInv, Queue, StreamInv, LineSorted
  <2>2. Sorted(Append(Line, item))
    BY <2>1, SortedAppend DEF NoteStep
  <2>3. Line' = Line \/ Line' = Append(Line, item)
    BY DEF NoteStep, Joins
  <2> QED
    BY <2>1, <2>2, <2>3, Zenon DEF LineSorted, Sorted
<1> QED
  BY <1>1, <1>2, <1>3 DEF ShrinkStep

\* The request that is served is over, however.
EndStep(r) ==
  /\ chain # <<>> /\ Head(chain) = r /\ chain' = Tail(chain)
  /\ job' = [job EXCEPT ![r] = <<>>] /\ UNCHANGED <<queueVars, receiver>>
  /\ \A x \in Queued : x.req # r
  /\ \A k \in 1..Chunks : job[r] = <<HeaderOf(r, k)>> => HeaderOf(r, k) \in rejected

LEMMA SourceFailsIsEndStep ==
  ASSUME QueueInv, StreamInv, NEW r \in Requests, SourceFails(r)
  PROVE  EndStep(r)
<1>1. /\ r \in ToSet(chain) /\ Head(chain) = r /\ job[r] = <<>> /\ chain' = Tail(chain)
      /\ UNCHANGED <<queueVars, job, receiver>>
  BY DEF SourceFails, MayStart, AfterFailure, Rest
<1>2. job' = [job EXCEPT ![r] = <<>>]
  BY <1>1 DEF QueueInv, Serve
<1>3. \A x \in Queued : x.req # r
  BY <1>1 DEF StreamInv, QueuedIsAwaited
<1>4. \A k \in 1..Chunks : job[r] # <<HeaderOf(r, k)>>
  BY <1>1
<1>5. chain # <<>>
  BY <1>1, MayStartIsHead DEF QueueInv
<1> QED
  BY <1>1, <1>2, <1>3, <1>4, <1>5 DEF EndStep

LEMMA ChunkSentIsEndStep ==
  ASSUME QueueInv, StreamInv, NEW r \in Requests, ChunkSent(r), job'[r] = <<>>
  PROVE  EndStep(r)
<1>1. /\ job[r] # <<>> /\ ~Waits(job[r][1])
      /\ job' = [job EXCEPT ![r] = Follows(@[1])] /\ UNCHANGED <<queueVars, receiver>> /\ chain' = Tail(chain)
  BY DEF ChunkSent, Rest
<1>2. PICK y \in Answer : job[r] = <<y>> /\ job[r][1] = y /\ y.req = r
  BY <1>1, JobItem DEF QueueInv
<1>3. job' = [job EXCEPT ![r] = <<>>] /\ Follows(y) = <<>>
  BY <1>1, <1>2 DEF QueueInv, Serve
<1>4. y.kind # "header"
  BY <1>3, FollowsIsAnswer
<1>5. chain # <<>> /\ Head(chain) = r
  BY <1>1 DEF QueueInv, Serve
<1>6. \A x \in Queued : x.req # r
  <2>1. \A x \in Queued : x.req = r => x = y
    BY <1>2 DEF StreamInv, QueuedIsAwaited
  <2>2. y \notin Queued
    <3>1. y \notin ToSet(pending) /\ y \notin ToSet(current)
      BY <1>1, <1>2 DEF Waits
    <3> QED
      BY <3>1, LineTypes DEF QueueInv, Queue, Carried
  <2> QED
    BY <2>1, <2>2
<1>7. \A k \in 1..Chunks : job[r] # <<HeaderOf(r, k)>>
  <2>1. ASSUME NEW k \in 1..Chunks, job[r] = <<HeaderOf(r, k)>> PROVE FALSE
    <3>1. y = HeaderOf(r, k)
      BY <1>2, <2>1
    <3> QED
      BY <1>4, <3>1, ChunkItems
  <2> QED
    BY <2>1
<1> QED
  BY <1>1, <1>3, <1>5, <1>6, <1>7 DEF EndStep

LEMMA ChunkFailsIsEndStep ==
  ASSUME QueueInv, StreamInv, NEW r \in Requests, ChunkFails(r)
  PROVE  EndStep(r)
<1>1. /\ job[r] # <<>> /\ job[r][1] \in rejected /\ job' = [job EXCEPT ![r] = <<>>]
      /\ chain' = Tail(chain) /\ UNCHANGED <<queueVars, receiver>>
  BY DEF ChunkFails, AfterFailure, Rest
<1>2. PICK y \in Answer : job[r] = <<y>> /\ job[r][1] = y /\ y.req = r
  BY <1>1, JobItem DEF QueueInv
<1>3. chain # <<>> /\ Head(chain) = r
  BY <1>1 DEF QueueInv, Serve
<1>4. \A x \in Queued : x.req # r
  <2>1. \A x \in Queued : x.req = r => x = y
    BY <1>2 DEF StreamInv, QueuedIsAwaited
  <2>2. Queued \subseteq OnLine
    BY LineTypes DEF QueueInv, Queue
  <2>3. y \notin OnLine
    BY <1>1, <1>2, BeforeIsStrict DEF StreamInv, RejectedIsLast
  <2> QED
    BY <2>1, <2>2, <2>3
<1>5. ASSUME NEW k \in 1..Chunks, job[r] = <<HeaderOf(r, k)>> PROVE HeaderOf(r, k) \in rejected
  <2>1. y = HeaderOf(r, k)
    BY <1>2, <1>5
  <2> QED
    BY <1>1, <1>2, <2>1
<1> QED
  BY <1>1, <1>3, <1>4, <1>5 DEF EndStep

LEMMA LineUnchanged ==
  ASSUME UNCHANGED queueVars
  PROVE  /\ UNCHANGED <<channel, rejected>> /\ Line' = Line /\ OnLine' = OnLine /\ Queued' = Queued /\ Sent' = Sent
         /\ (LineSorted => LineSorted')
BY Zenon DEF queueVars, Line, OnLine, Queued, Sent, Carried, LineSorted, Sorted

LEMMA EndKeepsStream ==
  ASSUME QueueInv, StreamInv, NEW r \in Requests, EndStep(r)
  PROVE  StreamInv'
<1>1. /\ chain # <<>> /\ Head(chain) = r /\ chain' = Tail(chain) /\ job' = [job EXCEPT ![r] = <<>>]
      /\ result' = result /\ header' = header /\ chunks' = chunks
  BY DEF EndStep, receiver
<1>2. /\ rejected' = rejected /\ OnLine' = OnLine /\ Queued' = Queued
      /\ (LineSorted => LineSorted')
  BY LineUnchanged DEF EndStep
<1>3. Known' = Known
  BY <1>1, <1>2, Zenon DEF Known, Taken
<1>4. \A o \in Requests : job'[o] = <<>>
  BY <1>1, OthersIdle DEF QueueInv, Serve
<1>5. chain \in Seq(Requests) /\ Rising(chain)
  BY DEF QueueInv, Serve, StreamInv, InOrder
<1>6. /\ Rising(Tail(chain))
      /\ \A o \in ToSet(Tail(chain)) : o \in ToSet(chain) /\ r < o /\ o \in Requests
  BY <1>1, <1>5, RisingHead
<1>7. \A x \in Known : x \in Answer /\ x.req \in Requests
  BY CarriedAreAnswers, AnswerFields
<1>8. InOrder'
  <2>1. Rising(chain')
    BY <1>1, <1>6, Zenon
  <2> QED
    BY <1>1, <1>6, <2>1 DEF StreamInv, InOrder, Rising
<1>9. Placed'
  <2>1. ASSUME NEW x \in Known, x.req \in ToSet(Tail(chain)) PROVE FALSE
    <3>1. r < x.req /\ x.req \in ToSet(chain) /\ x.req \in Nat /\ r \in Nat
      BY <1>6, <2>1, StreamAssumption DEF Requests
    <3>2. job[x.req] # <<>>
      BY <2>1, <3>1 DEF StreamInv, Placed
    <3>3. x.req = r
      BY <1>1, <1>7, <2>1, <3>2, OthersIdle DEF QueueInv
    <3> QED
      BY <3>1, <3>3
  <2> QED
    BY <1>1, <1>3, <1>6, <2>1 DEF StreamInv, Placed
<1>10. JobIsLast'
  BY <1>3, <1>4, <1>7 DEF JobIsLast
<1>11. QueuedIsAwaited'
  <2>1. \A x \in Queued : x.req \in Requests /\ x.req # r /\ job[x.req] = <<x>>
    BY CarriedAreAnswers, AnswerFields DEF EndStep, StreamInv, QueuedIsAwaited
  <2>2. \A x \in Queued : FALSE
    BY <1>1, <2>1, OthersIdle DEF QueueInv
  <2> QED
    BY <1>2, <2>2 DEF QueuedIsAwaited
<1>12. RejectedIsLast'
  <2>1. \A x \in rejected \cap Answer : x.req \in Requests
    BY AnswerFields
  <2> QED
    BY <1>2, <1>4, <2>1 DEF StreamInv, RejectedIsLast
<1> QED
  BY <1>2, <1>8, <1>9, <1>10, <1>11, <1>12 DEF StreamInv

LEMMA RequestKeepsStream ==
  ASSUME QueueInv, StreamInv, NEW r \in Requests, RequestPiece(r)
  PROVE  StreamInv'
<1>1. /\ result[r] = "none" /\ (\A o \in 1..r - 1 : result[o] # "none")
      /\ result' = [result EXCEPT ![r] = "asked"]
      /\ chain' = Append(chain, r) /\ UNCHANGED <<queueVars, job, header, chunks>>
  BY DEF RequestPiece
<1>2. /\ rejected' = rejected /\ OnLine' = OnLine /\ Queued' = Queued
      /\ (LineSorted => LineSorted')
  BY <1>1, LineUnchanged
<1>3. Known' = Known /\ job' = job
  BY <1>1, <1>2, Zenon DEF Known, Taken
<1>4. result'[r] = "asked" /\ \A o \in Requests : o # r => result'[o] = result[o]
  BY <1>1 DEF QueueInv, Receive
<1>5. r \in Nat /\ \A o \in Requests : o \in Nat /\ (o < r => o \in 1..r - 1)
  BY StreamAssumption DEF Requests
<1>6. \A o \in Requests : result[o] # "none" => o < r
  BY <1>1, <1>5 DEF StreamInv, InOrder
<1>7. chain \in Seq(Requests) /\ Rising(chain) /\ \A o \in ToSet(chain) : o \in Requests /\ o < r
  BY <1>6, ChainMembers DEF QueueInv, StreamInv, InOrder
<1>8. Rising(Append(chain, r)) /\ ToSet(Append(chain, r)) = ToSet(chain) \cup {r}
  BY <1>7, RisingAppend
<1>9. \A x \in Known : x.req \in Requests /\ x.req \in Nat /\ result[x.req] # "none" /\ x.req < r
  BY <1>6, CarriedAreAnswers, AnswerFields DEF StreamInv, Placed
<1>10. InOrder'
  <2>1. Rising(chain') /\ \A o \in ToSet(chain') : result'[o] # "none"
    <3>1. \A o \in ToSet(chain) : result'[o] # "none"
      BY <1>4, <1>5, <1>7 DEF StreamInv, InOrder
    <3> QED
      BY <1>1, <1>4, <1>8, <3>1
  <2>2. ASSUME NEW o \in Requests, NEW p \in Requests, p < o, result'[o] # "none" PROVE result'[p] # "none"
    <3>1. CASE o = r
      BY <1>1, <1>4, <1>5, <2>2, <3>1
    <3>2. CASE o # r
      BY <1>4, <2>2, <3>2 DEF StreamInv, InOrder
    <3> QED
      BY <3>1, <3>2
  <2> QED
    BY <2>1, <2>2 DEF InOrder, Rising
<1>11. Placed'
  <2>1. ASSUME NEW x \in Known
        PROVE  /\ result'[x.req] # "none"
               /\ \A o \in ToSet(chain) \cup {r} : x.req <= o
               /\ x.req \in ToSet(chain) \cup {r} => job[x.req] # <<>>
    <3>0. x.req \in Nat /\ x.req < r
      BY <1>9, <2>1
    <3>1. x.req # r /\ x.req \in Nat /\ x.req < r
      BY <1>5, <3>0
    <3> QED
      BY <1>4, <1>5, <1>9, <2>1, <3>1 DEF StreamInv, Placed
  <2> QED
    BY <1>1, <1>3, <1>8, <2>1, Zenon DEF Placed
<1>12. JobIsLast' /\ QueuedIsAwaited' /\ RejectedIsLast'
  BY <1>2, <1>3, Zenon DEF StreamInv, JobIsLast, QueuedIsAwaited, RejectedIsLast
<1> QED
  BY <1>2, <1>10, <1>11, <1>12 DEF StreamInv
-----------------------------------------------------------------------------
(* What the receiver holds against what is still to come: the steps that     *)
(* take nothing from the line that the receiver uses.                       *)

\* Such a step forgets at most, and what comes later joins behind all of it.
KeepStep ==
  /\ header' \in {header, NoHeader}
  /\ \A r \in Requests, j \in 1..Chunks : chunks'[r][j] = chunks[r][j] \/ chunks'[r][j] = {}
  /\ Mixed' = Mixed
  /\ ActiveIsAsked' /\ Kept'
  /\ rejected \subseteq rejected'
  /\ \A x \in OnLine' : x \in OnLine \/ ((\A y \in Known : Before(y, x)) /\ (\A v \in Mixed : v <= x.req))
  /\ \A v \in Mixed, o \in ToSet(chain') : v <= o
  /\ channel' = "open" =>
       /\ channel = "open"
       /\ header' # NoHeader => \A v \in Requests, k \in 1..Chunks : Follow(v, k) => Follow(v, k)'
       /\ \A r \in Requests, k \in 1..Chunks : HeaderOf(r, k) \in Sent' => Follow(r, k)'

LEMMA HeaderFields ==
  ASSUME Receive, header # NoHeader
  PROVE  \E r \in Requests, k \in 1..Chunks : header = HeaderOf(r, k) /\ header.req = r /\ header.chunk = k
         /\ header \in Answer /\ header \in Known
<1>1. PICK r \in Requests, k \in 1..Chunks : header = HeaderOf(r, k)
  BY DEF Receive, Headers
<1> QED
  BY <1>1, ChunkItems, KnownParts

LEMMA TakenFrames ==
  ASSUME NEW r \in Requests, NEW j \in 1..Chunks, chunks[r][j] # {}
  PROVE  FrameOf(r, j) \in Taken /\ FrameOf(r, j) \in Known
<1>1. FrameOf(r, j) \in Taken
  BY ChunkItems DEF Taken, Frames
<1> QED
  BY <1>1, KnownParts

LEMMA MixedAreRequests == \A v \in Mixed : v \in Requests /\ v \in Nat
BY StreamAssumption DEF Mixed, Requests

LEMMA CutGrows ==
  ASSUME rejected \subseteq rejected'
  PROVE  CutReqs \subseteq CutReqs'
BY DEF CutReqs

LEMMA FewerVictims ==
  ASSUME VictimsAreApart, CutReqs \subseteq CutReqs', Victims' \subseteq Victims
  PROVE  VictimsAreApart'
BY DEF VictimsAreApart

LEMMA KeepKeepsAssembly ==
  ASSUME QueueInv, AssemblyInv, KeepStep
  PROVE  AssemblyInv'
<1>1. HeaderIsOlder'
  <2>1. SUFFICES ASSUME header' # NoHeader
                 PROVE  /\ \A x \in OnLine' : Before(header', x)
                        /\ \A j \in 1..Chunks : chunks'[header'.req][j] # {} => j < header'.chunk
    BY DEF HeaderIsOlder
  <2>2. header' = header /\ header # NoHeader
    BY <2>1 DEF KeepStep
  <2>3. PICK r \in Requests, k \in 1..Chunks : header.req = r /\ header.chunk = k /\ header \in Known
    BY <2>2, HeaderFields DEF QueueInv
  <2>4. \A x \in OnLine' : Before(header, x)
    BY <2>2, <2>3 DEF KeepStep, AssemblyInv, HeaderIsOlder
  <2>5. \A j \in 1..Chunks : chunks'[r][j] # {} => j < k
    BY <2>2, <2>3 DEF KeepStep, AssemblyInv, HeaderIsOlder
  <2> QED
    BY <2>2, <2>3, <2>4, <2>5
<1>2. ChunksAreOlder'
  BY TakenFrames DEF KeepStep, AssemblyInv, ChunksAreOlder
<1>3. ChunksAreRight'
  BY DEF KeepStep, AssemblyInv, ChunksAreRight
<1>4. FrameFollows'
  <2>1. ASSUME channel' = "open", header' # NoHeader PROVE Follow(header.req, header.chunk)' /\ header' = header
    <3>1. header' = header /\ header # NoHeader /\ channel = "open"
      BY <2>1 DEF KeepStep
    <3>2. PICK r \in Requests, k \in 1..Chunks : header.req = r /\ header.chunk = k
      BY <3>1, HeaderFields DEF QueueInv
    <3>3. Follow(r, k)
      BY <3>1, <3>2 DEF AssemblyInv, FrameFollows
    <3>4. Follow(r, k)'
      BY <2>1, <3>3 DEF KeepStep
    <3> QED
      BY <3>1, <3>2, <3>4, Zenon
  <2>2. ASSUME channel' = "open" PROVE \A r \in Requests, k \in 1..Chunks : HeaderOf(r, k) \in Sent' => Follow(r, k)'
    BY <2>2, Zenon DEF KeepStep
  <2> QED
    BY <2>1, <2>2, Zenon DEF FrameFollows
<1>5. MixedIsOld'
  <2>1. ASSUME NEW v \in Mixed'
        PROVE  /\ \A x \in OnLine' : v <= x.req
               /\ \A o \in ToSet(chain') : v <= o
               /\ channel' = "open" /\ header' # NoHeader /\ header'.req < v
                    => \E k \in 1..Chunks : Follow(v, k)'
    <3>1. v \in Mixed /\ v \in Requests
      BY <2>1, MixedAreRequests DEF KeepStep
    <3>2. /\ \A x \in OnLine' : v <= x.req
          /\ \A o \in ToSet(chain') : v <= o
      BY <3>1 DEF KeepStep, AssemblyInv, MixedIsOld
    <3>3. ASSUME channel' = "open", header' # NoHeader, header'.req < v
          PROVE  \E k \in 1..Chunks : Follow(v, k)'
      <4>1. header' = header /\ header # NoHeader /\ channel = "open"
        BY <3>3 DEF KeepStep
      <4>2. PICK k \in 1..Chunks : Follow(v, k)
        BY <3>1, <3>3, <4>1 DEF AssemblyInv, MixedIsOld
      <4>3. Follow(v, k)'
        BY <3>1, <3>3, <4>2 DEF KeepStep
      <4> QED
        BY <4>3
    <3> QED
      BY <3>2, <3>3
  <2> QED
    BY <2>1, Zenon DEF MixedIsOld
<1>6. VictimsAreApart'
  <2>1. CutReqs \subseteq CutReqs'
    BY CutGrows DEF KeepStep
  <2>2. Victims' \subseteq Victims
    BY <2>1 DEF KeepStep, Victims
  <2> QED
    BY <2>1, <2>2, FewerVictims DEF AssemblyInv
<1>7. ActiveIsAsked' /\ Kept'
  BY DEF KeepStep
<1> QED
  BY <1>1, <1>2, <1>3, <1>4, <1>5, <1>6, <1>7 DEF AssemblyInv

LEMMA ReceiverKept ==
  ASSUME UNCHANGED receiver, AssemblyInv
  PROVE  /\ header' \in {header, NoHeader} /\ Mixed' = Mixed /\ ActiveIsAsked' /\ Kept'
         /\ \A r \in Requests, j \in 1..Chunks : chunks'[r][j] = chunks[r][j] \/ chunks'[r][j] = {}
         /\ UNCHANGED <<active, header, chunks, result>>
<1>1. UNCHANGED <<active, header, chunks, result>>
  BY DEF receiver
<1>2. Mixed' = Mixed
  BY <1>1 DEF Mixed
<1>3. ActiveIsAsked' /\ Kept'
  BY <1>1 DEF AssemblyInv, ActiveIsAsked, Kept, NoOrphanAssembly
<1> QED
  BY <1>1, <1>2, <1>3

\* A header that reaches the channel was the job of its request.
LEMMA QueuedFollows ==
  ASSUME StreamInv, NEW r \in Requests, NEW k \in 1..Chunks, HeaderOf(r, k) \in Queued
  PROVE  job[r] = <<HeaderOf(r, k)>>
BY ChunkItems DEF StreamInv, QueuedIsAwaited

LEMMA FlowKeepsFollow ==
  ASSUME QueueInv, StreamInv, FlowStep, channel' = "open"
  PROVE  \A v \in Requests, k \in 1..Chunks : Follow(v, k) => Follow(v, k)'
<1>1. job' = job /\ rejected \subseteq rejected' /\ OnLine \subseteq OnLine' \cup rejected' /\ Queued' \subseteq Queued
  BY DEF FlowStep, streamVars
<1>2. \A x \in Answer : x \notin rejected \cup Queued => x \notin rejected' \cup Queued'
  BY <1>1 DEF FlowStep
<1> QED
  BY <1>1, <1>2, ChunkItems DEF Follow

LEMMA FlowKeepsAssembly ==
  ASSUME QueueInv, StreamInv, AssemblyInv, FlowStep
  PROVE  AssemblyInv'
<1>1. UNCHANGED receiver /\ UNCHANGED <<chain, job>>
  BY DEF FlowStep, streamVars, receiver
<1>2. \A v \in Mixed, o \in ToSet(chain') : v <= o
  BY <1>1 DEF AssemblyInv, MixedIsOld
<1>3. ASSUME channel' = "open", NEW r \in Requests, NEW k \in 1..Chunks, HeaderOf(r, k) \in Sent'
      PROVE  Follow(r, k)'
  <2>1. CASE HeaderOf(r, k) \in Sent
    <3>1. Follow(r, k)
      BY <1>3, <2>1 DEF FlowStep, AssemblyInv, FrameFollows
    <3> QED
      BY <1>3, <3>1, FlowKeepsFollow
  <2>2. CASE HeaderOf(r, k) \in Queued /\ HeaderOf(r, k) \notin Queued'
    <3>1. job'[r] = <<HeaderOf(r, k)>>
      BY <1>1, <2>2, QueuedFollows
    <3>2. HeaderOf(r, k) \in OnLine
      BY <2>2, LineTypes DEF QueueInv, Queue
    <3>3. HeaderOf(r, k) \notin rejected
      BY <3>2, BeforeIsStrict, ChunkItems DEF StreamInv, RejectedIsLast
    <3>4. HeaderOf(r, k) \notin rejected'
      BY <1>3, <3>3, ChunkItems DEF FlowStep
    <3> QED
      BY <2>2, <3>1, <3>4 DEF Follow
  <2> QED
    BY <1>3, <2>1, <2>2 DEF FlowStep
<1>4. KeepStep
  BY <1>1, <1>2, <1>3, FlowKeepsFollow, ReceiverKept DEF FlowStep, KeepStep
<1> QED
  BY <1>4, KeepKeepsAssembly

\* The send that joins is behind all that is known.
LEMMA ServeIsLater ==
  ASSUME QueueInv, StreamInv, NEW r \in Requests, NEW item \in Answer, ServeStep(r, item)
  PROVE  \A x \in Known : Before(x, item)
<1>1. item.req = r /\ chain # <<>> /\ Head(chain) = r /\ r \in ToSet(chain) /\ r \in Nat
  BY HeadIsInChain, StreamAssumption DEF ServeStep, QueueInv, Requests
<1>2. \A x \in Known : x \in Answer /\ x.req \in Nat /\ x.req <= r
  BY <1>1, CarriedAreAnswers, AnswerFields DEF StreamInv, Placed
<1>3. \A x \in Known : x.req = r => Before(x, item)
  BY DEF ServeStep
<1>4. \A x \in Known : x.req < r => Before(x, item)
  BY <1>1, <1>2, BeforeByRequest
<1> QED
  BY <1>1, <1>2, <1>3, <1>4

LEMMA ServeKeepsAssembly ==
  ASSUME QueueInv, StreamInv, AssemblyInv, NEW r \in Requests, NEW item \in Answer, ServeStep(r, item)
  PROVE  AssemblyInv'
<1>1. /\ item.req = r /\ chain # <<>> /\ Head(chain) = r /\ r \in ToSet(chain)
      /\ chain' = chain /\ UNCHANGED receiver /\ channel' = channel /\ Sent' = Sent
      /\ job' = [job EXCEPT ![r] = <<item>>]
  BY HeadIsInChain DEF ServeStep, QueueInv, Joins
<1>2. /\ rejected \subseteq rejected' /\ OnLine \subseteq OnLine'
      /\ \A x \in OnLine' : x \in OnLine \/ x = item
      /\ item \in OnLine' \cup rejected'
      /\ \A x \in rejected' \cup Queued' : x \in rejected \cup Queued \/ x = item
  BY DEF ServeStep, Joins
<1>3. \A v \in Mixed : v <= item.req
  BY <1>1 DEF AssemblyInv, MixedIsOld
<1>4. \A v \in Mixed, o \in ToSet(chain') : v <= o
  BY <1>1 DEF AssemblyInv, MixedIsOld
<1>5. ASSUME NEW v \in Requests, NEW k \in 1..Chunks, Follow(v, k) PROVE Follow(v, k)'
  <2>1. CASE FrameOf(v, k) \in rejected \/ FrameOf(v, k) \in OnLine
    BY <1>2, <2>1 DEF Follow
  <2>2. CASE job[v] = <<HeaderOf(v, k)>>
    <3>1. v = r
      <4>1. job[v] # <<>>
        BY <2>2
      <4> QED
        BY <1>1, <4>1, OthersIdle DEF QueueInv
    <3>2. item = FrameOf(v, k)
      BY <2>2, <3>1 DEF ServeStep
    <3> QED
      BY <1>2, <3>2 DEF Follow
  <2> QED
    BY <1>5, <2>1, <2>2 DEF Follow
<1>6. \A v \in Requests, k \in 1..Chunks :
        channel' = "open" /\ HeaderOf(v, k) \in Sent' => Follow(v, k)'
  BY <1>1, <1>5 DEF AssemblyInv, FrameFollows
<1>7. \A x \in OnLine' : x \in OnLine \/ ((\A y \in Known : Before(y, x)) /\ (\A v \in Mixed : v <= x.req))
  BY <1>2, <1>3, ServeIsLater
<1> QED
  <2>1. KeepStep
    BY <1>1, <1>2, <1>4, <1>5, <1>6, <1>7, ReceiverKept DEF KeepStep
  <2> QED
    BY <2>1, KeepKeepsAssembly

LEMMA SameFollow ==
  ASSUME OnLine' = OnLine, Queued' = Queued, rejected' \cap Answer = rejected \cap Answer, job' = job
  PROVE  \A v \in Requests, k \in 1..Chunks : Follow(v, k) => Follow(v, k)'
BY ChunkItems DEF Follow

LEMMA NoteKeepsAssembly ==
  ASSUME QueueInv, StreamInv, AssemblyInv, NEW item \in Item, NoteStep(item)
  PROVE  AssemblyInv'
<1>1. /\ OnLine' = OnLine /\ Queued' = Queued /\ Sent' = Sent /\ UNCHANGED channel
      /\ rejected' \cap Answer = rejected \cap Answer
      /\ UNCHANGED <<chain, job, unread, receiver>>
  BY NoteShrinks DEF NoteStep
<1>2. rejected \subseteq rejected'
  BY DEF NoteStep, Joins
<1>3. \A v \in Requests, k \in 1..Chunks : Follow(v, k) => Follow(v, k)'
  BY <1>1, SameFollow
<1>4. \A v \in Requests, k \in 1..Chunks :
        channel' = "open" /\ HeaderOf(v, k) \in Sent' => Follow(v, k)'
  BY <1>1, <1>3 DEF AssemblyInv, FrameFollows
<1>5. \A v \in Mixed, o \in ToSet(chain') : v <= o
  BY <1>1 DEF AssemblyInv, MixedIsOld
<1>6. KeepStep
  BY <1>1, <1>2, <1>3, <1>4, <1>5, ReceiverKept DEF KeepStep
<1> QED
  BY <1>6, KeepKeepsAssembly

LEMMA EndKeepsAssembly ==
  ASSUME QueueInv, StreamInv, AssemblyInv, NEW r \in Requests, EndStep(r)
  PROVE  AssemblyInv'
<1>1. /\ chain # <<>> /\ Head(chain) = r /\ chain' = Tail(chain) /\ job' = [job EXCEPT ![r] = <<>>]
      /\ UNCHANGED receiver
  BY DEF EndStep
<1>2. /\ rejected' = rejected /\ channel' = channel /\ OnLine' = OnLine /\ Queued' = Queued /\ Sent' = Sent
  BY LineUnchanged DEF EndStep
<1>3. ASSUME NEW v \in Requests, NEW k \in 1..Chunks, Follow(v, k) PROVE Follow(v, k)'
  <2>1. CASE FrameOf(v, k) \in rejected \/ FrameOf(v, k) \in OnLine
    BY <1>2, <2>1 DEF Follow
  <2>2. CASE job[v] = <<HeaderOf(v, k)>> /\ HeaderOf(v, k) \notin rejected
    <3>1. v = r
      <4>1. job[v] # <<>>
        BY <2>2
      <4> QED
        BY <1>1, <4>1, OthersIdle DEF QueueInv
    <3> QED
      BY <2>2, <3>1 DEF EndStep
  <2> QED
    BY <1>3, <2>1, <2>2 DEF Follow
<1>4. \A v \in Requests, k \in 1..Chunks :
        channel' = "open" /\ HeaderOf(v, k) \in Sent' => Follow(v, k)'
  BY <1>2, <1>3 DEF AssemblyInv, FrameFollows
<1>5. \A v \in Mixed, o \in ToSet(chain') : v <= o
  <2>1. chain \in Seq(Requests) /\ Rising(chain)
    BY DEF QueueInv, Serve, StreamInv, InOrder
  <2>2. \A o \in ToSet(Tail(chain)) : o \in ToSet(chain)
    BY <1>1, <2>1, RisingHead
  <2> QED
    BY <1>1, <2>2 DEF AssemblyInv, MixedIsOld
<1>6. KeepStep
  BY <1>1, <1>2, <1>3, <1>4, <1>5, ReceiverKept DEF KeepStep
<1> QED
  BY <1>6, KeepKeepsAssembly

LEMMA RequestKeepsAssembly ==
  ASSUME QueueInv, StreamInv, AssemblyInv, NEW r \in Requests, RequestPiece(r)
  PROVE  AssemblyInv'
<1>1. /\ result[r] = "none" /\ (\A o \in 1..r - 1 : result[o] # "none")
      /\ active' = active \cup {r} /\ result' = [result EXCEPT ![r] = "asked"]
      /\ chain' = Append(chain, r) /\ UNCHANGED <<queueVars, job, header, chunks>>
  BY DEF RequestPiece
<1>2. /\ rejected' = rejected /\ channel' = channel /\ OnLine' = OnLine /\ Queued' = Queued /\ Sent' = Sent
      /\ job' = job
  BY <1>1, LineUnchanged
<1>3. result'[r] = "asked" /\ \A o \in Requests : o # r => result'[o] = result[o]
  BY <1>1 DEF QueueInv, Receive
<1>4. Mixed' = Mixed
  BY <1>1, <1>3 DEF Mixed
<1>5. \A v \in Requests, k \in 1..Chunks : Follow(v, k) => Follow(v, k)'
  BY <1>2, SameFollow
<1>6. \A v \in Requests, k \in 1..Chunks :
        channel' = "open" /\ HeaderOf(v, k) \in Sent' => Follow(v, k)'
  BY <1>2, <1>5 DEF AssemblyInv, FrameFollows
<1>7. \A v \in Mixed, o \in ToSet(chain') : v <= o
  <2>1. \A v \in Mixed : result[v] # "none" /\ v \in Requests
    BY DEF Mixed
  <2>2. \A v \in Mixed : v < r
    <3>1. \A o \in Requests : r < o => result[o] = "none"
      BY <1>1 DEF StreamInv, InOrder
    <3>2. r \in Nat /\ \A o \in Requests : o \in Nat
      BY StreamAssumption DEF Requests
    <3>3. \A v \in Mixed : v # r /\ ~(r < v) /\ v \in Nat
      BY <1>1, <2>1, <3>1, <3>2
    <3> QED
      BY <3>2, <3>3
  <2>3. ToSet(Append(chain, r)) = ToSet(chain) \cup {r}
    BY ToSetAppend DEF QueueInv, Serve
  <2>4. \A v \in Mixed : v <= r
    BY <2>2, MixedAreRequests, StreamAssumption DEF Requests
  <2> QED
    BY <1>1, <2>3, <2>4 DEF AssemblyInv, MixedIsOld
<1>8. ActiveIsAsked' /\ Kept'
  <2>1. ActiveIsAsked'
    BY <1>1, <1>3 DEF AssemblyInv, ActiveIsAsked, QueueInv, Receive
  <2>2. Kept'
    BY <1>1 DEF AssemblyInv, Kept, NoOrphanAssembly
  <2> QED
    BY <2>1, <2>2
<1>9. KeepStep
  BY <1>1, <1>2, <1>4, <1>5, <1>6, <1>7, <1>8 DEF KeepStep
<1> QED
  BY <1>9, KeepKeepsAssembly
-----------------------------------------------------------------------------
(* The receiver.                                                            *)

\* Requests that end change the result of a request that was asked for.
LEMMA EndsFacts ==
  ASSUME Receive, NEW r \in Requests, NEW how \in {"ended", "invalid", "good", "corrupt", "refused"}, Ends(r, how)
  PROVE  /\ active' = active \ {r} /\ result'[r] = how /\ (\A o \in Requests : o # r => result'[o] = result[o])
         /\ \A j \in 1..Chunks : chunks'[r][j] = {}
         /\ \A o \in Requests : o # r => chunks'[o] = chunks[o]
         /\ chunks'[r] = Nothing
BY DEF Receive, Ends, Nothing

\* A header of a request is forgotten with it, but for the grid.
LEMMA HeaderAfterFacts ==
  ASSUME NEW r \in Requests, Kept, header' = HeaderAfter(r), active' = active \ {r},
         chunks'[r] = Nothing, \A o \in Requests : o # r => chunks'[o] = chunks[o]
  PROVE  header' \in {header, NoHeader} /\ Kept'
<1>1. header' \in {header, NoHeader} /\ (header' # NoHeader => header'.req # r \/ r \in Grid)
  BY DEF HeaderAfter
<1>2. header' # NoHeader => header'.req \in active' \cup Grid
  BY <1>1 DEF Kept
<1>3. NoOrphanAssembly'
  BY DEF Kept, NoOrphanAssembly
<1> QED
  BY <1>1, <1>2, <1>3 DEF Kept

\* A live request ends otherwise than mixed up.
LEMMA EndsCleanly ==
  ASSUME QueueInv, AssemblyInv, NEW r \in active, NEW how \in {"ended", "refused"}, Ends(r, how),
         header' = HeaderAfter(r)
  PROVE  /\ header' \in {header, NoHeader} /\ Mixed' = Mixed /\ ActiveIsAsked' /\ Kept'
         /\ \A o \in Requests, j \in 1..Chunks : chunks'[o][j] = chunks[o][j] \/ chunks'[o][j] = {}
         /\ \A o \in Requests : result'[o] = "none" <=> result[o] = "none"
         /\ Taken' \subseteq Taken
<1>1. r \in Requests /\ result[r] = "asked" /\ Receive
  BY DEF QueueInv, Receive, AssemblyInv, ActiveIsAsked
<1>2. /\ active' = active \ {r} /\ result'[r] = how /\ (\A o \in Requests : o # r => result'[o] = result[o])
      /\ \A j \in 1..Chunks : chunks'[r][j] = {}
      /\ \A o \in Requests : o # r => chunks'[o] = chunks[o]
      /\ chunks'[r] = Nothing
  BY <1>1, EndsFacts
<1>3. Mixed' = Mixed
  BY <1>1, <1>2 DEF Mixed
<1>4. ActiveIsAsked'
  BY <1>1, <1>2 DEF AssemblyInv, ActiveIsAsked, Receive
<1>5. header' \in {header, NoHeader} /\ Kept'
  BY <1>1, <1>2, HeaderAfterFacts DEF AssemblyInv
<1>6. \A o \in Requests, j \in 1..Chunks : chunks'[o][j] = chunks[o][j] \/ chunks'[o][j] = {}
  BY <1>2
<1>7. \A o \in Requests : result'[o] = "none" <=> result[o] = "none"
  BY <1>1, <1>2
<1>8. Taken' \subseteq Taken
  BY <1>6, AnswerFields, ChunkItems DEF Taken, Frames
<1> QED
  BY <1>3, <1>4, <1>5, <1>6, <1>7, <1>8

LEMMA EndsEarlyKeeps ==
  ASSUME QueueInv, StreamInv, AssemblyInv, NEW r \in Requests, EndsEarly(r)
  PROVE  StreamInv' /\ AssemblyInv'
<1>1. r \in active /\ Ends(r, "ended") /\ header' = HeaderAfter(r) /\ UNCHANGED <<queueVars, chain, job>>
  BY DEF EndsEarly, provider
<1>2. /\ header' \in {header, NoHeader} /\ Mixed' = Mixed /\ ActiveIsAsked' /\ Kept'
      /\ \A o \in Requests, j \in 1..Chunks : chunks'[o][j] = chunks[o][j] \/ chunks'[o][j] = {}
      /\ \A o \in Requests : result'[o] = "none" <=> result[o] = "none"
      /\ Taken' \subseteq Taken
  BY <1>1, EndsCleanly
<1>3. /\ UNCHANGED <<channel, rejected>> /\ OnLine' = OnLine /\ Queued' = Queued /\ Sent' = Sent
      /\ (LineSorted => LineSorted')
  BY <1>1, LineUnchanged
<1>4. Known' \subseteq Known
  BY <1>2, <1>3, AnswerFields DEF Known, NoHeader
<1>5. ShrinkStep
  BY <1>1, <1>2, <1>3, <1>4 DEF ShrinkStep, StreamInv
<1>6. \A v \in Requests, k \in 1..Chunks : Follow(v, k) => Follow(v, k)'
  BY <1>1, <1>3, SameFollow
<1>7. \A v \in Requests, k \in 1..Chunks :
        channel' = "open" /\ HeaderOf(v, k) \in Sent' => Follow(v, k)'
  BY <1>3, <1>6 DEF AssemblyInv, FrameFollows
<1>8. \A v \in Mixed, o \in ToSet(chain') : v <= o
  BY <1>1 DEF AssemblyInv, MixedIsOld
<1>9. KeepStep
  BY <1>1, <1>2, <1>3, <1>6, <1>7, <1>8 DEF KeepStep
<1> QED
  BY <1>5, <1>9, ShrinkKeepsStream, KeepKeepsAssembly

\* The oldest item of the line is taken off it.
TakesOff(item) ==
  /\ channel = "open" /\ UNCHANGED <<channel, rejected, chain, job>>
  /\ LineSorted' /\ Queued' = Queued /\ Sent' \subseteq Sent /\ OnLine' \subseteq OnLine /\ Sent' \subseteq OnLine'
  /\ OnLine \subseteq OnLine' \cup {item}
  /\ item \in Answer => item \in Sent /\ item \in OnLine /\ \A y \in OnLine' : Before(item, y)

LEMMA DeliverTakesOff ==
  ASSUME QueueInv, StreamInv, Deliver
  PROVE  Head(wire) \in Item /\ TakesOff(Head(wire))
<1>1. /\ wire # <<>> /\ wire' = Tail(wire)
      /\ UNCHANGED <<pending, current, channel, buffer, rejected, chain, job>>
  BY DEF Deliver, provider
<1>2. channel = "open" /\ wire \in Seq(Item) /\ buffer \in Seq(Item) /\ current \o pending \in Seq(Item)
      /\ wire \o buffer \in Seq(Item) /\ Line \in Seq(Item)
  BY <1>1, LineTypes DEF QueueInv, Queue, Shape
<1>3. /\ Tail(wire) \o buffer = Tail(wire \o buffer) /\ Head(wire) = Head(wire \o buffer) /\ wire \o buffer # <<>>
      /\ Tail(wire) \in Seq(Item) /\ Head(wire) \in Item
  BY <1>1, <1>2
<1> DEFINE s == wire \o buffer
<1> DEFINE q == current \o pending
<1>4. s \in Seq(Item) /\ q \in Seq(Item) /\ s # <<>> /\ Head(s) = Head(wire)
  BY <1>2, <1>3
<1>5. Line = s \o q /\ Line' = Tail(s) \o q
  BY <1>1, <1>3, Zenon DEF Line
<1>6. Sent = Carried(s) /\ Sent' = Carried(Tail(s)) /\ Queued' = Queued
  BY <1>1, <1>3, Zenon DEF Sent, Queued, Carried
<1>7. OnLine = Carried(Line) /\ OnLine' = Carried(Line')
  BY Zenon DEF OnLine, Carried
<1> HIDE DEF s, q
<1>8. Tail(s) \o q = Tail(s \o q) /\ Head(s) = Head(s \o q) /\ s \o q # <<>> /\ Tail(s) \in Seq(Item)
  BY <1>4
<1>9. Sorted(Line) /\ Line # <<>> /\ Line' = Tail(Line) /\ Head(Line) = Head(wire)
  BY <1>4, <1>5, <1>8, Zenon DEF StreamInv, LineSorted
<1>10. /\ Sorted(Tail(Line)) /\ Carried(Tail(Line)) \subseteq Carried(Line)
       /\ Carried(Line) \subseteq Carried(Tail(Line)) \cup {Head(Line)}
       /\ Head(Line) \in Answer =>
            Head(Line) \in Carried(Line) /\ \A y \in Carried(Tail(Line)) : Before(Head(Line), y)
  BY <1>2, <1>9, SortedTail, Zenon
<1>11. LineSorted'
  BY <1>9, <1>10, Zenon DEF LineSorted, Sorted
<1>12. Carried(Tail(s)) \subseteq Carried(s) /\ (Head(s) \in Answer => Head(s) \in Carried(s))
  BY <1>4, ToSetTail DEF Carried
<1>13. Carried(Tail(s)) \subseteq Carried(Tail(s) \o q)
  BY <1>4, <1>8, CarriedConcat
<1> QED
  BY <1>1, <1>2, <1>3, <1>4, <1>5, <1>6, <1>7, <1>9, <1>10, <1>11, <1>12, <1>13 DEF TakesOff

\* Only the frame itself ends the wait for a frame.
LEMMA TakesOffFollow ==
  ASSUME NEW item, TakesOff(item), NEW v \in Requests, NEW k \in 1..Chunks, Follow(v, k), FrameOf(v, k) # item
  PROVE  Follow(v, k)'
BY DEF TakesOff, Follow

LEMMA TakesOffHeaders ==
  ASSUME QueueInv, StreamInv, AssemblyInv, NEW item, TakesOff(item),
         NEW v \in Requests, NEW k \in 1..Chunks, HeaderOf(v, k) \in Sent'
  PROVE  Follow(v, k)'
<1>1. Follow(v, k)
  BY DEF TakesOff, AssemblyInv, FrameFollows
<1>2. FrameOf(v, k) # item
  <2>1. SUFFICES ASSUME FrameOf(v, k) = item PROVE FALSE
    OBVIOUS
  <2>2. Before(FrameOf(v, k), HeaderOf(v, k))
    BY <2>1, ChunkItems DEF TakesOff
  <2> QED
    BY <2>2, ChunkItems, BeforeIsStrict
<1> QED
  BY <1>1, <1>2, TakesOffFollow

\* The item that comes instead of the frame awaited shows that frame cut off.
LEMMA OverdueFrame ==
  ASSUME QueueInv, StreamInv, AssemblyInv, NEW item \in Answer, TakesOff(item),
         NEW r \in Requests, NEW k \in 1..Chunks, header = HeaderOf(r, k), item # FrameOf(r, k)
  PROVE  FrameOf(r, k) \in rejected /\ Before(FrameOf(r, k), item)
<1>1. header # NoHeader /\ header.req = r /\ header.chunk = k /\ header \in Answer /\ header \in Known
  BY ChunkItems, KnownParts DEF HeaderOf, NoHeader
<1>2. Before(header, item) /\ item \in OnLine /\ item \in Known
  BY <1>1, KnownParts DEF TakesOff, AssemblyInv, HeaderIsOlder
<1>3. Before(FrameOf(r, k), item)
  BY <1>2, FrameIsNext
<1>4. Follow(r, k)
  BY <1>1 DEF TakesOff, AssemblyInv, FrameFollows
<1>5. FrameOf(r, k) \notin OnLine
  <2>1. SUFFICES ASSUME FrameOf(r, k) \in OnLine PROVE FALSE
    OBVIOUS
  <2>2. Before(item, FrameOf(r, k))
    BY <2>1 DEF TakesOff
  <2> QED
    BY <1>3, <2>2, ChunkItems, BeforeIsStrict
<1>6. job[r] # <<HeaderOf(r, k)>>
  <2>1. SUFFICES ASSUME job[r] = <<header>> PROVE FALSE
    OBVIOUS
  <2>2. r \in ToSet(chain)
    <3>1. job[r] # <<>>
      BY <2>1
    <3>2. chain # <<>> /\ Head(chain) = r
      BY <3>1 DEF QueueInv, Serve
    <3> QED
      BY <3>2, HeadIsInChain DEF QueueInv
  <2>3. item.req <= r /\ r <= item.req /\ item.req \in Nat /\ r \in Nat
    BY <1>1, <1>2, <2>2, BeforeByRequest, AnswerFields, StreamAssumption DEF StreamInv, Placed, Requests
  <2>4. item.req = r
    BY <2>3
  <2>5. item = header \/ Before(item, header)
    BY <1>1, <1>2, <2>1, <2>4 DEF StreamInv, JobIsLast
  <2> QED
    BY <1>1, <1>2, <2>5, BeforeIsStrict
<1> QED
  BY <1>3, <1>4, <1>5, <1>6 DEF Follow

\* A message that leaves the receiver as it is, or forgetting only.
LEMMA QuietDelivery ==
  ASSUME QueueInv, StreamInv, AssemblyInv, NEW item, TakesOff(item),
         header' \in {header, NoHeader}, Mixed' = Mixed, ActiveIsAsked', Kept',
         \A o \in Requests, j \in 1..Chunks : chunks'[o][j] = chunks[o][j] \/ chunks'[o][j] = {},
         \A o \in Requests : result'[o] = "none" <=> result[o] = "none",
         Taken' \subseteq Taken,
         header' # NoHeader => item \notin Frames
  PROVE  StreamInv' /\ AssemblyInv'
<1>1. Known' \subseteq Known
  BY AnswerFields DEF Known, NoHeader, TakesOff
<1>2. ShrinkStep
  BY <1>1 DEF ShrinkStep, TakesOff
<1>3. ASSUME header' # NoHeader, NEW v \in Requests, NEW k \in 1..Chunks, Follow(v, k)
      PROVE  Follow(v, k)'
  <2>1. FrameOf(v, k) # item
    BY <1>3 DEF Frames
  <2> QED
    BY <1>3, <2>1, TakesOffFollow
<1>4. \A v \in Requests, k \in 1..Chunks : HeaderOf(v, k) \in Sent' => Follow(v, k)'
  BY TakesOffHeaders
<1>5. \A v \in Mixed, o \in ToSet(chain') : v <= o
  BY DEF AssemblyInv, MixedIsOld, TakesOff
<1>6. rejected \subseteq rejected' /\ OnLine' \subseteq OnLine /\ channel = "open"
  BY DEF TakesOff
<1>7. KeepStep
  BY <1>3, <1>4, <1>5, <1>6 DEF KeepStep
<1> QED
  BY <1>2, <1>7, ShrinkKeepsStream, KeepKeepsAssembly

LEMMA UnchangedReceiver ==
  ASSUME QueueInv, StreamInv, AssemblyInv, NEW item, TakesOff(item), UNCHANGED receiver,
         header # NoHeader => item \notin Frames
  PROVE  StreamInv' /\ AssemblyInv'
<1>1. /\ header' \in {header, NoHeader} /\ Mixed' = Mixed /\ ActiveIsAsked' /\ Kept'
      /\ \A r \in Requests, j \in 1..Chunks : chunks'[r][j] = chunks[r][j] \/ chunks'[r][j] = {}
      /\ UNCHANGED <<active, header, chunks, result>>
  BY ReceiverKept
<1>2. Taken' = Taken
  BY <1>1, Zenon DEF Taken
<1> QED
  BY <1>1, <1>2, QuietDelivery

\* A live request that ends changes nothing of the others.
LEMMA EndsOne ==
  ASSUME QueueInv, AssemblyInv, NEW r \in Requests, result[r] # "none",
         NEW how \in {"ended", "invalid", "good", "corrupt", "refused"}, Ends(r, how)
  PROVE  /\ active' = active \ {r} /\ ActiveIsAsked' /\ NoOrphanAssembly'
         /\ \A o \in Requests, j \in 1..Chunks : chunks'[o][j] = chunks[o][j] \/ chunks'[o][j] = {}
         /\ \A o \in Requests : result'[o] = "none" <=> result[o] = "none"
         /\ Mixed' \subseteq Mixed \cup {r}
         /\ how \in {"invalid", "corrupt"} => Mixed' = Mixed \cup {r}
         /\ how = "good" => Mixed' \subseteq Mixed
         /\ Taken' \subseteq Taken
<1>1. Receive
  BY DEF QueueInv
<1>2. /\ active' = active \ {r} /\ result'[r] = how /\ (\A o \in Requests : o # r => result'[o] = result[o])
      /\ \A j \in 1..Chunks : chunks'[r][j] = {}
      /\ \A o \in Requests : o # r => chunks'[o] = chunks[o]
      /\ chunks'[r] = Nothing
  BY <1>1, EndsFacts
<1>3. ActiveIsAsked'
  BY <1>1, <1>2 DEF AssemblyInv, ActiveIsAsked, Receive
<1>4. NoOrphanAssembly'
  BY <1>2 DEF AssemblyInv, Kept, NoOrphanAssembly
<1>5. \A o \in Requests, j \in 1..Chunks : chunks'[o][j] = chunks[o][j] \/ chunks'[o][j] = {}
  BY <1>2
<1>6. Taken' \subseteq Taken
  BY <1>5, AnswerFields, ChunkItems DEF Taken, Frames
<1>7. /\ Mixed' \subseteq Mixed \cup {r}
      /\ how \in {"invalid", "corrupt"} => Mixed' = Mixed \cup {r}
      /\ how = "good" => Mixed' \subseteq Mixed
  BY <1>2 DEF Mixed
<1> QED
  BY <1>2, <1>3, <1>4, <1>5, <1>6, <1>7

\* A header is taken and awaits its frame.
LEMMA HeaderTaken ==
  ASSUME QueueInv, StreamInv, AssemblyInv, NEW r \in Requests, NEW k \in 1..Chunks, TakesOff(HeaderOf(r, k)),
         r \in active, header = NoHeader, header' = HeaderOf(r, k), UNCHANGED <<active, chunks, result>>
  PROVE  StreamInv' /\ AssemblyInv'
<1> DEFINE item == HeaderOf(r, k)
<1>1. /\ item \in Answer /\ item.req = r /\ item.chunk = k /\ item # NoHeader
      /\ \A v \in Requests, j \in 1..Chunks : FrameOf(v, j) # item
  BY ChunkItems DEF HeaderOf, FrameOf, NoHeader
<1>2. item \in Sent /\ item \in OnLine /\ (\A x \in OnLine' : Before(item, x)) /\ OnLine' \subseteq OnLine
      /\ channel = "open" /\ Queued' = Queued /\ UNCHANGED <<channel, rejected, chain, job>> /\ LineSorted'
  BY <1>1 DEF TakesOff
<1> HIDE DEF item
<1>3. Taken' = Taken
  BY DEF Taken
<1>4. Known' \subseteq Known
  BY <1>2, <1>3 DEF Known, item
<1>5. StreamInv'
  <2>1. ShrinkStep
    BY <1>2, <1>4 DEF ShrinkStep
  <2> QED
    BY <2>1, ShrinkKeepsStream
<1>6. HeaderIsOlder'
  <2>1. ASSUME NEW j \in 1..Chunks, chunks[r][j] # {} PROVE j < k
    <3>1. Before(FrameOf(r, j), item)
      BY <1>2, <2>1 DEF AssemblyInv, ChunksAreOlder
    <3> QED
      BY <3>1, ChunkItems, StreamAssumption DEF Before, item, Requests
  <2> QED
    BY <1>1, <1>2, <2>1 DEF HeaderIsOlder, item
<1>7. ChunksAreOlder' /\ ChunksAreRight'
  BY <1>2 DEF AssemblyInv, ChunksAreOlder, ChunksAreRight
<1>8. FrameFollows'
  <2>1. Follow(r, k)
    BY <1>2 DEF AssemblyInv, FrameFollows, item
  <2>2. Follow(r, k)'
    BY <1>1, <2>1, TakesOffFollow DEF item
  <2>3. \A v \in Requests, j \in 1..Chunks : HeaderOf(v, j) \in Sent' => Follow(v, j)'
    BY TakesOffHeaders
  <2>4. header'.req = r /\ header'.chunk = k
    BY <1>1 DEF item
  <2> QED
    BY <2>2, <2>3, <2>4, Zenon DEF FrameFollows
<1>9. Mixed' = Mixed
  BY DEF Mixed
<1>10. MixedIsOld'
  <2>1. \A v \in Mixed : v <= r /\ v \in Nat
    BY <1>1, <1>2, MixedAreRequests DEF AssemblyInv, MixedIsOld
  <2>2. header'.req = r /\ r \in Nat /\ \A v \in Mixed : ~(r < v)
    BY <1>1, <2>1, AnswerFields DEF item
  <2> QED
    BY <1>2, <1>9, <2>2 DEF AssemblyInv, MixedIsOld
<1>11. ActiveIsAsked' /\ Kept'
  BY <1>1 DEF AssemblyInv, ActiveIsAsked, Kept, NoOrphanAssembly, item
<1>12. VictimsAreApart'
  <2>1. CutReqs' = CutReqs
    BY <1>2 DEF CutReqs
  <2> QED
    BY <1>9, <2>1, FewerVictims DEF AssemblyInv, Victims
<1> QED
  BY <1>5, <1>6, <1>7, <1>8, <1>10, <1>11, <1>12 DEF AssemblyInv

\* A header that comes where a frame is awaited: its request is refused, and the
\* request whose frame is missing was cut.
LEMMA HeaderRefused ==
  ASSUME QueueInv, StreamInv, AssemblyInv, NEW r \in Requests, NEW k \in 1..Chunks, TakesOff(HeaderOf(r, k)),
         r \in active, header # NoHeader, Ends(r, "invalid"), UNCHANGED header
  PROVE  StreamInv' /\ AssemblyInv'
<1> DEFINE item == HeaderOf(r, k)
<1>1. /\ item \in Answer /\ item.req = r /\ r \in Nat
      /\ \A v \in Requests, j \in 1..Chunks : FrameOf(v, j) # item
  <2>1. item \in Answer /\ item.req = r /\ item.kind = "header"
    BY ChunkItems
  <2>2. r \in Nat
    BY <2>1, AnswerFields
  <2>3. \A v \in Requests, j \in 1..Chunks : FrameOf(v, j).kind = "frame"
    BY ChunkItems
  <2> QED
    BY <2>1, <2>2, <2>3
<1>2. item \in Sent /\ item \in OnLine /\ (\A x \in OnLine' : Before(item, x)) /\ OnLine' \subseteq OnLine
      /\ channel = "open" /\ Queued' = Queued /\ UNCHANGED <<channel, rejected, chain, job>> /\ LineSorted'
      /\ OnLine \subseteq OnLine' \cup {item} /\ TakesOff(item)
  BY <1>1 DEF TakesOff
<1>3. HeaderOf(r, k) \in Sent
  BY <1>2
<1> HIDE DEF item
<1>4. PICK h \in Requests, j \in 1..Chunks :
        header = HeaderOf(h, j) /\ header.req = h /\ header.chunk = j /\ header \in Answer /\ header \in Known
  BY HeaderFields DEF QueueInv
<1>5. FrameOf(h, j) \in rejected /\ Before(FrameOf(h, j), item)
  BY <1>1, <1>2, <1>4, OverdueFrame
<1>6. h \in CutReqs /\ h < r /\ h \in Nat
  <2>1. r # h
    <3>1. SUFFICES ASSUME r = h PROVE FALSE
      OBVIOUS
    <3>2. Before(item, FrameOf(h, j))
      BY <1>1, <1>2, <1>5, <3>1, ChunkItems DEF StreamInv, RejectedIsLast
    <3> QED
      BY <1>1, <1>5, <3>2, ChunkItems, BeforeIsStrict
  <2>2. h <= r
    BY <1>1, <1>5, ChunkItems, BeforeByRequest
  <2> QED
    BY <1>1, <1>5, <2>1, <2>2, StreamAssumption DEF CutReqs, Requests
<1>7. result[r] # "none"
  BY DEF AssemblyInv, ActiveIsAsked
<1>8. /\ active' = active \ {r} /\ ActiveIsAsked' /\ NoOrphanAssembly'
      /\ \A o \in Requests, i \in 1..Chunks : chunks'[o][i] = chunks[o][i] \/ chunks'[o][i] = {}
      /\ \A o \in Requests : result'[o] = "none" <=> result[o] = "none"
      /\ Mixed' = Mixed \cup {r} /\ Taken' \subseteq Taken
  BY <1>7, EndsOne
<1>9. StreamInv'
  <2>1. Known' \subseteq Known
    BY <1>2, <1>8 DEF Known
  <2>2. ShrinkStep
    BY <1>2, <1>8, <2>1 DEF ShrinkStep
  <2> QED
    BY <2>2, ShrinkKeepsStream
<1>10. \A v \in Requests, i \in 1..Chunks : Follow(v, i) => Follow(v, i)'
  BY <1>1, <1>2, TakesOffFollow
<1>11. HeaderIsOlder' /\ ChunksAreOlder' /\ ChunksAreRight'
  <2>1. HeaderIsOlder'
    BY <1>2, <1>4, <1>8 DEF AssemblyInv, HeaderIsOlder
  <2>2. ChunksAreOlder' /\ ChunksAreRight'
    BY <1>2, <1>8 DEF AssemblyInv, ChunksAreOlder, ChunksAreRight
  <2> QED
    BY <2>1, <2>2
<1>12. FrameFollows'
  <2>1. Follow(h, j)'
    BY <1>2, <1>4, <1>10 DEF AssemblyInv, FrameFollows
  <2>2. \A v \in Requests, i \in 1..Chunks : HeaderOf(v, i) \in Sent' => Follow(v, i)'
    BY <1>2, TakesOffHeaders
  <2>3. header'.req = h /\ header'.chunk = j
    BY <1>4
  <2> QED
    BY <2>1, <2>2, <2>3, Zenon DEF FrameFollows
<1>13. MixedIsOld'
  <2>1. ASSUME NEW v \in Mixed'
        PROVE  /\ \A x \in OnLine' : v <= x.req
               /\ \A o \in ToSet(chain') : v <= o
               /\ channel' = "open" /\ header' # NoHeader /\ header'.req < v
                    => \E i \in 1..Chunks : Follow(v, i)'
    <3>1. CASE v \in Mixed
      <4>1. v \in Requests
        BY <3>1, MixedAreRequests
      <4>2. header.req < v => \E i \in 1..Chunks : Follow(v, i)
        BY <1>2, <3>1 DEF AssemblyInv, MixedIsOld
      <4>3. (\A x \in OnLine' : v <= x.req) /\ (\A o \in ToSet(chain') : v <= o)
        BY <1>2, <3>1 DEF AssemblyInv, MixedIsOld
      <4> QED
        BY <1>10, <4>1, <4>2, <4>3
    <3>2. CASE v = r
      <4>1. \A x \in OnLine' : r <= x.req
        BY <1>1, <1>2, BeforeByRequest, CarriedAreAnswers
      <4>2. \A o \in ToSet(chain') : r <= o
        BY <1>1, <1>2, KnownParts DEF StreamInv, Placed
      <4>3. Follow(r, k)'
        BY <1>2, <1>3, <1>10 DEF AssemblyInv, FrameFollows
      <4> QED
        BY <3>2, <4>1, <4>2, <4>3
    <3> QED
      BY <1>8, <2>1, <3>1, <3>2
  <2> QED
    BY <2>1, Zenon DEF MixedIsOld
<1>14. Kept'
  BY <1>4, <1>6, <1>8 DEF AssemblyInv, Kept
<1>15. VictimsAreApart'
  <2>1. CutReqs' = CutReqs
    BY <1>2 DEF CutReqs
  <2>2. \A u \in Victims' : u \in Victims \/ u = r
    BY <1>8, <2>1 DEF Victims
  <2>3. \A u \in Victims : u \in Mixed /\ u \in Requests /\ u \in Nat /\ u \notin CutReqs /\ u <= r
    BY <1>1, <1>2, MixedAreRequests DEF Victims, AssemblyInv, MixedIsOld
  <2>4. ASSUME NEW u \in Victims, h < u, u < r PROVE FALSE
    <3>1. PICK i \in 1..Chunks : Follow(u, i)
      BY <1>2, <1>4, <2>3, <2>4 DEF AssemblyInv, MixedIsOld
    <3>2. FrameOf(u, i) \notin rejected
      BY <2>3 DEF CutReqs
    <3>3. FrameOf(u, i) \notin OnLine
      <4>1. SUFFICES ASSUME FrameOf(u, i) \in OnLine' PROVE FALSE
        BY <1>1, <1>2, <2>3
      <4>2. Before(item, FrameOf(u, i)) /\ FrameOf(u, i) \in Answer /\ FrameOf(u, i).req = u
        BY <1>2, <2>3, <4>1, ChunkItems
      <4>3. r <= u
        BY <1>1, <4>2, BeforeByRequest
      <4> QED
        BY <1>1, <2>3, <2>4, <4>3
    <3>4. job[u] # <<HeaderOf(u, i)>>
      <4>1. SUFFICES ASSUME job[u] # <<>> PROVE FALSE
        OBVIOUS
      <4>2. u \in ToSet(chain)
        BY <2>3, <4>1, HeadIsInChain DEF QueueInv, Serve
      <4>3. r <= u
        BY <1>1, <1>2, <4>2, KnownParts DEF StreamInv, Placed
      <4> QED
        BY <1>1, <2>3, <2>4, <4>3
    <3> QED
      BY <3>1, <3>2, <3>3, <3>4 DEF Follow
  <2>5. ASSUME NEW v \in Victims'
        PROVE  \E c \in CutReqs' : c < v /\ \A u \in Victims' : ~(c < u /\ u < v)
    <3>1. CASE v \in Victims
      <4>1. PICK c \in CutReqs : c < v /\ \A u \in Victims : ~(c < u /\ u < v)
        BY <3>1 DEF AssemblyInv, VictimsAreApart
      <4>2. ~(r < v)
        BY <1>1, <2>3, <3>1
      <4> QED
        BY <2>1, <2>2, <4>1, <4>2
    <3>2. CASE v = r
      <4>1. \A u \in Victims' : ~(h < u /\ u < r)
        BY <1>1, <2>2, <2>4
      <4> QED
        BY <1>6, <2>1, <3>2, <4>1
    <3> QED
      BY <2>2, <2>5, <3>1, <3>2
  <2> QED
    BY <2>5, Zenon DEF VictimsAreApart
<1> QED
  BY <1>8, <1>9, <1>11, <1>12, <1>13, <1>14, <1>15 DEF AssemblyInv

\* The frame that comes for a header is the one announced, or the announced one
\* was cut off.
LEMMA FrameAwaited ==
  ASSUME QueueInv, StreamInv, AssemblyInv, NEW item \in Answer, TakesOff(item),
         NEW r \in Requests, NEW k \in 1..Chunks, header = HeaderOf(r, k)
  PROVE  /\ header # NoHeader /\ header.req = r /\ header.chunk = k /\ result[r] # "none"
         /\ chunks[r][k] = {}
         /\ item # FrameOf(r, k) => FrameOf(r, k) \in rejected /\ Before(FrameOf(r, k), item) /\ r \in CutReqs
         /\ FrameOf(r, k) \in Known
<1>1. header # NoHeader /\ header.req = r /\ header.chunk = k /\ header \in Answer /\ header \in Known
  BY ChunkItems, KnownParts DEF HeaderOf, NoHeader
<1>2. result[r] # "none"
  BY <1>1 DEF StreamInv, Placed
<1>3. chunks[r][k] = {}
  <2>1. chunks[r][k] # {} => k < k
    BY <1>1 DEF AssemblyInv, HeaderIsOlder
  <2>2. ~(k < k)
    OBVIOUS
  <2> QED
    BY <2>1, <2>2
<1>4. item # FrameOf(r, k) => FrameOf(r, k) \in rejected /\ Before(FrameOf(r, k), item) /\ r \in CutReqs
  BY OverdueFrame DEF CutReqs
<1>5. FrameOf(r, k) \in Known
  <2>1. CASE item = FrameOf(r, k)
    BY <2>1, KnownParts DEF TakesOff
  <2>2. CASE item # FrameOf(r, k)
    BY <1>4, <2>2, ChunkItems, KnownParts
  <2> QED
    BY <2>1, <2>2
<1> QED
  BY <1>1, <1>2, <1>3, <1>4, <1>5

\* A frame uses the header up; its bytes are kept for the chunk announced or not
\* at all, and a request is mixed up only if the announced frame was cut off.
LEMMA FrameDelivery ==
  ASSUME QueueInv, StreamInv, AssemblyInv, NEW item \in Answer, TakesOff(item),
         NEW r \in Requests, NEW k \in 1..Chunks, header = HeaderOf(r, k), header' = NoHeader,
         Mixed' \subseteq Mixed \cup (CutReqs \cap {r}), ActiveIsAsked', NoOrphanAssembly',
         \A o \in Requests : result'[o] = "none" <=> result[o] = "none",
         \A o \in Requests, j \in 1..Chunks :
           \/ chunks'[o][j] = chunks[o][j]
           \/ chunks'[o][j] = {}
           \/ o = r /\ j = k /\ chunks'[o][j] = {item}
  PROVE  StreamInv' /\ AssemblyInv'
<1>1. /\ header # NoHeader /\ header.req = r /\ header.chunk = k
      /\ header \in Answer /\ header \in Known /\ NoHeader \notin Answer
  BY ChunkItems, KnownParts, AnswerFields DEF HeaderOf, NoHeader
<1>2. /\ item # FrameOf(r, k) => FrameOf(r, k) \in rejected /\ Before(FrameOf(r, k), item)
      /\ FrameOf(r, k) \in Known
  BY FrameAwaited
<1>3. (\A x \in OnLine' : Before(item, x)) /\ OnLine' \subseteq OnLine
      /\ Queued' = Queued /\ UNCHANGED <<channel, rejected, chain, job>> /\ LineSorted'
  BY DEF TakesOff
<1>4. StreamInv'
  <2>1. Taken' \subseteq Taken \cup {FrameOf(r, k)}
    <3>1. ASSUME NEW f \in Taken' PROVE f \in Taken \cup {FrameOf(r, k)}
      <4>1. f \in Frames /\ chunks'[f.req][f.chunk] # {}
        BY <3>1 DEF Taken
      <4>2. PICK o \in Requests, j \in 1..Chunks : f = FrameOf(o, j) /\ f.req = o /\ f.chunk = j
        BY <4>1, ChunkItems DEF Frames
      <4> QED
        BY <4>1, <4>2 DEF Taken
    <3> QED
      BY <3>1
  <2>2. Known' \subseteq Known
    BY <1>1, <1>2, <1>3, <2>1 DEF Known
  <2>3. ShrinkStep
    BY <1>3, <2>2 DEF ShrinkStep
  <2> QED
    BY <2>3, ShrinkKeepsStream
<1>5. HeaderIsOlder'
  BY DEF HeaderIsOlder
<1>6. ChunksAreOlder'
  <2>1. \A x \in OnLine' : Before(FrameOf(r, k), x)
    BY <1>2, <1>3, BeforeIsStrict, ChunkItems, CarriedAreAnswers
  <2> QED
    BY <1>3, <2>1 DEF AssemblyInv, ChunksAreOlder
<1>7. ChunksAreRight'
  BY <1>2, <1>3 DEF AssemblyInv, ChunksAreRight
<1>8. FrameFollows'
  <2>1. \A v \in Requests, i \in 1..Chunks : HeaderOf(v, i) \in Sent' => Follow(v, i)'
    BY TakesOffHeaders
  <2> QED
    BY <2>1, Zenon DEF FrameFollows
<1>9. MixedIsOld'
  <2>1. \A x \in OnLine' : r <= x.req
    BY <1>1, <1>3, BeforeByRequest, CarriedAreAnswers DEF AssemblyInv, HeaderIsOlder
  <2>2. \A o \in ToSet(chain') : r <= o
    BY <1>1, <1>3 DEF StreamInv, Placed
  <2> QED
    BY <1>3, <2>1, <2>2 DEF AssemblyInv, MixedIsOld
<1>10. Kept'
  BY DEF Kept
<1>11. VictimsAreApart'
  <2>1. CutReqs' = CutReqs
    BY <1>3 DEF CutReqs
  <2> QED
    BY <2>1, FewerVictims DEF AssemblyInv, Victims
<1> QED
  BY <1>4, <1>5, <1>6, <1>7, <1>8, <1>9, <1>10, <1>11 DEF AssemblyInv

LEMMA FrameTaken ==
  ASSUME QueueInv, StreamInv, AssemblyInv, NEW item \in Answer, TakesOff(item), OnFrame(item)
  PROVE  StreamInv' /\ AssemblyInv'
<1>1. header # NoHeader /\ header' = NoHeader
  BY DEF OnFrame, HeaderAfterFrame
<1>2. PICK r \in Requests, k \in 1..Chunks : header = HeaderOf(r, k) /\ header.req = r /\ header.chunk = k
  BY <1>1, HeaderFields DEF QueueInv
<1>3. /\ result[r] # "none" /\ chunks[r][k] = {}
      /\ item # FrameOf(r, k) => r \in CutReqs
  BY <1>2, FrameAwaited
<1> DEFINE taken == [chunks[r] EXCEPT ![k] = {item}]
<1>4. chunks \in [Requests -> [1..Chunks -> SUBSET Item]] /\ r \in active \cup Grid
  BY <1>1, <1>2 DEF QueueInv, Receive, AssemblyInv, Kept
<1>5. taken[k] = {item} /\ (\A j \in 1..Chunks : j # k => taken[j] = chunks[r][j])
  BY <1>4
<1>6. \/ item # FrameOf(r, k) /\ Ends(r, "invalid")
      \/ /\ \A j \in 1..Chunks : taken[j] # {}
         /\ r \in active
         /\ Ends(r, IF \A j \in 1..Chunks : taken[j] = {FrameOf(r, j)} THEN "good" ELSE "corrupt")
      \/ /\ chunks' = [chunks EXCEPT ![r] = Nothing] /\ UNCHANGED <<active, result>>
      \/ /\ chunks' = [chunks EXCEPT ![r] = taken] /\ UNCHANGED <<active, result>>
  BY <1>2, <1>3 DEF OnFrame
<1> HIDE DEF taken
<1>7. CASE item # FrameOf(r, k) /\ Ends(r, "invalid")
  <2>1. /\ ActiveIsAsked' /\ NoOrphanAssembly'
        /\ \A o \in Requests, j \in 1..Chunks : chunks'[o][j] = chunks[o][j] \/ chunks'[o][j] = {}
        /\ \A o \in Requests : result'[o] = "none" <=> result[o] = "none"
        /\ Mixed' \subseteq Mixed \cup {r}
    BY <1>3, <1>7, EndsOne
  <2>2. Mixed' \subseteq Mixed \cup (CutReqs \cap {r})
    BY <1>3, <1>7, <2>1
  <2> QED
    BY <1>1, <1>2, <2>1, <2>2, FrameDelivery
<1>8. ASSUME \A j \in 1..Chunks : taken[j] # {},
             Ends(r, IF \A j \in 1..Chunks : taken[j] = {FrameOf(r, j)} THEN "good" ELSE "corrupt")
      PROVE  StreamInv' /\ AssemblyInv'
  <2>1. PICK how \in {"good", "corrupt"} :
          Ends(r, how) /\ (how = "corrupt" => \E j \in 1..Chunks : taken[j] # {FrameOf(r, j)})
    BY <1>8
  <2>2. /\ ActiveIsAsked' /\ NoOrphanAssembly'
        /\ \A o \in Requests, j \in 1..Chunks : chunks'[o][j] = chunks[o][j] \/ chunks'[o][j] = {}
        /\ \A o \in Requests : result'[o] = "none" <=> result[o] = "none"
        /\ Mixed' \subseteq Mixed \cup {r}
        /\ how = "good" => Mixed' \subseteq Mixed
    BY <1>3, <2>1, EndsOne
  <2>3. ASSUME how = "corrupt" PROVE r \in CutReqs
    <3>1. PICK j \in 1..Chunks : taken[j] # {FrameOf(r, j)}
      BY <2>1, <2>3
    <3>2. CASE j = k
      BY <1>3, <1>5, <3>1, <3>2
    <3>3. CASE j # k
      <4>1. chunks[r][j] # {} /\ chunks[r][j] # {FrameOf(r, j)}
        BY <1>5, <1>8, <3>1, <3>3
      <4>2. FrameOf(r, j) \in rejected
        BY <4>1 DEF AssemblyInv, ChunksAreRight
      <4> QED
        BY <4>2 DEF CutReqs
    <3> QED
      BY <3>2, <3>3
  <2>4. Mixed' \subseteq Mixed \cup (CutReqs \cap {r})
    BY <2>1, <2>2, <2>3
  <2> QED
    BY <1>1, <1>2, <2>2, <2>4, FrameDelivery
<1>9. ASSUME UNCHANGED <<active, result>>,
             \/ chunks' = [chunks EXCEPT ![r] = Nothing]
             \/ chunks' = [chunks EXCEPT ![r] = taken]
      PROVE  StreamInv' /\ AssemblyInv'
  <2>1. Mixed' = Mixed /\ ActiveIsAsked'
    BY <1>9 DEF Mixed, AssemblyInv, ActiveIsAsked
  <2>2. chunks'[r] \in {Nothing, taken} /\ \A o \in Requests : o # r => chunks'[o] = chunks[o]
    BY <1>4, <1>9
  <2>3. NoOrphanAssembly'
    BY <1>4, <1>9, <2>2 DEF AssemblyInv, Kept, NoOrphanAssembly
  <2>4. \A o \in Requests, j \in 1..Chunks :
           \/ chunks'[o][j] = chunks[o][j]
           \/ chunks'[o][j] = {}
           \/ o = r /\ j = k /\ chunks'[o][j] = {item}
    BY <1>5, <2>2 DEF Nothing
  <2>5. Mixed' \subseteq Mixed \cup (CutReqs \cap {r}) /\ \A o \in Requests : result'[o] = "none" <=> result[o] = "none"
    BY <1>9, <2>1
  <2> QED
    BY <1>1, <1>2, <2>1, <2>3, <2>4, <2>5, FrameDelivery
<1> QED
  BY <1>6, <1>7, <1>8, <1>9

LEMMA DeliverKeeps ==
  ASSUME QueueInv, StreamInv, AssemblyInv, Deliver
  PROVE  StreamInv' /\ AssemblyInv'
<1> DEFINE item == Head(wire)
<1>1. item \in Item /\ TakesOff(item)
  BY DeliverTakesOff
<1>2. \/ item.kind = "header" /\ OnHeader(item)
      \/ item.kind = "frame" /\ OnFrame(item)
      \/ item.kind = "frame" /\ header = NoHeader /\ UNCHANGED receiver
      \/ item.kind = "refusal" /\ OnRefusal(item)
      \/ item.kind = "note" /\ UNCHANGED receiver
  BY DEF Deliver
<1> HIDE DEF item
<1>3. item.kind # "note" => item \in Answer
  BY <1>1 DEF Item, Note
<1>4. item.kind # "frame" => item \notin Frames
  BY ChunkItems DEF Frames
<1>5. CASE item.kind = "header" /\ OnHeader(item)
  <2>1. PICK r \in Requests, k \in 1..Chunks : item = HeaderOf(r, k) /\ item.req = r
    BY <1>3, <1>5, AnswerFields
  <2>2. CASE r \notin active
    BY <1>1, <1>4, <1>5, <2>1, <2>2, UnchangedReceiver DEF OnHeader
  <2>3. CASE r \in active /\ header = NoHeader
    BY <1>1, <1>5, <2>1, <2>3, HeaderTaken DEF OnHeader
  <2>4. CASE r \in active /\ header # NoHeader
    BY <1>1, <1>5, <2>1, <2>4, HeaderRefused DEF OnHeader
  <2> QED
    BY <2>2, <2>3, <2>4
<1>6. CASE item.kind = "frame" /\ OnFrame(item)
  BY <1>1, <1>3, <1>6, FrameTaken
<1>7. CASE ((item.kind = "frame" /\ header = NoHeader) \/ item.kind = "note") /\ UNCHANGED receiver
  BY <1>1, <1>4, <1>7, UnchangedReceiver
<1>8. CASE item.kind = "refusal" /\ OnRefusal(item)
  <2>1. item \notin Frames
    BY <1>4, <1>8
  <2>2. CASE item.req \notin active
    BY <1>1, <1>8, <2>1, <2>2, UnchangedReceiver DEF OnRefusal
  <2>3. CASE item.req \in active
    <3>1. Ends(item.req, "refused") /\ header' = HeaderAfter(item.req)
      BY <1>8, <2>3 DEF OnRefusal
    <3>2. /\ header' \in {header, NoHeader} /\ Mixed' = Mixed /\ ActiveIsAsked' /\ Kept'
          /\ \A o \in Requests, j \in 1..Chunks : chunks'[o][j] = chunks[o][j] \/ chunks'[o][j] = {}
          /\ \A o \in Requests : result'[o] = "none" <=> result[o] = "none"
          /\ Taken' \subseteq Taken
      BY <2>3, <3>1, EndsCleanly
    <3> QED
      BY <1>1, <2>1, <3>2, QuietDelivery
  <2> QED
    BY <2>2, <2>3
<1> QED
  BY <1>2, <1>5, <1>6, <1>7, <1>8
-----------------------------------------------------------------------------
(* The invariant holds from the start and is kept by every step.            *)

LEMMA StreamStarts ==
  ASSUME Init
  PROVE  StreamInv /\ AssemblyInv
<1>1. /\ wire = <<>> /\ buffer = <<>> /\ current = <<>> /\ pending = <<>> /\ rejected = {} /\ chain = <<>>
      /\ job = [r \in Requests |-> <<>>] /\ active = {} /\ header = NoHeader
      /\ chunks = [r \in Requests |-> Nothing] /\ result = [r \in Requests |-> "none"]
  BY DEF Init, QueueInit
<1>2. Line = <<>> /\ wire \o buffer = <<>> /\ current \o pending = <<>>
  BY <1>1 DEF Line
<1>3. OnLine = {} /\ Queued = {} /\ Sent = {}
  BY <1>2, ToSetSmall DEF OnLine, Queued, Sent, Carried
<1>4. \A r \in Requests, j \in 1..Chunks : chunks[r][j] = {}
  BY <1>1 DEF Nothing
<1>5. Known = {} /\ Mixed = {} /\ CutReqs = {} /\ ToSet(chain) = {}
  <2>1. NoHeader \notin Answer
    BY AnswerFields DEF NoHeader
  <2>2. Taken = {}
    BY <1>4, ChunkItems DEF Taken, Frames
  <2>3. Mixed = {}
    BY <1>1 DEF Mixed
  <2> QED
    BY <1>1, <1>3, <2>1, <2>2, <2>3, ToSetSmall DEF Known, CutReqs
<1>6. InOrder
  BY <1>1, <1>5 DEF InOrder, Rising
<1>7. LineSorted
  BY <1>2 DEF LineSorted, Sorted
<1>8. StreamInv
  BY <1>1, <1>3, <1>5, <1>6, <1>7 DEF StreamInv, Placed, JobIsLast, QueuedIsAwaited, RejectedIsLast
<1>9. AssemblyInv
  <2>1. Kept
    BY <1>1 DEF Kept, NoOrphanAssembly
  <2> QED
    BY <1>1, <1>3, <1>4, <1>5, <2>1 DEF AssemblyInv, HeaderIsOlder, ChunksAreOlder, ChunksAreRight,
       FrameFollows, MixedIsOld, ActiveIsAsked, VictimsAreApart, Victims
<1> QED
  BY <1>8, <1>9

LEMMA StreamStutters ==
  ASSUME UNCHANGED vars, StreamInv, AssemblyInv
  PROVE  StreamInv' /\ AssemblyInv'
<1>1. UNCHANGED <<wire, buffer, current, pending, rejected, channel, chain, job, active, header, chunks, result>>
  BY DEF vars, queueVars, streamVars
<1>2. Line' = Line /\ OnLine' = OnLine /\ Queued' = Queued /\ Sent' = Sent
  BY <1>1 DEF Line, OnLine, Queued, Sent, Carried
<1>3. Known' = Known /\ Mixed' = Mixed /\ CutReqs' = CutReqs
  BY <1>1, <1>2 DEF Known, Taken, Mixed, CutReqs
<1>4. \A v \in Requests, k \in 1..Chunks : Follow(v, k)' <=> Follow(v, k)
  BY <1>1, <1>2 DEF Follow
<1>5. StreamInv'
  BY <1>1, <1>2, <1>3, Zenon DEF StreamInv, InOrder, Rising, LineSorted, Sorted, Placed, JobIsLast,
     QueuedIsAwaited, RejectedIsLast
<1>6. AssemblyInv'
  BY <1>1, <1>2, <1>3, Zenon DEF AssemblyInv, HeaderIsOlder, ChunksAreOlder, ChunksAreRight, FrameFollows,
     Follow, MixedIsOld, ActiveIsAsked, Kept, NoOrphanAssembly, VictimsAreApart, Victims
<1> QED
  BY <1>5, <1>6

LEMMA StreamStep ==
  ASSUME QueueInv, StreamInv, AssemblyInv, [Next]_vars
  PROVE  StreamInv' /\ AssemblyInv'
<1>1. Shape /\ LineSorted
  BY DEF QueueInv, Queue, StreamInv
<1>2. CASE Queueing \/ (ChannelFails /\ UNCHANGED streamVars)
  <2>1. FlowStep
    BY <1>1, <1>2, FlowIsFlowStep DEF Queueing
  <2> QED
    BY <2>1, FlowShrinks, ShrinkKeepsStream, FlowKeepsAssembly
<1>3. CASE Deliver
  BY <1>3, DeliverKeeps
<1>4. ASSUME NEW r \in Requests, RequestPiece(r)
      PROVE  StreamInv' /\ AssemblyInv'
  BY <1>4, RequestKeepsStream, RequestKeepsAssembly
<1>5. ASSUME NEW r \in Requests, Serving(r)
      PROVE  StreamInv' /\ AssemblyInv'
  <2>1. CASE \E item \in Answer : ServeStep(r, item)
    BY <2>1, ServeKeepsStream, ServeKeepsAssembly
  <2>2. CASE EndStep(r)
    BY <2>2, EndKeepsStream, EndKeepsAssembly
  <2>3. CASE ServeStarts(r)
    BY <2>1, <2>3, ServeStartsIsServeStep
  <2>4. CASE SourceFails(r)
    BY <2>2, <2>4, SourceFailsIsEndStep
  <2>5. CASE ChunkSent(r)
    BY <2>1, <2>2, <2>5, ChunkSentIsServeStep, ChunkSentIsEndStep
  <2>6. CASE ChunkFails(r)
    BY <2>2, <2>6, ChunkFailsIsEndStep
  <2> QED
    BY <1>5, <2>3, <2>4, <2>5, <2>6 DEF Serving
<1>6. ASSUME NEW r \in Requests, EndsEarly(r)
      PROVE  StreamInv' /\ AssemblyInv'
  BY <1>6, EndsEarlyKeeps
<1>7. ASSUME NEW n \in Notes, SendNote(n)
      PROVE  StreamInv' /\ AssemblyInv'
  <2>1. NoteStep(Note(n)) /\ Note(n) \in Item
    BY <1>7, SendNoteIsNoteStep
  <2> QED
    BY <2>1, NoteShrinks, ShrinkKeepsStream, NoteKeepsAssembly
<1>8. CASE UNCHANGED vars
  BY <1>8, StreamStutters
<1> QED
  BY <1>2, <1>3, <1>4, <1>5, <1>6, <1>7, <1>8 DEF Next
-----------------------------------------------------------------------------
(* Counting what a cut can cost.                                            *)

\* Each cut frame cuts one request.
LEMMA CutsAreCounted ==
  ASSUME IsFiniteSet(rejected)
  PROVE  /\ IsFiniteSet(Cut) /\ IsFiniteSet(CutReqs) /\ Cardinality(CutReqs) <= Cardinality(Cut)
         /\ Cardinality(Cut) \in Nat /\ Cardinality(CutReqs) \in Nat
<1>1. IsFiniteSet(Cut)
  BY FS_Subset DEF Cut
<1> DEFINE piece(c) == CHOOSE k \in 1..Chunks : FrameOf(c, k) \in rejected
<1> DEFINE g == [c \in CutReqs |-> FrameOf(c, piece(c))]
<1>2. ASSUME NEW c \in CutReqs PROVE c \in Requests /\ piece(c) \in 1..Chunks /\ FrameOf(c, piece(c)) \in rejected
  BY DEF CutReqs
<1> HIDE DEF piece
<1>3. ASSUME NEW c \in CutReqs PROVE g[c] \in Cut /\ g[c].req = c
  BY <1>2, ChunkItems DEF Cut
<1> HIDE DEF g
<1>4. g \in Injection(CutReqs, Cut)
  <2>1. g \in [CutReqs -> Cut]
    BY <1>3 DEF g
  <2>2. \A a, b \in CutReqs : g[a] = g[b] => a = b
    BY <1>3, Zenon
  <2> QED
    BY <2>1, <2>2 DEF Injection, IsInjective
<1>5. IsFiniteSet(CutReqs) /\ Cardinality(CutReqs) <= Cardinality(Cut)
  BY <1>1, <1>4, FS_Injection
<1> QED
  BY <1>1, <1>5, FS_CardinalityType

\* Each victim has a cut request of its own, the last one before it.
LEMMA VictimsAreCounted ==
  ASSUME VictimsAreApart, IsFiniteSet(CutReqs)
  PROVE  IsFiniteSet(Victims) /\ Cardinality(Victims) <= Cardinality(CutReqs) /\ Cardinality(Victims) \in Nat
<1> DEFINE Costs(v, c) == c < v /\ \A u \in Victims : ~(c < u /\ u < v)
<1> DEFINE f == [v \in Victims |-> CHOOSE c \in CutReqs : Costs(v, c)]
<1>1. ASSUME NEW v \in Victims PROVE f[v] \in CutReqs /\ f[v] < v /\ \A u \in Victims : ~(f[v] < u /\ u < v)
  BY DEF VictimsAreApart
<1> HIDE DEF f
<1>2. \A v \in Victims : v \in Nat
  BY MixedAreRequests DEF Victims
<1>3. ASSUME NEW v \in Victims, NEW u \in Victims, f[v] = f[u] PROVE v = u
  <2>1. ~(f[v] < u /\ u < v) /\ f[u] < u
    BY <1>1
  <2>2. ~(f[u] < v /\ v < u) /\ f[v] < v
    BY <1>1
  <2>3. ~(u < v) /\ ~(v < u)
    BY <1>3, <2>1, <2>2
  <2> QED
    BY <1>2, <2>3
<1>4. f \in Injection(Victims, CutReqs)
  <2>1. f \in [Victims -> CutReqs]
    BY <1>1 DEF f
  <2> QED
    BY <1>3, <2>1 DEF Injection, IsInjective
<1> QED
  BY <1>4, FS_Injection, FS_CardinalityType

LEMMA AssemblyInvImplies ==
  ASSUME QueueInv, AssemblyInv
  PROVE  AssemblyIsSound
<1>1. /\ IsFiniteSet(CutReqs) /\ Cardinality(CutReqs) <= Cardinality(Cut)
      /\ Cardinality(Cut) \in Nat /\ Cardinality(CutReqs) \in Nat
  BY CutsAreCounted DEF QueueInv, Queue, Shape
<1>2. IsFiniteSet(Victims) /\ Cardinality(Victims) <= Cardinality(CutReqs) /\ Cardinality(Victims) \in Nat
  BY <1>1, VictimsAreCounted DEF AssemblyInv
<1> DEFINE all == Victims \cup CutReqs
<1>3. /\ IsFiniteSet(all)
      /\ Cardinality(all) = Cardinality(Victims) + Cardinality(CutReqs) - Cardinality(Victims \cap CutReqs)
  BY <1>1, <1>2, FS_Union
<1>4. Cardinality(Victims \cap CutReqs) \in Nat
  BY <1>1, FS_Subset, FS_CardinalityType
<1>5. Mixed \in SUBSET all
  BY DEF Victims
<1> HIDE DEF all
<1>6. Cardinality(Mixed) <= Cardinality(all) /\ Cardinality(Mixed) \in Nat /\ Cardinality(all) \in Nat
  BY <1>3, <1>5, FS_Subset, FS_CardinalityType
<1>7. Cardinality(Mixed) <= 2 * Cardinality(Cut)
  BY <1>1, <1>2, <1>3, <1>4, <1>6
<1> QED
  BY <1>7 DEF AssemblyInv, Kept, AssemblyIsSound, MixedOnlyAfterCut

(* Headers and frames that travel as separate messages are put together     *)
(* again: a piece is refused or corrupt only if the send of a frame failed   *)
(* behind its header, at most two requests for each such frame, and no bytes *)
(* are kept for a direct request that has ended (handleTransportMessage,     *)
(* handleTransportBinary, appendIncomingChunk).                              *)
THEOREM AssemblySound == Spec => []AssemblyIsSound
<1> DEFINE Inv == QueueInv /\ StreamInv /\ AssemblyInv
<1>1. Init => Inv
  BY QueueStarts, StreamStarts
<1>2. Inv /\ [Next]_vars => Inv'
  BY QueueKept, StreamStep
<1>3. Inv => AssemblyIsSound
  BY AssemblyInvImplies
<1> QED
  BY <1>1, <1>2, <1>3, PTL DEF Spec
=============================================================================
