------------------------ MODULE GridSchedulerProofs ------------------------
(***************************************************************************)
(* The bounds of the grid scheduler, for any number of pieces, providers,   *)
(* retries and failures.  The scheduler is a set of operators on the        *)
(* engine's record, so each gets a lemma of its own: a record that is       *)
(* accounted for stays so.  Accounting is what makes the bound inductive: a *)
(* failure of a piece is counted when it happens, or is still owed by a     *)
(* lease that is due and whose expiry will count it.                        *)
(***************************************************************************)
EXTENDS GridScheduler, FiniteSetTheorems, WellFoundedInduction, TLAPS

Engine ==
  [status : [Piece -> {"missing", "requested", "failed", "verified"}],
   retries : [Piece -> Nat], lease : [Piece -> Request \cup {NoLease}],
   open : SUBSET Request, tomb : SUBSET Request, plain : SUBSET Request,
   issued : [Piece -> Nat], peer : [Request -> Peers]]

(* A piece that may be requested has as many counted failures as requests;   *)
(* of the n failures there have been, those a due lease stands for are yet  *)
(* to be counted.                                                           *)
Paid(e, D, n) ==
  \A p \in Piece :
    /\ e.issued[p] <= e.retries[p] + 1
    /\ e.status[p] \in {"missing", "failed"} => e.issued[p] <= e.retries[p]
    /\ e.retries[p] <= n
    /\ e.lease[p] \in D => e.retries[p] + 1 <= n

(* Requests are numbered from 1 to issued.                                  *)
Numbered(e, D) ==
  /\ \A r \in e.open \cup D : r[2] <= e.issued[r[1]]
  /\ \A p \in Piece : e.lease[p] # NoLease => e.lease[p][1] = p /\ e.lease[p][2] <= e.issued[p]

Gridded(e, q) == {r \in e.open \ e.plain : e.peer[r] = q}
Capped(e) == \A q \in Peers : Cardinality(Gridded(e, q)) <= PerPeer

Good(e, D, n) == e \in Engine /\ Paid(e, D, n) /\ Numbered(e, D) /\ Capped(e)

Budget == 0..MaxTrouble + MaxFaults

-----------------------------------------------------------------------------
(* Sets.                                                                    *)

LEMMA Smallest ==
  ASSUME NEW S, S \subseteq Nat, S # {}
  PROVE  \E m \in S : \A k \in S : m <= k
<1>1. PICK m \in S : \A k \in S : ~ (<<k, m>> \in OpToRel(<, Nat))
  BY NatLessThanWellFounded, WFMin, Zenon
<1>2. \A k \in S : ~ (<<k, m>> \in {ss \in Nat \X Nat : ss[1] < ss[2]})
  BY <1>1 DEF OpToRel
<1>3. \A k \in S : ~ (k < m)
  BY <1>2
<1> QED BY <1>3

(* A nonempty set has an element on which a function is least.              *)
LEMMA Least ==
  ASSUME NEW S, S # {}, NEW f, \A x \in S : f[x] \in Nat
  PROVE  \E x \in S : \A y \in S : f[x] <= f[y]
<1>1. PICK m \in {f[x] : x \in S} : \A k \in {f[x] : x \in S} : m <= k
  BY Smallest
<1> QED BY <1>1

LEMMA Numbers ==
  /\ PieceCount \in Nat /\ PerPeer \in Nat /\ MaxTrouble \in Nat /\ MaxFaults \in Nat
  /\ 1 \in Int /\ PieceCount \in Int /\ MaxTrouble + MaxFaults + 1 \in Int
  BY GridAssumption

LEMMA PieceFinite == IsFiniteSet(Piece) /\ Cardinality(Piece) = PieceCount
<1>1. IsFiniteSet(1..PieceCount)
      /\ Cardinality(1..PieceCount) = IF 1 > PieceCount THEN 0 ELSE PieceCount - 1 + 1
  BY Numbers, FS_Interval
<1> QED BY <1>1, Numbers DEF Piece

LEMMA RequestFinite ==
  ASSUME NEW S, S \subseteq Request
  PROVE  IsFiniteSet(S) /\ Cardinality(S) \in Nat
<1>1. IsFiniteSet(Piece) /\ IsFiniteSet(1..MaxTrouble + MaxFaults + 1)
  BY PieceFinite, Numbers, FS_Interval
<1>2. IsFiniteSet(Request)
  BY <1>1, FS_Product DEF Request
<1> QED BY <1>2, FS_Subset, FS_CardinalityType

LEMMA VerifiedCount ==
  ASSUME NEW e
  PROVE  Cardinality(Verified(e)) \in 0..PieceCount
<1>1. IsFiniteSet(Piece) /\ Cardinality(Piece) = PieceCount
  BY PieceFinite
<1>2. Verified(e) \subseteq Piece
  BY DEF Verified
<1>3. IsFiniteSet(Verified(e)) /\ Cardinality(Verified(e)) <= PieceCount
  BY <1>1, <1>2, FS_Subset
<1> QED BY <1>3, FS_CardinalityType, Numbers

-----------------------------------------------------------------------------
(* Ranking: some piece comes before all others that are ready.              *)

LEMMA RarityIsNumber == \A p : Rarity(p) \in Nat
<1> TAKE p
<1> DEFINE all == {q \in Peers : p \in advert[q]}
           counted == IF all \ {Owner} # {} THEN all \ {Owner} ELSE all
<1>1. counted \subseteq Peers
  OBVIOUS
<1>2. IsFiniteSet(Peers)
  BY GridAssumption
<1>3. IsFiniteSet(counted)
  BY <1>1, <1>2, FS_Subset
<1>4. Cardinality(counted) \in Nat
  BY <1>3, FS_CardinalityType
<1> QED BY <1>4 DEF Rarity

LEMMA SomeRanksFirst ==
  ASSUME NEW e \in Engine, NEW S, S \subseteq Piece, S # {}
  PROVE  \E p \in S : \A o \in S \ {p} : RanksBefore(e, p, o)
<1> DEFINE A == IF \E p \in S : FromReceiver(e, p) THEN {p \in S : FromReceiver(e, p)} ELSE S
           rarity == [p \in Piece |-> Rarity(p)]
           B == {p \in A : \A o \in A : rarity[p] <= rarity[o]}
           retried == e.retries
           D == {p \in B : \A o \in B : retried[p] <= retried[o]}
           number == [p \in Piece |-> p]
<1>1. A # {} /\ A \subseteq S /\ A \subseteq Piece
  OBVIOUS
<1>2. B # {} /\ B \subseteq A
  <2>1. \A p \in A : rarity[p] \in Nat
    BY <1>1, RarityIsNumber
  <2> HIDE DEF A, rarity
  <2>2. \E p \in A : \A o \in A : rarity[p] <= rarity[o]
    BY <1>1, <2>1, Least
  <2> QED BY <2>2
<1>3. D # {} /\ D \subseteq B
  <2>1. \A p \in B : retried[p] \in Nat
    BY <1>1, <1>2 DEF Engine
  <2> HIDE DEF B, retried
  <2>2. \E p \in B : \A o \in B : retried[p] <= retried[o]
    BY <1>2, <2>1, Least
  <2> QED BY <2>2
<1>4. \E p \in D : \A o \in D : p <= o
  <2>1. D \subseteq Nat
    BY <1>1, <1>2, <1>3 DEF Piece
  <2> HIDE DEF D
  <2> QED BY <1>3, <2>1, Smallest
<1>5. PICK p \in D : \A o \in D : p <= o
  BY <1>4
<1>6. p \in S /\ p \in A /\ p \in B /\ p \in Piece
  BY <1>1, <1>2, <1>3, <1>5
<1> SUFFICES ASSUME NEW o \in S \ {p} PROVE RanksBefore(e, p, o)
  BY <1>6
<1>7. o \in Piece
  OBVIOUS
<1>8. CASE o \notin A
  BY <1>6, <1>8 DEF RanksBefore
<1>9. CASE o \in A
  <2>1. FromReceiver(e, p) = FromReceiver(e, o)
    <3>1. FromReceiver(e, p) <=> FromReceiver(e, o)
      BY <1>6, <1>9
    <3> QED BY <3>1 DEF FromReceiver
  <2>2. Rarity(p) <= Rarity(o) /\ Rarity(p) \in Nat /\ Rarity(o) \in Nat
    BY <1>6, <1>7, <1>9, RarityIsNumber
  <2>3. Rarity(o) = Rarity(p) => o \in B
    <3>1. rarity[o] = Rarity(o) /\ rarity[p] = Rarity(p)
      BY <1>6, <1>7
    <3> HIDE DEF A, rarity
    <3> QED BY <3>1, <1>6, <1>9
  <2>4. o \in B => e.retries[p] <= e.retries[o]
    BY <1>5
  <2>5. o \in B /\ e.retries[o] = e.retries[p] => o \in D
    BY <1>5
  <2>6. o \in D => p <= o
    BY <1>5
  <2>7. e.retries[p] \in Nat /\ e.retries[o] \in Nat
    BY <1>6, <1>7 DEF Engine
  <2>8. p \in Nat /\ o \in Nat /\ p # o
    BY <1>6, <1>7 DEF Piece
  <2> HIDE DEF A, B, D, rarity, retried
  <2> QED BY <2>1, <2>2, <2>3, <2>4, <2>5, <2>6, <2>7, <2>8 DEF RanksBefore
<1> QED BY <1>8, <1>9

-----------------------------------------------------------------------------
(* The operators on the record.                                             *)

Status == {"missing", "requested", "failed", "verified"}

(* What each operator does to the fields of the record.                     *)
LEMMA MarkFailedFields ==
  ASSUME NEW e \in Engine, NEW p \in Piece
  PROVE  LET f == MarkFailed(e, p) IN
         /\ f \in Engine
         /\ f.status = [e.status EXCEPT ![p] = "failed"]
         /\ f.retries = [e.retries EXCEPT ![p] = e.retries[p] + 1]
         /\ f.lease = e.lease /\ f.open = e.open /\ f.issued = e.issued /\ f.peer = e.peer
         /\ f.tomb = e.tomb /\ f.plain = e.plain
<1> DEFINE st == [e.status EXCEPT ![p] = "failed"]
           re == [e.retries EXCEPT ![p] = e.retries[p] + 1]
           g == [e EXCEPT !.status = st, !.retries = re]
<1>1. MarkFailed(e, p) = g
  BY DEF MarkFailed, Engine
<1>2. st \in [Piece -> Status] /\ re \in [Piece -> Nat]
  BY DEF Engine, Status
<1> HIDE DEF st, re
<1>3. /\ g \in Engine /\ g.status = st /\ g.retries = re
      /\ g.lease = e.lease /\ g.open = e.open /\ g.issued = e.issued /\ g.peer = e.peer
      /\ g.tomb = e.tomb /\ g.plain = e.plain
  BY <1>2 DEF Engine, Status
<1> HIDE DEF g
<1> QED BY <1>1, <1>3 DEF st, re

LEMMA ExpireFields ==
  ASSUME NEW e \in Engine, NEW timedOut, timedOut = {p \in Piece : e.lease[p] \in due \cap e.open}
  PROVE  LET f == ExpireRequestLeases(e) IN
         /\ f \in Engine
         /\ f.lease = [p \in Piece |-> IF e.lease[p] \in due THEN NoLease ELSE e.lease[p]]
         /\ f.open = e.open \ {e.lease[p] : p \in timedOut}
         /\ f.status = [p \in Piece |-> IF p \in timedOut THEN "missing" ELSE e.status[p]]
         /\ f.retries = [p \in Piece |-> IF p \in timedOut THEN e.retries[p] + 1 ELSE e.retries[p]]
         /\ f.issued = e.issued /\ f.peer = e.peer /\ f.tomb = e.tomb /\ f.plain = e.plain
<1> DEFINE le == [p \in Piece |-> IF e.lease[p] \in due THEN NoLease ELSE e.lease[p]]
           op == e.open \ {e.lease[p] : p \in timedOut}
           st == [p \in Piece |-> IF p \in timedOut THEN "missing" ELSE e.status[p]]
           re == [p \in Piece |-> IF p \in timedOut THEN e.retries[p] + 1 ELSE e.retries[p]]
           g == [e EXCEPT !.lease = le, !.open = op, !.status = st, !.retries = re]
<1>1. ExpireRequestLeases(e) = g
  BY DEF ExpireRequestLeases, Engine
<1>2. le \in [Piece -> Request \cup {NoLease}] /\ op \in SUBSET Request
  BY DEF Engine
<1>3. st \in [Piece -> Status]
  BY DEF Engine, Status
<1>4. re \in [Piece -> Nat]
  BY DEF Engine
<1> HIDE DEF le, op, st, re
<1>5. /\ g \in Engine /\ g.lease = le /\ g.open = op /\ g.status = st /\ g.retries = re
      /\ g.issued = e.issued /\ g.peer = e.peer /\ g.tomb = e.tomb /\ g.plain = e.plain
  BY <1>2, <1>3, <1>4 DEF Engine, Status
<1> HIDE DEF g
<1> QED BY <1>1, <1>5 DEF le, op, st, re

(* Taking requests out of the table keeps every provider within its cap.    *)
LEMMA FewerCapped ==
  ASSUME NEW e \in Engine, Capped(e), NEW f, f.open \subseteq e.open, f.peer = e.peer,
         f.plain = e.plain
  PROVE  Capped(f)
<1> SUFFICES ASSUME NEW q \in Peers
             PROVE  Cardinality(Gridded(f, q)) <= PerPeer
  BY DEF Capped
<1> DEFINE before == Gridded(e, q)
           after == Gridded(f, q)
<1>1. after \subseteq before /\ before \subseteq Request
  BY DEF Engine, Gridded
<1>2. Cardinality(before) <= PerPeer
  BY DEF Capped
<1> HIDE DEF before, after
<1>3. Cardinality(after) <= Cardinality(before)
  BY <1>1, RequestFinite, FS_Subset
<1>4. Cardinality(after) \in Nat /\ Cardinality(before) \in Nat
  BY <1>1, RequestFinite
<1>5. Cardinality(after) <= PerPeer
  BY <1>2, <1>3, <1>4, Numbers
<1> QED BY <1>5 DEF after

LEMMA MarkFailedGood ==
  ASSUME NEW n \in Nat, NEW D, NEW e, Good(e, D, n), NEW p \in Piece
  PROVE  Good(MarkFailed(e, p), D, n + 1)
<1> DEFINE f == MarkFailed(e, p)
<1>1. /\ f \in Engine
      /\ f.status = [e.status EXCEPT ![p] = "failed"]
      /\ f.retries = [e.retries EXCEPT ![p] = e.retries[p] + 1]
      /\ f.lease = e.lease /\ f.open = e.open /\ f.issued = e.issued /\ f.peer = e.peer
      /\ f.plain = e.plain
  BY MarkFailedFields DEF Good
<1> HIDE DEF f
<1>2. Paid(f, D, n + 1)
  BY <1>1 DEF Paid, Good, Engine
<1>3. Numbered(f, D)
  BY <1>1 DEF Numbered, Good
<1>4. Capped(f)
  BY <1>1 DEF Capped, Gridded, Good
<1> QED BY <1>1, <1>2, <1>3, <1>4 DEF Good, f

LEMMA ReleaseGood ==
  ASSUME NEW n \in Nat, NEW D, NoLease \notin D, NEW e, Good(e, D, n), NEW r \in Request
  PROVE  Good(Release(e, r), D, n)
<1>1. CASE e.lease[r[1]] # r
  BY <1>1 DEF Release
<1>2. CASE e.lease[r[1]] = r
  <2> DEFINE f == [e EXCEPT !.lease[r[1]] = NoLease]
  <2>1. r[1] \in Piece
    BY DEF Request
  <2>2. /\ f.lease = [e.lease EXCEPT ![r[1]] = NoLease]
        /\ f.status = e.status /\ f.retries = e.retries
        /\ f.open = e.open /\ f.issued = e.issued /\ f.peer = e.peer
        /\ f.plain = e.plain
    BY DEF Good, Engine
  <2>3. f \in Engine
    BY <2>1 DEF Good, Engine
  <2>4. Release(e, r) = f
    BY <1>2 DEF Release
  <2> HIDE DEF f
  <2>5. Paid(f, D, n)
    BY <2>1, <2>2 DEF Paid, Good, Engine
  <2>6. Numbered(f, D)
    BY <2>1, <2>2 DEF Numbered, Good, Engine
  <2>7. Capped(f)
    BY <2>2 DEF Capped, Gridded, Good
  <2> QED BY <2>3, <2>4, <2>5, <2>6, <2>7 DEF Good
<1> QED BY <1>1, <1>2

(* Verified, or set back from failed to missing.                            *)
LEMMA StatusGood ==
  ASSUME NEW n \in Nat, NEW D, NEW e, Good(e, D, n), NEW p \in Piece,
         NEW s \in {"missing", "verified"}, s = "missing" => e.status[p] = "failed"
  PROVE  Good([e EXCEPT !.status[p] = s], D, n)
<1> DEFINE f == [e EXCEPT !.status[p] = s]
<1>1. /\ f.status = [e.status EXCEPT ![p] = s]
      /\ f.retries = e.retries /\ f.lease = e.lease
      /\ f.open = e.open /\ f.issued = e.issued /\ f.peer = e.peer
      /\ f.plain = e.plain
  BY DEF Good, Engine
<1>2. f \in Engine
  BY DEF Good, Engine
<1> HIDE DEF f
<1>3. Paid(f, D, n)
  BY <1>1 DEF Paid, Good, Engine
<1>4. Numbered(f, D)
  BY <1>1 DEF Numbered, Good
<1>5. Capped(f)
  BY <1>1 DEF Capped, Gridded, Good
<1> QED BY <1>2, <1>3, <1>4, <1>5 DEF Good, f

(* Requests leave the table: an answer that ended, or competitors.          *)
LEMMA FewerGood ==
  ASSUME NEW n \in Nat, NEW D, NEW e, Good(e, D, n), NEW O, O \subseteq e.open,
         NEW T, T \subseteq Request
  PROVE  Good([e EXCEPT !.open = O, !.tomb = T], D, n)
<1> DEFINE f == [e EXCEPT !.open = O, !.tomb = T]
<1>1. /\ f.status = e.status /\ f.retries = e.retries /\ f.lease = e.lease
      /\ f.open = O /\ f.issued = e.issued /\ f.peer = e.peer
      /\ f.plain = e.plain
  BY DEF Good, Engine
<1>2. f \in Engine
  BY DEF Good, Engine
<1> HIDE DEF f
<1>3. Paid(f, D, n) /\ Numbered(f, D)
  BY <1>1 DEF Paid, Numbered, Good
<1>4. Capped(f)
  BY <1>1, FewerCapped DEF Good
<1> QED BY <1>2, <1>3, <1>4 DEF Good, f

LEMMA DeletedGood ==
  ASSUME NEW n \in Nat, NEW D, NEW e, Good(e, D, n), NEW r
  PROVE  Good(Deleted(e, r), D, n)
<1> DEFINE O == e.open \ {r}
           f == [e EXCEPT !.open = O, !.tomb = e.tomb]
<1>1. Deleted(e, r) = f
  BY DEF Deleted, Good, Engine
<1>2. O \subseteq e.open /\ e.tomb \subseteq Request
  BY DEF Good, Engine
<1> HIDE DEF O
<1>3. Good(f, D, n)
  BY <1>2, FewerGood
<1> QED BY <1>1, <1>3

LEMMA CancelGood ==
  ASSUME NEW n \in Nat, NEW D, NEW e, Good(e, D, n), NEW r
  PROVE  Good(CancelCompetingGridRequests(e, r), D, n)
<1> DEFINE rivals == Rivals(e, r)
           O == e.open \ rivals
           T == e.tomb \cup rivals
           f == [e EXCEPT !.open = O, !.tomb = T]
<1>1. CancelCompetingGridRequests(e, r) = f
  BY DEF CancelCompetingGridRequests, Good, Engine
<1>2. O \subseteq e.open /\ T \subseteq Request
  BY DEF Good, Engine, Rivals, OpenFor
<1> HIDE DEF O, T
<1>3. Good(f, D, n)
  BY <1>2, FewerGood
<1> QED BY <1>1, <1>3

(* An expiry counts the failure that the due lease stood for.               *)
LEMMA ExpireGood ==
  ASSUME NEW n \in Nat, NEW e, Good(e, due, n), NoLease \notin due
  PROVE  Good(ExpireRequestLeases(e), due, n)
<1> DEFINE timedOut == {p \in Piece : e.lease[p] \in due \cap e.open}
           f == ExpireRequestLeases(e)
<1>1. /\ f \in Engine
      /\ f.lease = [p \in Piece |-> IF e.lease[p] \in due THEN NoLease ELSE e.lease[p]]
      /\ f.open = e.open \ {e.lease[p] : p \in timedOut}
      /\ f.status = [p \in Piece |-> IF p \in timedOut THEN "missing" ELSE e.status[p]]
      /\ f.retries = [p \in Piece |-> IF p \in timedOut THEN e.retries[p] + 1 ELSE e.retries[p]]
      /\ f.issued = e.issued /\ f.peer = e.peer /\ f.tomb = e.tomb /\ f.plain = e.plain
  BY ExpireFields DEF Good
<1> HIDE DEF f
<1>2. Paid(f, due, n)
  BY <1>1 DEF Paid, Good, Engine
<1>3. Numbered(f, due)
  BY <1>1 DEF Numbered, Good, Engine
<1>4. Capped(f)
  BY <1>1, FewerCapped DEF Good
<1> QED BY <1>1, <1>2, <1>3, <1>4 DEF Good, f

LEMMA IssueFields ==
  ASSUME NEW e \in Engine, NEW p \in Piece, NEW q \in Peers, NEW leased \in BOOLEAN,
         NEW r, r = <<p, e.issued[p] + 1>>, r \in Request
  PROVE  LET f == Issue(e, p, q, leased) IN
         /\ f \in Engine
         /\ f.status = [e.status EXCEPT ![p] = "requested"]
         /\ f.open = e.open \cup {r}
         /\ f.issued = [e.issued EXCEPT ![p] = e.issued[p] + 1]
         /\ f.peer = [e.peer EXCEPT ![r] = q]
         /\ f.lease = [e.lease EXCEPT ![p] = IF leased THEN r ELSE e.lease[p]]
         /\ f.retries = e.retries /\ f.tomb = e.tomb /\ f.plain = e.plain
<1> DEFINE st == [e.status EXCEPT ![p] = "requested"]
           op == e.open \cup {r}
           is == [e.issued EXCEPT ![p] = e.issued[p] + 1]
           pe == [e.peer EXCEPT ![r] = q]
           le == [e.lease EXCEPT ![p] = IF leased THEN r ELSE e.lease[p]]
           g == [e EXCEPT !.status = st, !.open = op, !.issued = is, !.peer = pe, !.lease = le]
<1>1. Issue(e, p, q, leased) = g
  BY DEF Issue, Engine
<1>2. st \in [Piece -> Status] /\ op \in SUBSET Request /\ pe \in [Request -> Peers]
  BY DEF Engine, Status
<1>3. is \in [Piece -> Nat]
  BY DEF Engine
<1>4. le \in [Piece -> Request \cup {NoLease}]
  BY DEF Engine
<1> HIDE DEF st, op, is, pe, le
<1>5. /\ g \in Engine /\ g.status = st /\ g.open = op /\ g.issued = is /\ g.peer = pe
      /\ g.lease = le /\ g.retries = e.retries /\ g.tomb = e.tomb /\ g.plain = e.plain
  BY <1>2, <1>3, <1>4 DEF Engine, Status
<1> HIDE DEF g
<1> QED BY <1>1, <1>5 DEF st, op, is, pe, le

(* A request is made of a piece that may be requested.                      *)
LEMMA IssueSound ==
  ASSUME NEW n \in Budget, NEW e, Good(e, due, n), due \subseteq Request, NEW p \in Missing(e),
         NEW q \in Peers, NEW leased \in BOOLEAN,
         NEW r, r = <<p, e.issued[p] + 1>>
  PROVE  LET f == Issue(e, p, q, leased) IN
         /\ r \in Request /\ r[1] = p /\ r[2] = e.issued[p] + 1 /\ r \notin e.open
         /\ f \in Engine /\ Paid(f, due, n) /\ Numbered(f, due)
         /\ f.status = [e.status EXCEPT ![p] = "requested"]
         /\ f.open = e.open \cup {r}
         /\ f.issued = [e.issued EXCEPT ![p] = e.issued[p] + 1]
         /\ f.peer = [e.peer EXCEPT ![r] = q]
         /\ f.lease = [e.lease EXCEPT ![p] = IF leased THEN r ELSE e.lease[p]]
         /\ f.retries = e.retries /\ f.tomb = e.tomb /\ f.plain = e.plain
<1> DEFINE f == Issue(e, p, q, leased)
<1>1. p \in Piece /\ e.issued[p] <= e.retries[p] /\ e.issued[p] \in Nat /\ e.retries[p] \in Nat
  BY DEF Missing, Good, Paid, Engine
<1>2. e.issued[p] + 1 \in 1..MaxTrouble + MaxFaults + 1
  BY <1>1, Numbers DEF Good, Paid, Budget
<1>3. r \in Request
  BY <1>1, <1>2 DEF Request
<1>4. /\ f \in Engine
      /\ f.status = [e.status EXCEPT ![p] = "requested"]
      /\ f.open = e.open \cup {r}
      /\ f.issued = [e.issued EXCEPT ![p] = e.issued[p] + 1]
      /\ f.peer = [e.peer EXCEPT ![r] = q]
      /\ f.lease = [e.lease EXCEPT ![p] = IF leased THEN r ELSE e.lease[p]]
      /\ f.retries = e.retries /\ f.tomb = e.tomb /\ f.plain = e.plain
  <2>1. e \in Engine
    BY DEF Good
  <2> HIDE DEF f
  <2>2. LET h == Issue(e, p, q, leased) IN
        /\ h \in Engine
        /\ h.status = [e.status EXCEPT ![p] = "requested"]
        /\ h.open = e.open \cup {r}
        /\ h.issued = [e.issued EXCEPT ![p] = e.issued[p] + 1]
        /\ h.peer = [e.peer EXCEPT ![r] = q]
        /\ h.lease = [e.lease EXCEPT ![p] = IF leased THEN r ELSE e.lease[p]]
        /\ h.retries = e.retries /\ h.tomb = e.tomb /\ h.plain = e.plain
    BY <1>1, <1>3, <2>1, IssueFields, SMTT(60)
  <2> QED BY <2>2 DEF f
<1>6. r \notin e.open /\ r \notin due
  BY <1>1 DEF Good, Numbered
<1>7. r[1] = p /\ r[2] = e.issued[p] + 1
  OBVIOUS
<1> HIDE DEF f
<1>8. Paid(f, due, n)
  BY <1>1, <1>4, <1>6 DEF Paid, Good, Engine
<1>9. Numbered(f, due)
  <2>1. \A s \in f.open \cup due : s[2] <= f.issued[s[1]]
    <3> SUFFICES ASSUME NEW s \in f.open \cup due PROVE s[2] <= f.issued[s[1]]
      OBVIOUS
    <3>1. CASE s = r
      BY <1>1, <1>4, <1>7, <3>1 DEF Good, Engine
    <3>2. CASE s # r
      <4>1. s \in e.open \cup due
        BY <1>4, <3>2
      <4>2. s[2] <= e.issued[s[1]]
        BY <4>1 DEF Good, Numbered
      <4>3. s \in Request
        BY <1>3, <1>4, <4>1, due \subseteq Request DEF Good, Engine
      <4>4. s[1] \in Piece /\ s[2] \in Nat
        BY <4>3 DEF Request
      <4>5. f.issued[s[1]] = IF s[1] = p THEN e.issued[p] + 1 ELSE e.issued[s[1]]
        BY <1>1, <1>4, <4>4 DEF Good, Engine
      <4> QED BY <1>1, <4>2, <4>4, <4>5
    <3> QED BY <3>1, <3>2
  <2>2. ASSUME NEW o \in Piece, f.lease[o] # NoLease
        PROVE  f.lease[o][1] = o /\ f.lease[o][2] <= f.issued[o]
    <3>1. e.issued[o] \in Nat /\ f.issued[o] = IF o = p THEN e.issued[p] + 1 ELSE e.issued[o]
      BY <1>1, <1>4 DEF Good, Engine
    <3>2. CASE o = p /\ leased
      <4>1. f.lease[o] = r
        BY <1>1, <1>4, <3>2 DEF Good, Engine
      <4>2. f.lease[o][1] = p /\ f.lease[o][2] = e.issued[p] + 1
        BY <1>7, <4>1
      <4> QED BY <1>1, <3>1, <3>2, <4>2
    <3>3. CASE ~(o = p /\ leased)
      <4>1. f.lease[o] = e.lease[o]
        BY <1>1, <1>4, <3>3 DEF Good, Engine
      <4>2. e.lease[o][1] = o /\ e.lease[o][2] <= e.issued[o] /\ e.lease[o] \in Request
        BY <2>2, <4>1 DEF Good, Numbered, Engine
      <4> QED BY <3>1, <4>1, <4>2 DEF Request
    <3> QED BY <3>2, <3>3
  <2> QED BY <2>1, <2>2 DEF Numbered
<1> QED BY <1>3, <1>4, <1>6, <1>7, <1>8, <1>9 DEF f

(* A request with grid options is made of a provider that has room.         *)
LEMMA IssueGood ==
  ASSUME NEW n \in Budget, NEW e, Good(e, due, n), due \subseteq Request, NEW p \in Missing(e),
         NEW q \in Peers, HasRoom(e, q), NEW leased \in BOOLEAN
  PROVE  Good(Issue(e, p, q, leased), due, n)
<1> DEFINE r == <<p, e.issued[p] + 1>>
           f == Issue(e, p, q, leased)
<1>0. r = <<p, e.issued[p] + 1>>
  OBVIOUS
<1> HIDE DEF r
<1>1. /\ r \in Request /\ r \notin e.open
      /\ f \in Engine /\ Paid(f, due, n) /\ Numbered(f, due)
      /\ f.open = e.open \cup {r} /\ f.peer = [e.peer EXCEPT ![r] = q] /\ f.plain = e.plain
  <2> HIDE DEF f
  <2>1. LET h == Issue(e, p, q, leased) IN
        /\ r \in Request /\ r[1] = p /\ r[2] = e.issued[p] + 1 /\ r \notin e.open
        /\ h \in Engine /\ Paid(h, due, n) /\ Numbered(h, due)
        /\ h.status = [e.status EXCEPT ![p] = "requested"]
        /\ h.open = e.open \cup {r}
        /\ h.issued = [e.issued EXCEPT ![p] = e.issued[p] + 1]
        /\ h.peer = [e.peer EXCEPT ![r] = q]
        /\ h.lease = [e.lease EXCEPT ![p] = IF leased THEN r ELSE e.lease[p]]
        /\ h.retries = e.retries /\ h.tomb = e.tomb /\ h.plain = e.plain
    BY <1>0, IssueSound, SMTT(60)
  <2> QED BY <2>1 DEF f
<1> HIDE DEF f
<1>2. Capped(f)
  <2> SUFFICES ASSUME NEW v \in Peers PROVE Cardinality(Gridded(f, v)) <= PerPeer
    BY DEF Capped
  <2> DEFINE before == Gridded(e, v)
             after == Gridded(f, v)
             all == {s \in e.open : e.peer[s] = v}
  <2>1. before \subseteq Request /\ r \notin before /\ all \subseteq Request /\ before \subseteq all
    BY <1>1 DEF Gridded, Good, Engine
  <2>2. f.peer[r] = q /\ \A s \in Request \ {r} : f.peer[s] = e.peer[s]
    BY <1>1 DEF Good, Engine
  <2>3. after \subseteq before \cup {r}
    BY <1>1, <2>2 DEF Gridded, Good, Engine
  <2>4. v # q => after \subseteq before
    BY <1>1, <2>2 DEF Gridded, Good, Engine
  <2>5. v = q => Cardinality(all) < PerPeer
    BY DEF HasRoom
  <2>6. Cardinality(before) <= PerPeer
    BY DEF Capped, Good
  <2> HIDE DEF before, after, all
  <2>7. Cardinality(before \cup {r}) = Cardinality(before) + 1 /\ before \cup {r} \subseteq Request
    BY <1>1, <2>1, RequestFinite, FS_AddElement
  <2>8. /\ Cardinality(before) <= Cardinality(all) /\ Cardinality(before) \in Nat
        /\ Cardinality(all) \in Nat
    BY <2>1, RequestFinite, FS_Subset
  <2>9. Cardinality(after) \in Nat /\ Cardinality(after) <= Cardinality(before \cup {r})
    BY <2>3, <2>7, RequestFinite, FS_Subset
  <2>10. CASE v = q
    BY <2>5, <2>7, <2>8, <2>9, <2>10, Numbers DEF after
  <2>11. CASE v # q
    <3>1. Cardinality(after) <= Cardinality(before)
      BY <2>1, <2>4, <2>11, RequestFinite, FS_Subset
    <3> QED BY <2>6, <2>8, <2>9, <3>1, Numbers DEF after
  <2> QED BY <2>10, <2>11
<1> QED BY <1>1, <1>2 DEF Good, f

(* One without them counts towards no cap.                                   *)
LEMMA PlainFields ==
  ASSUME NEW e \in Engine, NEW r \in Request
  PROVE  LET g == [e EXCEPT !.plain = @ \cup {r}] IN
         /\ g \in Engine /\ g.plain = e.plain \cup {r}
         /\ g.status = e.status /\ g.retries = e.retries /\ g.lease = e.lease /\ g.open = e.open
         /\ g.tomb = e.tomb /\ g.issued = e.issued /\ g.peer = e.peer
<1> DEFINE pl == e.plain \cup {r}
           g == [e EXCEPT !.plain = pl]
<1>1. [e EXCEPT !.plain = @ \cup {r}] = g
  BY DEF Engine
<1>2. pl \in SUBSET Request
  BY DEF Engine
<1> HIDE DEF pl
<1>3. /\ g \in Engine /\ g.plain = pl
      /\ g.status = e.status /\ g.retries = e.retries /\ g.lease = e.lease /\ g.open = e.open
      /\ g.tomb = e.tomb /\ g.issued = e.issued /\ g.peer = e.peer
  BY <1>2 DEF Engine
<1> HIDE DEF g
<1> QED BY <1>1, <1>3 DEF pl

(* requestNextPiece does nothing, or asks for a missing piece.               *)
Asks(e, g, p, r, q, n) ==
  /\ r \in Request /\ r[1] = p /\ r[2] = e.issued[p] + 1 /\ r \notin e.open
  /\ g \in Engine /\ Paid(g, due, n) /\ Numbered(g, due)
  /\ g.status = [e.status EXCEPT ![p] = "requested"]
  /\ g.open = e.open \cup {r} /\ g.plain = e.plain \cup {r}
  /\ g.issued = [e.issued EXCEPT ![p] = e.issued[p] + 1]
  /\ g.peer = [e.peer EXCEPT ![r] = q]
  /\ g.lease = e.lease /\ g.tomb = e.tomb

LEMMA PlainIssue ==
  ASSUME NEW n \in Budget, NEW e, Good(e, due, n), due \subseteq Request, NEW q \in Peers,
         NEW p \in Missing(e), NEW r, r = <<p, e.issued[p] + 1>>
  PROVE  Asks(e, [Issue(e, p, q, FALSE) EXCEPT !.plain = @ \cup {r}], p, r, q, n)
<1> DEFINE f == Issue(e, p, q, FALSE)
           g == [f EXCEPT !.plain = @ \cup {r}]
<1>1. FALSE \in BOOLEAN
  OBVIOUS
<1>2. /\ r \in Request /\ r[1] = p /\ r[2] = e.issued[p] + 1 /\ r \notin e.open
      /\ f \in Engine /\ Paid(f, due, n) /\ Numbered(f, due)
      /\ f.status = [e.status EXCEPT ![p] = "requested"]
      /\ f.open = e.open \cup {r}
      /\ f.issued = [e.issued EXCEPT ![p] = e.issued[p] + 1]
      /\ f.peer = [e.peer EXCEPT ![r] = q]
      /\ f.lease = [e.lease EXCEPT ![p] = IF FALSE THEN r ELSE e.lease[p]]
      /\ f.retries = e.retries /\ f.tomb = e.tomb /\ f.plain = e.plain
  <2> HIDE DEF f
  <2>1. ASSUME NEW leased \in BOOLEAN
        PROVE  LET h == Issue(e, p, q, leased) IN
               /\ r \in Request /\ r[1] = p /\ r[2] = e.issued[p] + 1 /\ r \notin e.open
               /\ h \in Engine /\ Paid(h, due, n) /\ Numbered(h, due)
               /\ h.status = [e.status EXCEPT ![p] = "requested"]
               /\ h.open = e.open \cup {r}
               /\ h.issued = [e.issued EXCEPT ![p] = e.issued[p] + 1]
               /\ h.peer = [e.peer EXCEPT ![r] = q]
               /\ h.lease = [e.lease EXCEPT ![p] = IF leased THEN r ELSE e.lease[p]]
               /\ h.retries = e.retries /\ h.tomb = e.tomb /\ h.plain = e.plain
    BY IssueSound, SMTT(60)
  <2>2. LET h == Issue(e, p, q, FALSE) IN
        /\ r \in Request /\ r[1] = p /\ r[2] = e.issued[p] + 1 /\ r \notin e.open
        /\ h \in Engine /\ Paid(h, due, n) /\ Numbered(h, due)
        /\ h.status = [e.status EXCEPT ![p] = "requested"]
        /\ h.open = e.open \cup {r}
        /\ h.issued = [e.issued EXCEPT ![p] = e.issued[p] + 1]
        /\ h.peer = [e.peer EXCEPT ![r] = q]
        /\ h.lease = [e.lease EXCEPT ![p] = IF FALSE THEN r ELSE e.lease[p]]
        /\ h.retries = e.retries /\ h.tomb = e.tomb /\ h.plain = e.plain
    BY <1>1, <2>1
  <2> QED BY <2>2 DEF f
<1> HIDE DEF f
<1>3. /\ g \in Engine /\ g.plain = f.plain \cup {r}
      /\ g.status = f.status /\ g.retries = f.retries /\ g.lease = f.lease /\ g.open = f.open
      /\ g.tomb = f.tomb /\ g.issued = f.issued /\ g.peer = f.peer
  BY <1>2, PlainFields
<1> HIDE DEF g
<1>4. Paid(g, due, n) /\ Numbered(g, due)
  <2>1. \A o \in Piece : /\ g.issued[o] = f.issued[o] /\ g.retries[o] = f.retries[o]
                         /\ g.status[o] = f.status[o] /\ g.lease[o] = f.lease[o]
    BY <1>3
  <2>2. Paid(g, due, n)
    BY <1>2, <2>1 DEF Paid
  <2>3. Numbered(g, due)
    BY <1>2, <1>3 DEF Numbered
  <2> QED BY <2>2, <2>3
<1>5. g.lease = e.lease
  BY <1>2, <1>3 DEF Good, Engine
<1>6. Asks(e, g, p, r, q, n)
  BY <1>2, <1>3, <1>4, <1>5 DEF Asks
<1> QED BY <1>6 DEF f, g

LEMMA AskFacts ==
  ASSUME NEW n \in Budget, NEW e, Good(e, due, n), due \subseteq Request, NEW q \in Peers
  PROVE  \/ RequestNextPiece(e, q) = e
         \/ \E p \in Missing(e), r \in Request : Asks(e, RequestNextPiece(e, q), p, r, q, n)
<1> DEFINE ready == {p \in Missing(e) : e.retries[p] <= MaxRetries}
           first == CHOOSE p \in ready : \A o \in ready : p <= o
           r == <<first, e.issued[first] + 1>>
<1>1. CASE ready = {}
  BY <1>1 DEF RequestNextPiece
<1>2. CASE ready # {}
  <2>1. first \in Missing(e)
    <3>1. ready \subseteq Nat
      BY DEF Missing, Piece
    <3> HIDE DEF ready
    <3>2. \E p \in ready : \A o \in ready : p <= o
      BY <1>2, <3>1, Smallest
    <3>3. first \in ready
      BY <3>2
    <3> QED BY <3>3 DEF ready
  <2>2. RequestNextPiece(e, q) = [Issue(e, first, q, FALSE) EXCEPT !.plain = @ \cup {r}]
    BY <1>2 DEF RequestNextPiece
  <2>3. r = <<first, e.issued[first] + 1>>
    OBVIOUS
  <2> HIDE DEF first, r
  <2>4. Asks(e, [Issue(e, first, q, FALSE) EXCEPT !.plain = @ \cup {r}], first, r, q, n)
    BY <2>1, <2>3, PlainIssue
  <2>5. Asks(e, RequestNextPiece(e, q), first, r, q, n) /\ r \in Request
    BY <2>2, <2>4 DEF Asks
  <2> QED BY <2>1, <2>5
<1> QED BY <1>1, <1>2

LEMMA AskGood ==
  ASSUME NEW n \in Budget, NEW e, Good(e, due, n), due \subseteq Request, NEW q \in Peers
  PROVE  Good(RequestNextPiece(e, q), due, n)
<1> DEFINE g == RequestNextPiece(e, q)
<1>1. CASE g = e
  BY <1>1
<1>2. ASSUME NEW p \in Missing(e), NEW r \in Request, Asks(e, g, p, r, q, n)
      PROVE  Good(g, due, n)
  <2> HIDE DEF g
  <2> SUFFICES ASSUME NEW v \in Peers PROVE Cardinality(Gridded(g, v)) <= PerPeer
    BY <1>2 DEF Good, Asks, Capped
  <2>1. \A s \in Request \ {r} : g.peer[s] = e.peer[s]
    BY <1>2 DEF Asks, Good, Engine
  <2>2. Gridded(g, v) \subseteq Gridded(e, v) /\ Gridded(e, v) \subseteq Request
    BY <1>2, <2>1 DEF Asks, Gridded, Good, Engine
  <2>3. Cardinality(Gridded(e, v)) <= PerPeer
    BY DEF Capped, Good
  <2>4. /\ Cardinality(Gridded(g, v)) <= Cardinality(Gridded(e, v))
        /\ Cardinality(Gridded(g, v)) \in Nat /\ Cardinality(Gridded(e, v)) \in Nat
    BY <2>2, RequestFinite, FS_Subset
  <2> QED BY <2>3, <2>4, Numbers
<1> HIDE DEF g
<1>3. g = e \/ \E p \in Missing(e), r \in Request : Asks(e, g, p, r, q, n)
  BY AskFacts DEF g
<1> QED BY <1>1, <1>2, <1>3 DEF g

LEMMA MoreFailuresGood ==
  ASSUME NEW n \in Nat, NEW m \in Nat, n <= m, NEW D, NEW e, Good(e, D, n)
  PROVE  Good(e, D, m)
<1>1. Paid(e, D, m)
  BY DEF Good, Paid, Engine
<1> QED BY <1>1 DEF Good

LEMMA NoLeaseIsNoRequest == NoLease \notin Request
  BY DEF NoLease, Request, Piece

-----------------------------------------------------------------------------
(* Scheduling.                                                              *)

LEMMA ExpireMissing ==
  ASSUME NEW e \in Engine
  PROVE  Missing(e) \subseteq Missing(ExpireRequestLeases(e))
<1> DEFINE timedOut == {p \in Piece : e.lease[p] \in due \cap e.open}
           f == ExpireRequestLeases(e)
<1>1. /\ f \in Engine
      /\ f.lease = [p \in Piece |-> IF e.lease[p] \in due THEN NoLease ELSE e.lease[p]]
      /\ f.open = e.open \ {e.lease[p] : p \in timedOut}
      /\ f.status = [p \in Piece |-> IF p \in timedOut THEN "missing" ELSE e.status[p]]
      /\ f.retries = [p \in Piece |-> IF p \in timedOut THEN e.retries[p] + 1 ELSE e.retries[p]]
      /\ f.issued = e.issued /\ f.peer = e.peer /\ f.tomb = e.tomb /\ f.plain = e.plain
  BY ExpireFields
<1> HIDE DEF timedOut, f
<1>2. \A p \in Missing(e) : p \in Piece /\ f.status[p] \in {"missing", "failed"}
  BY <1>1 DEF Missing
<1> QED BY <1>2 DEF Missing, f

(* What a scheduling attempt does: nothing, an expiry of the due leases, or  *)
(* after it the request of a missing piece from a provider with room.       *)
LEMMA Scheduled ==
  ASSUME NEW e0 \in Engine, NEW o \in RequestNextGridPiece(e0) \cup MaybeScheduleEndgamePiece(e0)
  PROVE  \/ o.eng = e0 \/ o.eng = ExpireRequestLeases(e0)
         \/ \E p \in Missing(e0), q \in Peers, leased \in BOOLEAN :
              /\ HasRoom(ExpireRequestLeases(e0), q)
              /\ o.eng = Issue(ExpireRequestLeases(e0), p, q, leased)
<1> DEFINE e == ExpireRequestLeases(e0)
           Made == \E p \in Missing(e0), q \in Peers, leased \in BOOLEAN :
                     HasRoom(e, q) /\ o.eng = Issue(e, p, q, leased)
<1>1. e \in Engine
  BY ExpireFields
<1>2. CASE o \in RequestNextGridPiece(e0)
  <2> DEFINE ready == {p \in Missing(e0) : /\ e.lease[p] = NoLease
                                           /\ e.retries[p] > MaxRetries \/ Providers(e, p) # {}}
             first == CHOOSE p \in ready : \A k \in ready \ {p} : RanksBefore(e, p, k)
  <2>1. CASE Missing(e0) = {}
    <3>1. o = [eng |-> e0, kind |-> "complete"]
      BY <1>2, <2>1 DEF RequestNextGridPiece, Outcome
    <3> QED BY <3>1
  <2>2. CASE Missing(e0) # {} /\ ready = {}
    <3>1. o = [eng |-> e, kind |-> "no_available_peer"]
      BY <1>2, <2>2 DEF RequestNextGridPiece, Outcome
    <3> QED BY <3>1
  <2>3. CASE ready # {} /\ e.retries[first] > MaxRetries
    <3>1. o = [eng |-> e, kind |-> "exhausted"]
      BY <1>2, <2>3 DEF RequestNextGridPiece, Outcome
    <3> QED BY <3>1
  <2>4. CASE ready # {} /\ ~(e.retries[first] > MaxRetries)
    <3>1. o \in UNION {Outcome(Issue(e, first, q, TRUE), "scheduled") : q \in Best(Providers(e, first))}
      BY <1>2, <2>4 DEF RequestNextGridPiece
    <3>2. PICK q \in Providers(e, first) : o = [eng |-> Issue(e, first, q, TRUE), kind |-> "scheduled"]
      BY <3>1 DEF Outcome, Best
    <3>3. first \in Missing(e0)
      <4>1. ready \subseteq Piece
        BY DEF Missing
      <4> HIDE DEF e, ready
      <4>2. \E p \in ready : \A k \in ready \ {p} : RanksBefore(e, p, k)
        BY <1>1, <2>4, <4>1, SomeRanksFirst
      <4>3. first \in ready
        BY <4>2
      <4> QED BY <4>3 DEF ready
    <3>4. q \in Peers /\ HasRoom(e, q)
      BY <3>2 DEF Providers
    <3> HIDE DEF e, first
    <3>5. o.eng = Issue(e, first, q, TRUE)
      BY <3>2
    <3>6. Made
      BY <3>3, <3>4, <3>5
    <3> QED BY <3>6 DEF e
  <2> QED BY <2>1, <2>2, <2>3, <2>4
<1>3. CASE o \in MaybeScheduleEndgamePiece(e0)
  <2> DEFINE Fresh(p) == Providers(e, p) \ {e.peer[r] : r \in OpenFor(e, p)}
             ready == {p \in Missing(e0) : /\ Cardinality(OpenFor(e, p)) \in 1..EndgameProviders - 1
                                           /\ Fresh(p) # {}}
             first == CHOOSE p \in ready : \A k \in ready : p <= k
             few == Cardinality(Missing(e0)) \in 1..EndgamePieces
  <2>1. CASE ~few
    <3>1. o = [eng |-> e0, kind |-> "null"]
      BY <1>3, <2>1 DEF MaybeScheduleEndgamePiece, Outcome
    <3> QED BY <3>1
  <2>2. CASE few /\ ready = {}
    <3>1. o = [eng |-> e, kind |-> "null"]
      BY <1>3, <2>2 DEF MaybeScheduleEndgamePiece, Outcome
    <3> QED BY <3>1
  <2>3. CASE few /\ ready # {}
    <3>1. o \in UNION {Outcome(Issue(e, first, q, FALSE), "scheduled") : q \in Best(Fresh(first))}
      BY <1>3, <2>3 DEF MaybeScheduleEndgamePiece
    <3>2. PICK q \in Fresh(first) : o = [eng |-> Issue(e, first, q, FALSE), kind |-> "scheduled"]
      BY <3>1 DEF Outcome, Best
    <3>3. first \in Missing(e0)
      <4>1. ready \subseteq Nat
        BY DEF Missing, Piece
      <4> HIDE DEF ready
      <4>2. \E p \in ready : \A k \in ready : p <= k
        BY <2>3, <4>1, Smallest
      <4>3. first \in ready
        BY <4>2
      <4> QED BY <4>3 DEF ready
    <3>4. q \in Peers /\ HasRoom(e, q)
      BY <3>2 DEF Providers
    <3> HIDE DEF e, first
    <3>5. o.eng = Issue(e, first, q, FALSE)
      BY <3>2
    <3>6. Made
      BY <3>3, <3>4, <3>5
    <3> QED BY <3>6 DEF e
  <2> QED BY <2>1, <2>2, <2>3
<1> QED BY <1>2, <1>3

LEMMA ScheduledGood ==
  ASSUME NEW n \in Budget, NEW e0, Good(e0, due, n), due \subseteq Request,
         NEW o \in RequestNextGridPiece(e0) \cup MaybeScheduleEndgamePiece(e0)
  PROVE  Good(o.eng, due, n)
<1> DEFINE e == ExpireRequestLeases(e0)
<1>1. n \in Nat /\ e0 \in Engine
  BY Numbers DEF Budget, Good
<1>2. Good(e, due, n)
  BY <1>1, ExpireGood, NoLeaseIsNoRequest
<1>3. ASSUME NEW p \in Missing(e0), NEW q \in Peers, NEW leased \in BOOLEAN,
             HasRoom(e, q), o.eng = Issue(e, p, q, leased)
      PROVE  Good(o.eng, due, n)
  <2>1. p \in Missing(e)
    BY <1>1, ExpireMissing
  <2> HIDE DEF e
  <2> QED BY <1>2, <1>3, <2>1, IssueGood
<1> QED BY <1>1, <1>2, <1>3, Scheduled

(* The piece of a failed request may be requested again.                    *)
LEMMA ResetGood ==
  ASSUME NEW n \in Nat, NEW e, Good(e, due, n), NEW p \in Piece, NEW g, g = ResetFailedToMissing(e, p)
  PROVE  /\ Good(g, due, n)
         /\ g.issued = e.issued /\ g.lease = e.lease /\ g.open = e.open /\ g.tomb = e.tomb
         /\ g.plain = e.plain
         /\ \A k \in Piece : e.status[k] = "verified" <=> g.status[k] = "verified"
<1>1. e \in Engine
  BY DEF Good
<1>2. CASE e.status[p] = "failed"
  <2>1. g = [e EXCEPT !.status[p] = "missing"]
    BY <1>2 DEF ResetFailedToMissing
  <2>2. Good([e EXCEPT !.status[p] = "missing"], due, n)
    BY <1>2, StatusGood
  <2>3. /\ g.issued = e.issued /\ g.lease = e.lease /\ g.open = e.open /\ g.tomb = e.tomb
        /\ g.plain = e.plain
        /\ \A k \in Piece : e.status[k] = "verified" <=> g.status[k] = "verified"
    BY <1>1, <1>2, <2>1 DEF Engine
  <2> QED BY <2>1, <2>2, <2>3
<1>3. CASE e.status[p] # "failed"
  BY <1>3 DEF ResetFailedToMissing
<1> QED BY <1>2, <1>3

(* What a re-request does to the record g in which the piece is reset.       *)
Again(g, q) == {o.eng : o \in RequestNextGridPiece(g)} \cup {RequestNextPiece(g, q)}

LEMMA RetryCases ==
  ASSUME NEW e, NEW p, NEW q, NEW f \in RetryGrid(e, p) \cup RetryPlain(e, p, q)
  PROVE  f = e \/ f \in Again(ResetFailedToMissing(e, p), q)
  BY DEF RetryGrid, RetryPlain, Again

LEMMA RetryGood ==
  ASSUME NEW n \in Budget, NEW e, Good(e, due, n), due \subseteq Request, NEW p \in Piece,
         NEW q \in Peers, NEW f \in RetryGrid(e, p) \cup RetryPlain(e, p, q)
  PROVE  Good(f, due, n)
<1> DEFINE g == ResetFailedToMissing(e, p)
<1>1. n \in Nat
  BY Numbers DEF Budget
<1>2. Good(g, due, n)
  BY <1>1, ResetGood
<1>3. f = e \/ f \in Again(g, q)
  BY RetryCases
<1> HIDE DEF g
<1>4. CASE f = RequestNextPiece(g, q)
  BY <1>2, <1>4, AskGood
<1>5. ASSUME NEW o \in RequestNextGridPiece(g), f = o.eng PROVE Good(f, due, n)
  BY <1>2, <1>5, ScheduledGood
<1> QED BY <1>3, <1>4, <1>5 DEF Again

-----------------------------------------------------------------------------
(* The invariant.                                                           *)

Rest ==
  /\ advert \in [Peers -> SUBSET Piece] /\ due \subseteq Request /\ stored \subseteq Piece
  /\ rx \in [Request -> {"none", "verifying", "deleting", "rejectSaving", "writing", "saving",
                         "announcing", "rejecting", "done"}]
  /\ pendingChunks \in [Peers -> Request \cup {NoLease}]
  /\ asides \subseteq Request \X {"refusing", "refusingLate", "asking"}
  /\ driver \in {"window", "next", "sending", "waiting", "complete", "threw"}
  /\ seen \in 0..PieceCount /\ any \in BOOLEAN
  /\ trouble \in 0..MaxTrouble /\ faults \in 0..MaxFaults

Inv == Rest /\ Good(eng, due, trouble + faults)

LEMMA Spent ==
  ASSUME Inv
  PROVE  /\ trouble + faults \in Budget /\ trouble + faults \in Nat
         /\ due \subseteq Request /\ Good(eng, due, trouble + faults)
  BY Numbers DEF Inv, Rest, Budget

(* What happens counts: nothing, one failure of a provider, or one fault.    *)
LEMMA Counts ==
  ASSUME Inv, Smooth \/ Troubled \/ Fault \/ LateFault
  PROVE  /\ trouble' \in 0..MaxTrouble /\ faults' \in 0..MaxFaults
         /\ trouble' + faults' \in Budget /\ trouble' + faults' \in Nat
         /\ trouble + faults <= trouble' + faults'
         /\ Troubled \/ Fault \/ LateFault => trouble' + faults' = trouble + faults + 1
  BY Numbers DEF Inv, Rest, Budget, Smooth, Troubled, Fault, LateFault, MayGoWrong

LEMMA InitInv == Init => Inv
<1> SUFFICES ASSUME Init PROVE Inv
  OBVIOUS
<1>1. Rest
  <2>1. seen \in 0..PieceCount /\ trouble \in 0..MaxTrouble /\ faults \in 0..MaxFaults
    BY Numbers DEF Init
  <2>2. due \subseteq Request /\ stored \subseteq Piece /\ any \in BOOLEAN /\ driver = "window"
    BY DEF Init
  <2>3. rx = [r \in Request |-> "none"] /\ advert \in [Peers -> SUBSET Piece]
    BY GridAssumption DEF Init
  <2>4. pendingChunks \in [Peers -> Request \cup {NoLease}] /\ asides = {}
    BY DEF Init
  <2> QED BY <2>1, <2>2, <2>3, <2>4 DEF Rest
<1>2. eng \in Engine
  BY GridAssumption DEF Init, Engine
<1>3. Paid(eng, due, trouble + faults)
  BY DEF Init, Paid
<1>4. Numbered(eng, due)
  BY DEF Init, Numbered
<1>5. Capped(eng)
  <2> SUFFICES ASSUME NEW q \in Peers PROVE Cardinality(Gridded(eng, q)) <= PerPeer
    BY DEF Capped
  <2>1. Gridded(eng, q) = {}
    BY DEF Init, Gridded
  <2> QED BY <2>1, FS_EmptySet, Numbers
<1> QED BY <1>1, <1>2, <1>3, <1>4, <1>5 DEF Inv, Good

(* What the join loop sees after a step.                                    *)
LEMMA SeenInRange ==
  ASSUME Inv, NEW e, Waits(e) \/ WakesDriver(e)
  PROVE  seen' \in 0..PieceCount /\ any' \in BOOLEAN
         /\ driver' \in {"window", "complete", "waiting", driver}
  BY VerifiedCount DEF Inv, Rest, Waits, WakesDriver, LoopTurns, loopVars

LEMMA IdleInv ==
  ASSUME Inv, UNCHANGED <<eng, due, stored>>, Smooth \/ Troubled \/ Fault \/ LateFault, Rest'
  PROVE  Inv'
<1>1. Good(eng, due, trouble' + faults')
  BY Spent, Counts, MoreFailuresGood
<1> QED BY <1>1 DEF Inv

LEMMA WorldInv ==
  ASSUME Inv, NEW q \in Peers, UpdatePeerPieceMap(q)
  PROVE  Inv'
<1>1. Rest'
  BY Counts, GridAssumption DEF UpdatePeerPieceMap, Inv, Rest, loopVars, chunkVars
<1> QED BY <1>1, IdleInv DEF UpdatePeerPieceMap

LEMMA LeaseInv ==
  ASSUME Inv, NEW r \in Request, LeaseFallsDue(r)
  PROVE  Inv'
<1>1. Rest'
  BY Counts DEF LeaseFallsDue, Inv, Rest, loopVars, chunkVars
<1>2. Good(eng, due, trouble + faults) /\ trouble + faults \in Nat
  BY Spent
<1>3. eng' = eng /\ due' = due \cup {r} /\ trouble' + faults' = trouble + faults + 1
  BY Counts DEF LeaseFallsDue
<1>4. PICK p \in Piece : eng.lease[p] = r
  BY DEF LeaseFallsDue
<1>5. r # NoLease
  BY NoLeaseIsNoRequest
<1>6. Paid(eng', due', trouble' + faults')
  <2>1. \A o \in Piece : /\ eng.issued[o] <= eng.retries[o] + 1
                         /\ eng.status[o] \in {"missing", "failed"} => eng.issued[o] <= eng.retries[o]
                         /\ eng.retries[o] <= trouble + faults
                         /\ eng.retries[o] \in Nat
    BY <1>2 DEF Good, Paid, Engine
  <2> QED BY <1>2, <1>3, <2>1 DEF Paid
<1>7. Numbered(eng', due')
  <2>1. r[1] = p /\ r[2] <= eng.issued[p]
    BY <1>2, <1>4, <1>5 DEF Good, Numbered
  <2> QED BY <1>2, <1>3, <2>1 DEF Good, Numbered
<1>8. eng' \in Engine /\ Capped(eng')
  BY <1>2, <1>3 DEF Good, Capped
<1> QED BY <1>1, <1>6, <1>7, <1>8 DEF Inv, Good

LEMMA VerifyingInv ==
  ASSUME Inv, NEW r \in Request, Answer(r) \/ VerifyPasses(r)
  PROVE  Inv'
<1>1. Rest'
  BY Counts DEF Answer, VerifyPasses, Inv, Rest, loopVars, chunkVars
<1> QED BY <1>1, IdleInv DEF Answer, VerifyPasses

LEMMA HeaderInv ==
  ASSUME Inv, (\E r \in Request : ChunkHeader(r)) \/ \E q \in Peers : LateFrame(q)
  PROVE  Inv'
<1>1. UNCHANGED <<eng, advert, due, stored, rx, asides, loopVars>> /\ Smooth
  BY DEF ChunkHeader, LateFrame
<1>2. pendingChunks' \in [Peers -> Request \cup {NoLease}]
  BY DEF ChunkHeader, LateFrame, Inv, Rest
<1>3. Rest'
  BY <1>1, <1>2, Counts DEF Inv, Rest, loopVars
<1> QED BY <1>1, <1>3, IdleInv

LEMMA RequestPieceType == \A r \in Request : r[1] \in Piece
  BY DEF Request

(* The table after one more failure of a piece.                             *)
LEMMA FailureGood ==
  ASSUME Inv, Troubled \/ Fault \/ LateFault, NEW e, Good(e, due, trouble + faults), NEW p \in Piece
  PROVE  Good(MarkFailed(e, p), due, trouble' + faults')
<1>1. trouble + faults \in Nat /\ trouble' + faults' = trouble + faults + 1
  BY Spent, Counts
<1> QED BY <1>1, MarkFailedGood

(* The table after the refusal of a chunk or of a request.                   *)
LEMMA RefusedGood ==
  ASSUME Inv, Troubled, NEW r \in Request
  PROVE  Good(Refused(eng, r), due, trouble' + faults')
<1> DEFINE a == Release(eng, r)
           b == MarkFailed(a, r[1])
           n == trouble' + faults'
<1>1. Good(a, due, trouble + faults)
  BY Spent, ReleaseGood, NoLeaseIsNoRequest
<1> HIDE DEF a
<1>2. Good(b, due, n)
  BY <1>1, RequestPieceType, FailureGood
<1> HIDE DEF b
<1>3. n \in Nat
  BY Counts
<1> HIDE DEF n
<1>4. Good(Deleted(b, r), due, n)
  BY <1>2, <1>3, DeletedGood
<1> QED BY <1>4 DEF Refused, a, b, n

(* A re-request: by the scheduler, or without grid options.                  *)
LEMMA RetryEither ==
  ASSUME NEW e \in Engine, NEW r \in Request, NEW b \in BOOLEAN, NEW f \in Retry(e, r, b)
  PROVE  /\ e.peer[r] \in Peers /\ r[1] \in Piece
         /\ f \in RetryGrid(e, r[1]) \cup RetryPlain(e, r[1], e.peer[r])
  BY RequestPieceType DEF Retry, Engine

LEMMA RetryAllGood ==
  ASSUME NEW n \in Budget, NEW e, Good(e, due, n), due \subseteq Request, NEW r \in Request,
         NEW b \in BOOLEAN, NEW f \in Retry(e, r, b)
  PROVE  Good(f, due, n)
<1>1. /\ e.peer[r] \in Peers /\ r[1] \in Piece
      /\ f \in RetryGrid(e, r[1]) \cup RetryPlain(e, r[1], e.peer[r])
  BY RetryEither DEF Good
<1> QED BY <1>1, RetryGood

LEMMA AskedType ==
  ASSUME NEW e, NEW f \in Engine
  PROVE  Asked(e, f) \subseteq Request \X {"refusing", "refusingLate", "asking"}
  BY DEF Asked, Engine

LEMMA RejectsInv ==
  ASSUME Inv, NEW r \in Request, ProviderRejects(r)
  PROVE  Inv'
<1> DEFINE c == Refused(eng, r)
           n == trouble' + faults'
<1>1. /\ UNCHANGED <<advert, due, stored, rx, pendingChunks, loopVars>> /\ Troubled
      /\ eng' \in Retry(c, r, r \notin eng.plain) /\ asides' = asides \cup Asked(eng, eng')
      /\ (r \notin eng.plain) \in BOOLEAN
  BY DEF ProviderRejects
<1>2. Good(c, due, n) /\ n \in Budget
  BY <1>1, RefusedGood, Counts
<1> HIDE DEF c, n
<1>3. Good(eng', due, n)
  BY <1>1, <1>2, Spent, RetryAllGood
<1>4. Rest'
  BY <1>1, <1>3, Counts, AskedType DEF Inv, Rest, loopVars, Good
<1> QED BY <1>1, <1>3, <1>4 DEF Inv, n

LEMMA IncomingInv ==
  ASSUME Inv, NEW r \in Request, RejectIncomingChunk(r),
         pendingChunks' \in [Peers -> Request \cup {NoLease}]
  PROVE  Inv'
<1>1. /\ UNCHANGED <<advert, due, stored, rx, loopVars>> /\ Troubled /\ eng' = Refused(eng, r)
      /\ asides' \subseteq asides \cup (Request \X {"refusing", "refusingLate"})
  BY DEF RejectIncomingChunk
<1>2. Good(eng', due, trouble' + faults')
  BY <1>1, RefusedGood
<1>3. asides' \subseteq Request \X {"refusing", "refusingLate", "asking"}
  BY <1>1 DEF Inv, Rest
<1>4. Rest'
  BY <1>1, <1>3, Counts DEF Inv, Rest, loopVars
<1> QED BY <1>1, <1>2, <1>4 DEF Inv

LEMMA ChunkInv ==
  ASSUME Inv, (\E r \in Request : StrayHeader(r)) \/ \E q \in Peers : MalformedFrame(q)
  PROVE  Inv'
<1>1. ASSUME NEW r \in Request, StrayHeader(r) PROVE Inv'
  <2>1. pendingChunks' \in [Peers -> Request \cup {NoLease}]
    BY <1>1 DEF StrayHeader, Inv, Rest
  <2> QED BY <1>1, <2>1, IncomingInv DEF StrayHeader
<1>2. ASSUME NEW q \in Peers, MalformedFrame(q) PROVE Inv'
  <2>1. pendingChunks' \in [Peers -> Request \cup {NoLease}] /\ pendingChunks[q] \in Request
    BY <1>2 DEF MalformedFrame, Inv, Rest
  <2> QED BY <1>2, <2>1, IncomingInv DEF MalformedFrame
<1> QED BY <1>1, <1>2

LEMMA RefusalInv ==
  ASSUME Inv, NEW r \in Request, NEW await, RefusalSettles(r, await)
  PROVE  Inv'
<1>1. UNCHANGED <<advert, due, stored, rx, pendingChunks>>
  BY DEF RefusalSettles
<1>2. CASE /\ Smooth /\ WakesDriver(eng) /\ eng' \in Retry(eng, r, await = "refusing" /\ r \notin eng.plain)
           /\ asides' = (asides \ {<<r, await>>}) \cup Asked(eng, eng')
  <2>1. seen' \in 0..PieceCount /\ any' \in BOOLEAN /\ driver' \in {"window", "complete", "waiting", driver}
    BY <1>2, SeenInRange
  <2>2. Good(eng, due, trouble' + faults') /\ trouble' + faults' \in Budget
    BY <1>2, Spent, Counts, MoreFailuresGood
  <2>3. (await = "refusing" /\ r \notin eng.plain) \in BOOLEAN
    OBVIOUS
  <2>4. Good(eng', due, trouble' + faults')
    BY <1>2, <2>2, <2>3, Spent, RetryAllGood
  <2>5. Rest'
    BY <1>1, <1>2, <2>1, <2>4, Counts, AskedType DEF Inv, Rest, Good
  <2> QED BY <1>1, <2>4, <2>5 DEF Inv
<1>3. CASE LateFault /\ asides' = asides \ {<<r, await>>} /\ UNCHANGED <<eng, loopVars>>
  <2>1. Rest'
    BY <1>1, <1>3, Counts DEF Inv, Rest, loopVars
  <2> QED BY <1>1, <1>3, <2>1, IdleInv
<1> QED BY <1>2, <1>3 DEF RefusalSettles

LEMMA AskInv ==
  ASSUME Inv, NEW r \in Request, AskSettles(r)
  PROVE  Inv'
<1>1. UNCHANGED <<advert, due, stored, rx, pendingChunks, loopVars>>
      /\ asides' = asides \ {<<r, "asking">>} /\ (Smooth \/ LateFault)
  BY DEF AskSettles
<1>2. Rest'
  BY <1>1, Counts DEF Inv, Rest, loopVars
<1>3. CASE Smooth /\ eng' = eng
  BY <1>1, <1>2, <1>3, IdleInv
<1>4. CASE LateFault /\ eng' = MarkFailed(eng, r[1])
  <2>1. Good(eng', due, trouble' + faults')
    BY <1>4, Spent, FailureGood, RequestPieceType
  <2> QED BY <1>1, <1>2, <2>1 DEF Inv
<1> QED BY <1>3, <1>4 DEF AskSettles

LEMMA VerifyFailsInv ==
  ASSUME Inv, NEW r \in Request, VerifyFails(r)
  PROVE  Inv'
<1>1. Rest'
  BY Counts DEF VerifyFails, Inv, Rest, loopVars, chunkVars
<1>2. CASE Active(eng, r)
  <2>1. Good(Release(eng, r), due, trouble + faults)
    BY Spent, ReleaseGood, NoLeaseIsNoRequest
  <2>2. r[1] \in Piece /\ Troubled /\ due' = due /\ eng' = MarkFailed(Release(eng, r), r[1])
    BY <1>2, RequestPieceType DEF VerifyFails
  <2>3. Good(eng', due, trouble' + faults')
    BY <2>1, <2>2, FailureGood
  <2> QED BY <1>1, <2>2, <2>3 DEF Inv
<1>3. CASE ~Active(eng, r)
  BY <1>1, <1>3, IdleInv DEF VerifyFails
<1> QED BY <1>2, <1>3

LEMMA DeleteInv ==
  ASSUME Inv, NEW r \in Request, DeletePieceSettles(r)
  PROVE  Inv'
<1>1. Rest'
  BY Counts, RequestPieceType DEF DeletePieceSettles, Inv, Rest, loopVars, chunkVars
<1>2. CASE Smooth /\ eng' = eng
  <2>1. Good(eng, due, trouble' + faults')
    BY <1>2, Spent, Counts, MoreFailuresGood
  <2> QED BY <1>1, <1>2, <2>1 DEF Inv, DeletePieceSettles
<1>3. CASE Fault /\ eng' = MarkFailed(eng, r[1])
  <2>1. Good(eng', due, trouble' + faults')
    BY <1>3, Spent, FailureGood, RequestPieceType
  <2> QED BY <1>1, <2>1 DEF Inv, DeletePieceSettles
<1> QED BY <1>2, <1>3 DEF DeletePieceSettles

LEMMA RejectSavedInv ==
  ASSUME Inv, NEW r \in Request, RejectSaved(r)
  PROVE  Inv'
<1>1. /\ Smooth /\ due' = due /\ eng' = Deleted(eng, r) /\ WakesDriver(eng')
      /\ UNCHANGED <<advert, stored, pendingChunks, asides>> /\ rx' = [rx EXCEPT ![r] = "rejecting"]
  BY DEF RejectSaved, chunkVars
<1>2. seen' \in 0..PieceCount /\ any' \in BOOLEAN /\ driver' \in {"window", "complete", "waiting", driver}
  BY <1>1, SeenInRange
<1>3. Rest'
  BY <1>1, <1>2, Counts DEF Inv, Rest
<1>4. Good(eng, due, trouble' + faults') /\ trouble' + faults' \in Nat
  BY <1>1, Spent, Counts, MoreFailuresGood
<1>5. Good(eng', due, trouble' + faults')
  BY <1>1, <1>4, DeletedGood
<1> QED BY <1>1, <1>3, <1>5 DEF Inv

LEMMA WriteInv ==
  ASSUME Inv, NEW r \in Request, WritePieceSettles(r)
  PROVE  Inv'
<1>1. Rest'
  BY Counts, RequestPieceType DEF WritePieceSettles, Inv, Rest, loopVars, chunkVars
<1>2. CASE Smooth /\ eng' = Release([eng EXCEPT !.status[r[1]] = "verified"], r)
  <2> DEFINE e == [eng EXCEPT !.status[r[1]] = "verified"]
             n == trouble' + faults'
  <2>1. Good(eng, due, n) /\ n \in Nat
    BY <1>2, Spent, Counts, MoreFailuresGood
  <2> HIDE DEF n
  <2>2. Good(e, due, n)
    BY <2>1, RequestPieceType, StatusGood
  <2> HIDE DEF e
  <2>3. Good(Release(e, r), due, n)
    BY <2>1, <2>2, Spent, ReleaseGood, NoLeaseIsNoRequest
  <2>4. due' = due /\ eng' = Release(e, r)
    BY <1>2 DEF WritePieceSettles, e
  <2> QED BY <1>1, <2>3, <2>4 DEF Inv, n
<1>3. CASE Fault /\ eng' = MarkFailed(eng, r[1])
  <2>1. Good(eng', due, trouble' + faults')
    BY <1>3, Spent, FailureGood, RequestPieceType
  <2> QED BY <1>1, <2>1 DEF Inv, WritePieceSettles
<1> QED BY <1>2, <1>3 DEF WritePieceSettles

LEMMA SaveInv ==
  ASSUME Inv, NEW r \in Request, SaveSettles(r)
  PROVE  Inv'
<1>1. Rest'
  BY Counts DEF SaveSettles, ForgetChunksOf, Inv, Rest, loopVars
<1>2. CASE Smooth /\ eng' = CancelCompetingGridRequests(Deleted(eng, r), r)
  <2> DEFINE e == Deleted(eng, r)
             n == trouble' + faults'
  <2>1. Good(eng, due, n) /\ n \in Nat
    BY <1>2, Spent, Counts, MoreFailuresGood
  <2> HIDE DEF n
  <2>2. Good(e, due, n)
    BY <2>1, DeletedGood
  <2> HIDE DEF e
  <2>3. Good(CancelCompetingGridRequests(e, r), due, n)
    BY <2>1, <2>2, CancelGood
  <2>4. due' = due /\ eng' = CancelCompetingGridRequests(e, r)
    BY <1>2 DEF SaveSettles, e
  <2> QED BY <1>1, <2>3, <2>4 DEF Inv, n
<1>3. CASE Fault /\ eng' = MarkFailed(eng, r[1])
  <2>1. Good(eng', due, trouble' + faults')
    BY <1>3, Spent, FailureGood, RequestPieceType
  <2> QED BY <1>1, <2>1 DEF Inv, SaveSettles
<1> QED BY <1>2, <1>3 DEF SaveSettles

LEMMA BroadcastInv ==
  ASSUME Inv, NEW r \in Request, BroadcastSettles(r)
  PROVE  Inv'
<1>1. due' = due /\ UNCHANGED <<advert, stored, pendingChunks, asides>> /\ rx' = [rx EXCEPT ![r] = "done"]
  BY DEF BroadcastSettles, chunkVars
<1>2. CASE Smooth /\ WakesDriver(eng) /\ eng' = eng
  <2>1. seen' \in 0..PieceCount /\ any' \in BOOLEAN /\ driver' \in {"window", "complete", "waiting", driver}
    BY <1>2, SeenInRange
  <2>2. Rest'
    BY <1>1, <1>2, <2>1, Counts DEF Inv, Rest
  <2> QED BY <1>1, <1>2, <2>2, IdleInv
<1>3. CASE Fault /\ eng' = MarkFailed(eng, r[1]) /\ UNCHANGED loopVars
  <2>1. Rest'
    BY <1>1, <1>3, Counts DEF Inv, Rest, loopVars
  <2>2. Good(eng', due, trouble' + faults')
    BY <1>3, Spent, FailureGood, RequestPieceType
  <2> QED BY <1>1, <2>1, <2>2 DEF Inv
<1> QED BY <1>2, <1>3 DEF BroadcastSettles

LEMMA ResponseInv ==
  ASSUME Inv, NEW r \in Request, ResponseSettles(r)
  PROVE  Inv'
<1>1. Rest'
  BY Counts DEF ResponseSettles, Inv, Rest, loopVars, chunkVars
<1>2. CASE Smooth /\ eng' \in RetryGrid(eng, r[1])
  <2>1. Good(eng, due, trouble' + faults') /\ trouble' + faults' \in Budget
    BY <1>2, Spent, Counts, MoreFailuresGood
  <2>2. Good(eng', due, trouble' + faults')
    BY <1>2, <2>1, Spent, RetryGood, RequestPieceType, GridAssumption
  <2> QED BY <1>1, <2>2 DEF Inv, ResponseSettles
<1>3. CASE eng' = eng
  BY <1>1, <1>3, IdleInv DEF ResponseSettles
<1> QED BY <1>2, <1>3 DEF ResponseSettles

LEMMA LoopInv ==
  ASSUME Inv, WindowSettles \/ ProgressTimeout
  PROVE  Inv'
<1>1. Rest'
  BY Counts DEF WindowSettles, ProgressTimeout, Inv, Rest, chunkVars
<1> QED BY <1>1, IdleInv DEF WindowSettles, ProgressTimeout

LEMMA SmoothGood ==
  ASSUME Inv, Smooth
  PROVE  trouble' + faults' = trouble + faults
  BY DEF Smooth

LEMMA WindowInv ==
  ASSUME Inv, WindowTurns
  PROVE  Inv'
<1>1. Smooth /\ due' = due /\ UNCHANGED <<advert, stored, rx, pendingChunks, asides>>
  BY DEF WindowTurns, chunkVars
<1>2. CASE BelowTotal(eng)
  <2>1. PICK o \in MaybeScheduleEndgamePiece(eng) :
          /\ eng' = o.eng
          /\ driver' = IF o.kind = "scheduled" THEN "sending" ELSE "next"
          /\ UNCHANGED <<seen, any>>
    BY <1>2 DEF WindowTurns
  <2>2. driver' \in {"sending", "next"}
    BY <2>1
  <2>3. Rest'
    BY <1>1, <2>1, <2>2, Counts DEF Inv, Rest
  <2>4. Good(eng', due, trouble + faults)
    BY <2>1, Spent, ScheduledGood
  <2> QED BY <1>1, <2>3, <2>4, SmoothGood DEF Inv
<1>3. CASE ~BelowTotal(eng)
  <2>1. Waits(eng) /\ eng' = eng
    BY <1>3 DEF WindowTurns
  <2>2. seen' \in 0..PieceCount /\ any' \in BOOLEAN /\ driver' \in {"window", "complete", "waiting", driver}
    BY <2>1, SeenInRange
  <2>3. Rest'
    BY <1>1, <2>2, Counts DEF Inv, Rest
  <2> QED BY <1>1, <2>1, <2>3, IdleInv
<1> QED BY <1>2, <1>3

LEMMA RequestsInv ==
  ASSUME Inv, WindowRequests
  PROVE  Inv'
<1>1. Smooth /\ due' = due /\ UNCHANGED <<advert, stored, rx, pendingChunks, asides>>
  BY DEF WindowRequests, chunkVars
<1>2. PICK o \in RequestNextGridPiece(eng) :
        /\ eng' = o.eng
        /\ CASE o.kind = "scheduled" -> driver' = "sending" /\ UNCHANGED <<seen, any>>
             [] o.kind # "scheduled" /\ ~any /\ o.eng.open = {} -> driver' = "threw" /\ UNCHANGED <<seen, any>>
             [] OTHER -> Waits(o.eng)
  BY DEF WindowRequests
<1>3. seen' \in 0..PieceCount /\ any' \in BOOLEAN
      /\ driver' \in {"sending", "threw", "window", "complete", "waiting", driver}
  <2>1. CASE Waits(o.eng)
    BY <2>1, SeenInRange
  <2>2. CASE driver' \in {"sending", "threw"} /\ UNCHANGED <<seen, any>>
    BY <2>2 DEF Inv, Rest
  <2> QED BY <1>2, <2>1, <2>2
<1>4. Rest'
  BY <1>1, <1>3, Counts DEF Inv, Rest
<1>5. Good(eng', due, trouble + faults)
  BY <1>2, Spent, ScheduledGood
<1> QED BY <1>1, <1>4, <1>5, SmoothGood DEF Inv

LEMMA NextInv == Inv /\ [Next]_vars => Inv'
<1> SUFFICES ASSUME Inv, [Next]_vars PROVE Inv'
  OBVIOUS
<1>1. CASE UNCHANGED vars
  BY <1>1 DEF vars, chunkVars, loopVars, Inv, Rest
<1>2. CASE Driver \/ ProgressTimeout
  BY <1>2, LoopInv, WindowInv, RequestsInv DEF Driver
<1>3. ASSUME NEW q \in Peers, UpdatePeerPieceMap(q) PROVE Inv'
  BY <1>3, WorldInv
<1>4. ASSUME NEW r \in Request, LeaseFallsDue(r) \/ Answer(r) \/ ProviderRejects(r) \/ VerifyFails(r)
      PROVE  Inv'
  BY <1>4, LeaseInv, VerifyingInv, RejectsInv, VerifyFailsInv
<1>5. ASSUME NEW r \in Request, Pipeline(r) PROVE Inv'
  BY <1>5, VerifyingInv, DeleteInv, RejectSavedInv, WriteInv, SaveInv, BroadcastInv, ResponseInv
  DEF Pipeline
<1>6. CASE Chunks
  BY <1>6, HeaderInv, ChunkInv, RefusalInv, AskInv DEF Chunks
<1> QED BY <1>1, <1>2, <1>3, <1>4, <1>5, <1>6 DEF Next

LEMMA GridInvariant == Spec => []Inv
<1>1. Init => Inv
  BY InitInv
<1>2. Inv /\ [Next]_vars => Inv'
  BY NextInv
<1> QED BY <1>1, <1>2, PTL DEF Spec

(* However window calls, endgame requests, re-requests, expired leases,      *)
(* refused chunks and failing answers interleave: every request of a piece   *)
(* but the first was paid for by a counted failure of it, and no provider    *)
(* has more than maxInFlightPerPeer requests with grid options at a time     *)
(* (requestNextGridPiece, maybeScheduleEndgamePiece, expireRequestLeases,    *)
(* PIECE_REJECT).  Those that requestNextPiece makes for the refused chunk   *)
(* of a request no longer outstanding are under no cap (rejectIncomingChunk) *)
(* but are paid for like any other.                                         *)
THEOREM BoundsOfGrid == Spec => []RequestsAreBounded
<1>1. Inv => RequestsAreBounded
  <2> SUFFICES ASSUME Inv PROVE RequestsAreBounded
    OBVIOUS
  <2>1. eng \in Engine /\ Paid(eng, due, trouble + faults) /\ Capped(eng) /\ Rest
    BY DEF Inv, Good
  <2>2. TypeOK
    BY <2>1 DEF TypeOK, Engine, Paid, Rest
  <2>3. PerPeerCap
    BY <2>1 DEF PerPeerCap, Capped, Gridded
  <2> QED BY <2>2, <2>3 DEF RequestsAreBounded
<1> QED BY <1>1, GridInvariant, PTL

-----------------------------------------------------------------------------
(* Who takes "verified" away.                                               *)

(* Requests and leases move on: numbers only grow, and a lease is kept,     *)
(* given back or taken by a request that was not there before.              *)
Carried(e, f) ==
  \A p \in Piece :
    /\ e.issued[p] <= f.issued[p]
    /\ f.lease[p] \in {NoLease, e.lease[p]} \/ e.issued[p] < f.lease[p][2]

(* No request is made, and a lease is kept or given back.                   *)
Settled(e, f) ==
  f.issued = e.issued /\ \A p \in Piece : f.lease[p] \in {NoLease, e.lease[p]}

(* No piece becomes verified, and only the expired lease of an outstanding   *)
(* request takes "verified" away.                                           *)
LostToExpiry(e, f) ==
  \A p \in Piece :
    /\ f.status[p] = "verified" => e.status[p] = "verified"
    /\ e.status[p] = "verified" /\ f.status[p] # "verified" => e.lease[p] \in e.open

(* A pipeline works for a request that was made, and the request whose       *)
(* answer is being saved holds no lease any more.                           *)
Owned ==
  /\ \A r \in Request : rx[r] # "none" => r[2] <= eng.issued[r[1]]
  /\ \A p \in Piece : eng.lease[p] # NoLease => rx[eng.lease[p]] # "saving"

LEMMA SettledCarried ==
  ASSUME NEW e \in Engine, NEW f \in Engine, Settled(e, f)
  PROVE  Carried(e, f)
  BY DEF Settled, Carried, Engine

LEMMA SettledThenCarried ==
  ASSUME NEW e, NEW f, NEW g, Settled(e, f), Carried(f, g)
  PROVE  Carried(e, g)
<1> SUFFICES ASSUME NEW p \in Piece
             PROVE  /\ e.issued[p] <= g.issued[p]
                    /\ g.lease[p] \in {NoLease, e.lease[p]} \/ e.issued[p] < g.lease[p][2]
  BY DEF Carried
<1>1. f.issued[p] = e.issued[p] /\ f.lease[p] \in {NoLease, e.lease[p]}
  BY DEF Settled
<1>2. f.issued[p] <= g.issued[p] /\ (g.lease[p] \in {NoLease, f.lease[p]} \/ f.issued[p] < g.lease[p][2])
  BY DEF Carried
<1> QED BY <1>1, <1>2

LEMMA ExpireSettled ==
  ASSUME NEW e \in Engine
  PROVE  Settled(e, ExpireRequestLeases(e)) /\ LostToExpiry(e, ExpireRequestLeases(e))
<1> DEFINE timedOut == {p \in Piece : e.lease[p] \in due \cap e.open}
           f == ExpireRequestLeases(e)
<1>1. /\ f \in Engine
      /\ f.lease = [p \in Piece |-> IF e.lease[p] \in due THEN NoLease ELSE e.lease[p]]
      /\ f.open = e.open \ {e.lease[p] : p \in timedOut}
      /\ f.status = [p \in Piece |-> IF p \in timedOut THEN "missing" ELSE e.status[p]]
      /\ f.retries = [p \in Piece |-> IF p \in timedOut THEN e.retries[p] + 1 ELSE e.retries[p]]
      /\ f.issued = e.issued /\ f.peer = e.peer /\ f.tomb = e.tomb /\ f.plain = e.plain
  BY ExpireFields
<1> HIDE DEF f
<1>2. Settled(e, f)
  BY <1>1 DEF Settled
<1>3. LostToExpiry(e, f)
  BY <1>1 DEF LostToExpiry
<1> QED BY <1>2, <1>3 DEF f

(* A request issued after the expiry of the due leases.                     *)
LEMMA IssueCarried ==
  ASSUME NEW n \in Budget, NEW e0, Good(e0, due, n), due \subseteq Request,
         NEW p \in Missing(e0), NEW q \in Peers, NEW leased \in BOOLEAN
  PROVE  LET f == Issue(ExpireRequestLeases(e0), p, q, leased)
         IN  Carried(e0, f) /\ LostToExpiry(e0, f)
<1> DEFINE e == ExpireRequestLeases(e0)
           r == <<p, e.issued[p] + 1>>
           f == Issue(e, p, q, leased)
<1>1. e0 \in Engine /\ n \in Nat
  BY Numbers DEF Good, Budget
<1>2. Good(e, due, n) /\ Settled(e0, e) /\ LostToExpiry(e0, e)
  BY <1>1, ExpireGood, ExpireSettled, NoLeaseIsNoRequest
<1>3. p \in Missing(e) /\ e0.status[p] # "verified"
  BY <1>1, ExpireMissing DEF Missing
<1> HIDE DEF e
<1>4. p \in Piece /\ e.issued[p] <= e.retries[p] /\ e.issued[p] \in Nat /\ e.retries[p] \in Nat
      /\ e.retries[p] <= n
  BY <1>2, <1>3 DEF Missing, Good, Paid, Engine
<1>5. e.issued[p] + 1 \in 1..MaxTrouble + MaxFaults + 1
  BY <1>4, Numbers DEF Budget
<1>6. r \in Request /\ r[2] = e.issued[p] + 1
  BY <1>4, <1>5 DEF Request
<1>7. /\ f \in Engine
      /\ f.status = [e.status EXCEPT ![p] = "requested"]
      /\ f.issued = [e.issued EXCEPT ![p] = e.issued[p] + 1]
      /\ f.lease = [e.lease EXCEPT ![p] = IF leased THEN r ELSE e.lease[p]]
  <2>1. e \in Engine /\ r = <<p, e.issued[p] + 1>>
    BY <1>2 DEF Good
  <2> HIDE DEF r, f
  <2>2. LET h == Issue(e, p, q, leased) IN
        /\ h \in Engine
        /\ h.status = [e.status EXCEPT ![p] = "requested"]
        /\ h.open = e.open \cup {r}
        /\ h.issued = [e.issued EXCEPT ![p] = e.issued[p] + 1]
        /\ h.peer = [e.peer EXCEPT ![r] = q]
        /\ h.lease = [e.lease EXCEPT ![p] = IF leased THEN r ELSE e.lease[p]]
        /\ h.retries = e.retries /\ h.tomb = e.tomb /\ h.plain = e.plain
    BY <1>4, <1>6, <2>1, IssueFields, SMTT(60)
  <2> QED BY <2>2 DEF f
<1>8. e \in Engine
  BY <1>2 DEF Good
<1> HIDE DEF f, r
<1>9. Carried(e, f)
  <2> SUFFICES ASSUME NEW o \in Piece
               PROVE  /\ e.issued[o] <= f.issued[o]
                      /\ f.lease[o] \in {NoLease, e.lease[o]} \/ e.issued[o] < f.lease[o][2]
    BY DEF Carried
  <2>1. e.issued[o] \in Nat /\ f.issued[o] = IF o = p THEN e.issued[p] + 1 ELSE e.issued[o]
    BY <1>4, <1>7, <1>8 DEF Engine
  <2>2. f.lease[o] = IF o = p /\ leased THEN r ELSE e.lease[o]
    BY <1>4, <1>7, <1>8 DEF Engine
  <2> QED BY <1>4, <1>6, <2>1, <2>2
<1>10. Carried(e0, f)
  BY <1>2, <1>9, SettledThenCarried
<1>11. LostToExpiry(e0, f)
  <2>1. \A o \in Piece : f.status[o] = IF o = p THEN "requested" ELSE e.status[o]
    BY <1>7, <1>8 DEF Engine
  <2> QED BY <1>2, <1>3, <2>1 DEF LostToExpiry
<1> QED BY <1>10, <1>11 DEF e, f

LEMMA StaysCarried ==
  ASSUME NEW e \in Engine
  PROVE  Carried(e, e) /\ LostToExpiry(e, e)
  BY DEF Carried, LostToExpiry, Engine

LEMMA ScheduledCarried ==
  ASSUME NEW n \in Budget, NEW e0, Good(e0, due, n), due \subseteq Request,
         NEW o \in RequestNextGridPiece(e0) \cup MaybeScheduleEndgamePiece(e0)
  PROVE  Carried(e0, o.eng) /\ LostToExpiry(e0, o.eng)
<1> DEFINE e == ExpireRequestLeases(e0)
<1>1. e0 \in Engine /\ n \in Nat
  BY Numbers DEF Good, Budget
<1>2. e \in Engine /\ Settled(e0, e) /\ LostToExpiry(e0, e)
  BY <1>1, ExpireGood, ExpireSettled, NoLeaseIsNoRequest DEF Good
<1>3. Carried(e0, e)
  BY <1>1, <1>2, SettledCarried
<1>4. CASE o.eng = e0
  BY <1>1, <1>4, StaysCarried
<1>5. CASE o.eng = e
  BY <1>2, <1>3, <1>5
<1>6. ASSUME NEW p \in Missing(e0), NEW q \in Peers, NEW leased \in BOOLEAN,
             o.eng = Issue(e, p, q, leased)
      PROVE  Carried(e0, o.eng) /\ LostToExpiry(e0, o.eng)
  <2>1. Carried(e0, Issue(e, p, q, leased)) /\ LostToExpiry(e0, Issue(e, p, q, leased))
    BY IssueCarried
  <2> QED BY <1>6, <2>1
<1> QED BY <1>1, <1>4, <1>5, <1>6, Scheduled

(* A request without grid options takes no lease.                           *)
LEMMA AskCarried ==
  ASSUME NEW n \in Budget, NEW e, Good(e, due, n), due \subseteq Request, NEW q \in Peers
  PROVE  Carried(e, RequestNextPiece(e, q)) /\ LostToExpiry(e, RequestNextPiece(e, q))
<1> DEFINE g == RequestNextPiece(e, q)
<1>1. e \in Engine
  BY DEF Good
<1>2. CASE g = e
  BY <1>1, <1>2, StaysCarried
<1>3. ASSUME NEW p \in Missing(e), NEW r \in Request, Asks(e, g, p, r, q, n)
      PROVE  Carried(e, g) /\ LostToExpiry(e, g)
  <2> HIDE DEF g
  <2>1. \A o \in Piece : /\ g.issued[o] = IF o = p THEN e.issued[p] + 1 ELSE e.issued[o]
                         /\ g.status[o] = IF o = p THEN "requested" ELSE e.status[o]
                         /\ e.issued[o] \in Nat
    BY <1>1, <1>3 DEF Asks, Engine
  <2>2. g.lease = e.lease /\ e.status[p] # "verified" /\ p \in Piece
    BY <1>3 DEF Asks, Missing
  <2> QED BY <2>1, <2>2 DEF Carried, LostToExpiry
<1> HIDE DEF g
<1>4. g = e \/ \E p \in Missing(e), r \in Request : Asks(e, g, p, r, q, n)
  BY AskFacts DEF g
<1> QED BY <1>2, <1>3, <1>4 DEF g

LEMMA RetryCarried ==
  ASSUME NEW n \in Budget, NEW e, Good(e, due, n), due \subseteq Request, NEW p \in Piece,
         NEW q \in Peers, NEW f \in RetryGrid(e, p) \cup RetryPlain(e, p, q)
  PROVE  Carried(e, f) /\ LostToExpiry(e, f)
<1> DEFINE g == ResetFailedToMissing(e, p)
<1>1. e \in Engine /\ n \in Nat
  BY Numbers DEF Good, Budget
<1>2. /\ Good(g, due, n) /\ g.issued = e.issued /\ g.lease = e.lease /\ g.open = e.open
      /\ \A k \in Piece : e.status[k] = "verified" <=> g.status[k] = "verified"
  BY <1>1, ResetGood
<1>3. f = e \/ f \in Again(g, q)
  BY RetryCases
<1> HIDE DEF g
<1>4. CASE f = e
  BY <1>1, <1>4, StaysCarried
<1>5. CASE f \in Again(g, q)
  <2>1. ASSUME f = RequestNextPiece(g, q)
        PROVE  Carried(g, f) /\ LostToExpiry(g, f)
    BY <1>2, <2>1, AskCarried
  <2>2. ASSUME NEW o \in RequestNextGridPiece(g), f = o.eng
        PROVE  Carried(g, f) /\ LostToExpiry(g, f)
    BY <1>2, <2>2, ScheduledCarried
  <2>3. Carried(g, f) /\ LostToExpiry(g, f)
    BY <1>5, <2>1, <2>2 DEF Again
  <2> QED BY <1>2, <2>3 DEF Carried, LostToExpiry
<1> QED BY <1>3, <1>4, <1>5

LEMMA RetryAllCarried ==
  ASSUME NEW n \in Budget, NEW e, Good(e, due, n), due \subseteq Request, NEW r \in Request,
         NEW b \in BOOLEAN, NEW f \in Retry(e, r, b)
  PROVE  Carried(e, f) /\ LostToExpiry(e, f)
<1>1. /\ e.peer[r] \in Peers /\ r[1] \in Piece
      /\ f \in RetryGrid(e, r[1]) \cup RetryPlain(e, r[1], e.peer[r])
  BY RetryEither DEF Good
<1> QED BY <1>1, RetryCarried

-----------------------------------------------------------------------------
(* Every step carries its requests and leases on.                           *)

(* "Verified" is only lost by a piece that a rival is outstanding for, or    *)
(* for one of whose requests a chunk header was waiting.                    *)
Rival == \A p \in Verified(eng) \ Verified(eng') :
           \/ faults' > faults
           \/ \E r \in OpenFor(eng, p) : rx[r] # "saving"
           \/ \E q \in Peers : pendingChunks[q][1] = p /\ pendingChunks'[q] = NoLease

LEMMA InvFacts ==
  ASSUME Inv
  PROVE  /\ eng \in Engine /\ Numbered(eng, due) /\ due \subseteq Request
         /\ \A r \in eng.open : r \in Request /\ r[1] \in Piece /\ r[2] <= eng.issued[r[1]]
         /\ \A p \in Piece : eng.lease[p] # NoLease =>
              eng.lease[p] \in Request /\ eng.lease[p][1] = p /\ eng.lease[p][2] <= eng.issued[p]
  BY DEF Inv, Rest, Good, Numbered, Engine, Request

(* A lease is expired, or a request issued: the lost piece's request was    *)
(* outstanding and not the one whose answer is being saved.                 *)
LEMMA ExpiryRival ==
  ASSUME Inv, Owned, LostToExpiry(eng, eng')
  PROVE  Rival
<1> SUFFICES ASSUME NEW p \in Piece, eng.status[p] = "verified", eng'.status[p] # "verified"
             PROVE  \E r \in OpenFor(eng, p) : rx[r] # "saving"
  BY DEF Rival, Verified
<1>1. eng.lease[p] \in eng.open
  BY DEF LostToExpiry
<1>2. eng.lease[p] # NoLease
  BY <1>1, InvFacts, NoLeaseIsNoRequest
<1>3. eng.lease[p] \in OpenFor(eng, p)
  BY <1>1, <1>2, InvFacts DEF OpenFor
<1>4. rx[eng.lease[p]] # "saving"
  BY <1>2 DEF Owned
<1> QED BY <1>3, <1>4

(* A request of piece p itself takes it away.                               *)
LEMMA SelfRival ==
  ASSUME NEW r \in eng.open, rx[r] # "saving",
         \A p \in Piece \ {r[1]} :
           eng.status[p] = "verified" /\ eng'.status[p] # "verified" =>
             \E s \in OpenFor(eng, p) : rx[s] # "saving"
  PROVE  Rival
<1> SUFFICES ASSUME NEW p \in Piece, eng.status[p] = "verified", eng'.status[p] # "verified"
             PROVE  \E s \in OpenFor(eng, p) : rx[s] # "saving"
  BY DEF Rival, Verified
<1>1. CASE p = r[1]
  <2>1. r \in OpenFor(eng, p)
    BY <1>1 DEF OpenFor
  <2> QED BY <2>1
<1>2. CASE p # r[1]
  BY <1>2
<1> QED BY <1>1, <1>2

(* Pipelines start for made requests only, and none starts to save.         *)
LEMMA CarriedOwned ==
  ASSUME Inv, Inv', Owned, Carried(eng, eng'),
         \A r \in Request : \/ rx'[r] = rx[r]
                            \/ rx'[r] # "saving" /\ r[2] <= eng.issued[r[1]]
  PROVE  Owned'
<1>1. /\ \A p \in Piece : eng.issued[p] \in Nat /\ eng'.issued[p] \in Nat /\ eng.issued[p] <= eng'.issued[p]
      /\ eng' \in Engine
  BY DEF Inv, Good, Engine, Carried
<1>2. ASSUME NEW r \in Request, rx'[r] # "none"
      PROVE  r[2] <= eng'.issued[r[1]]
  <2>1. r[1] \in Piece /\ r[2] \in Nat /\ r[2] <= eng.issued[r[1]]
    BY <1>2 DEF Owned, Request
  <2> QED BY <1>1, <2>1
<1>3. ASSUME NEW p \in Piece, eng'.lease[p] # NoLease
      PROVE  rx'[eng'.lease[p]] # "saving"
  <2> DEFINE r == eng'.lease[p]
  <2>1. r \in Request /\ r[1] = p /\ r[2] \in Nat
    <3>1. eng'.lease[p] \in Request /\ eng'.lease[p][1] = p
      BY <1>1, <1>3 DEF Inv, Good, Numbered, Engine
    <3> QED BY <3>1 DEF Request
  <2>2. r = eng.lease[p] \/ eng.issued[p] < r[2]
    BY <1>3 DEF Carried
  <2>3. rx[r] # "saving"
    <3>1. CASE r = eng.lease[p]
      BY <1>3, <3>1 DEF Owned
    <3>2. CASE eng.issued[p] < r[2]
      BY <1>1, <2>1, <3>2 DEF Owned
    <3> QED BY <2>2, <3>1, <3>2
  <2> HIDE DEF r
  <2>4. rx'[r] # "saving"
    BY <2>1, <2>3
  <2> QED BY <2>4 DEF r
<1> QED BY <1>2, <1>3 DEF Owned

(* Steps that leave the engine alone.                                       *)
LEMMA IdleRival ==
  ASSUME Inv, Inv', Owned, eng' = eng,
         \A r \in Request : \/ rx'[r] = rx[r]
                            \/ rx'[r] # "saving" /\ r[2] <= eng.issued[r[1]]
  PROVE  Owned' /\ Rival
<1>1. Carried(eng, eng') /\ LostToExpiry(eng, eng')
  BY InvFacts, StaysCarried
<1> QED BY <1>1, CarriedOwned, ExpiryRival

LEMMA RequestMade ==
  ASSUME Inv, Owned, NEW r \in Request, NEW s, rx' = [rx EXCEPT ![r] = s],
         rx[r] # "none" \/ r \in eng.open, s # "saving"
  PROVE  \A k \in Request : \/ rx'[k] = rx[k]
                            \/ rx'[k] # "saving" /\ k[2] <= eng.issued[k[1]]
<1>1. r[2] <= eng.issued[r[1]]
  BY InvFacts DEF Owned
<1>2. rx'[r] = s /\ \A k \in Request \ {r} : rx'[k] = rx[k]
  BY DEF Inv, Rest
<1> QED BY <1>1, <1>2

(* A failing send or adapter: the piece fails, no lease moves.              *)
LEMMA FaultRival ==
  ASSUME Inv, Inv', Owned, LateFault, NEW p \in Piece, eng' = eng \/ eng' = MarkFailed(eng, p),
         \A r \in Request : \/ rx'[r] = rx[r]
                            \/ rx'[r] # "saving" /\ r[2] <= eng.issued[r[1]]
  PROVE  Owned' /\ Rival
<1>1. eng' \in Engine /\ eng \in Engine
  BY DEF Inv, Good
<1>2. eng'.issued = eng.issued /\ eng'.lease = eng.lease
  <2>1. CASE eng' = eng
    BY <2>1
  <2>2. CASE eng' = MarkFailed(eng, p)
    BY <1>1, <2>2, MarkFailedFields
  <2> QED BY <2>1, <2>2
<1>3. Settled(eng, eng')
  BY <1>2 DEF Settled
<1>4. Carried(eng, eng')
  BY <1>1, <1>3, SettledCarried
<1>5. Rival
  BY DEF LateFault, Rival, Inv, Rest
<1> QED BY <1>4, <1>5, CarriedOwned

(* The fields of a record after its request is released, or leaves.         *)
LEMMA ReleaseFields ==
  ASSUME NEW e \in Engine, NEW r \in Request
  PROVE  LET f == Release(e, r) IN
         /\ f \in Engine /\ f.status = e.status /\ f.open = e.open /\ f.issued = e.issued
         /\ f.tomb = e.tomb /\ f.plain = e.plain
         /\ \A p \in Piece : f.lease[p] = IF p = r[1] /\ e.lease[p] = r THEN NoLease ELSE e.lease[p]
<1>1. CASE e.lease[r[1]] # r
  BY <1>1 DEF Release, Engine
<1>2. CASE e.lease[r[1]] = r
  <2>1. Release(e, r) = [e EXCEPT !.lease[r[1]] = NoLease] /\ r[1] \in Piece
    BY <1>2 DEF Release, Request
  <2> QED BY <1>2, <2>1 DEF Engine
<1> QED BY <1>1, <1>2

LEMMA DeletedFields ==
  ASSUME NEW e \in Engine, NEW r
  PROVE  LET f == Deleted(e, r) IN
         /\ f \in Engine /\ f.status = e.status /\ f.open = e.open \ {r} /\ f.issued = e.issued
         /\ f.lease = e.lease /\ f.tomb = e.tomb /\ f.plain = e.plain
  BY DEF Deleted, Engine

LEMMA CancelFields ==
  ASSUME NEW e \in Engine, NEW r
  PROVE  LET f == CancelCompetingGridRequests(e, r) IN
         /\ f.status = e.status /\ f.issued = e.issued /\ f.lease = e.lease
         /\ f.open = e.open \ Rivals(e, r) /\ f.tomb = e.tomb \cup Rivals(e, r)
  BY DEF CancelCompetingGridRequests, Engine

LEMMA RefusedFields ==
  ASSUME NEW e \in Engine, NEW r \in Request
  PROVE  LET f == Refused(e, r) IN
         /\ f \in Engine /\ f.status = [e.status EXCEPT ![r[1]] = "failed"]
         /\ f.open = e.open \ {r} /\ f.issued = e.issued /\ f.tomb = e.tomb
         /\ \A p \in Piece : f.lease[p] = IF p = r[1] /\ e.lease[p] = r THEN NoLease ELSE e.lease[p]
<1> DEFINE a == Release(e, r)
           b == MarkFailed(a, r[1])
           c == Deleted(b, r)
<1>1. /\ a \in Engine /\ a.status = e.status /\ a.open = e.open /\ a.issued = e.issued
      /\ a.tomb = e.tomb
      /\ \A p \in Piece : a.lease[p] = IF p = r[1] /\ e.lease[p] = r THEN NoLease ELSE e.lease[p]
  BY ReleaseFields
<1> HIDE DEF a
<1>2. /\ b \in Engine /\ b.status = [a.status EXCEPT ![r[1]] = "failed"]
      /\ b.lease = a.lease /\ b.open = a.open /\ b.issued = a.issued /\ b.tomb = a.tomb
  BY <1>1, RequestPieceType, MarkFailedFields
<1> HIDE DEF b
<1>3. /\ c \in Engine /\ c.status = b.status /\ c.open = b.open \ {r} /\ c.issued = b.issued
      /\ c.lease = b.lease /\ c.tomb = b.tomb
  BY <1>2, DeletedFields
<1> HIDE DEF c
<1>4. /\ c \in Engine /\ c.status = [e.status EXCEPT ![r[1]] = "failed"]
      /\ c.open = e.open \ {r} /\ c.issued = e.issued /\ c.tomb = e.tomb
      /\ \A p \in Piece : c.lease[p] = IF p = r[1] /\ e.lease[p] = r THEN NoLease ELSE e.lease[p]
  BY <1>1, <1>2, <1>3
<1> QED BY <1>4 DEF Refused, a, b, c

(* One lemma per action.                                                    *)
LEMMA IdleStepRival ==
  ASSUME Inv, Inv', Owned,
         \/ \E q \in Peers : UpdatePeerPieceMap(q)
         \/ \E q \in Peers : LateFrame(q)
         \/ \E r \in Request : LeaseFallsDue(r) \/ Answer(r) \/ ChunkHeader(r) \/ VerifyPasses(r)
         \/ WindowSettles \/ ProgressTimeout
  PROVE  Owned' /\ Rival
<1>1. CASE UNCHANGED <<eng, rx>>
  BY <1>1, IdleRival
<1>2. ASSUME NEW r \in Request, Answer(r) PROVE Owned' /\ Rival
  <2>1. r \in eng.open /\ eng' = eng /\ rx' = [rx EXCEPT ![r] = "verifying"]
    BY <1>2 DEF Answer, Active
  <2> QED BY <2>1, RequestMade, IdleRival
<1>3. ASSUME NEW r \in Request, VerifyPasses(r) PROVE Owned' /\ Rival
  <2> DEFINE s == IF Active(eng, r) THEN "writing" ELSE "rejecting"
  <2>1. rx[r] # "none" /\ eng' = eng /\ rx' = [rx EXCEPT ![r] = s] /\ s # "saving"
    BY <1>3 DEF VerifyPasses
  <2> HIDE DEF s
  <2> QED BY <2>1, RequestMade, IdleRival
<1> QED BY <1>1, <1>2, <1>3 DEF UpdatePeerPieceMap, LateFrame, LeaseFallsDue, ChunkHeader, WindowSettles, ProgressTimeout

LEMMA SchedulingRival ==
  ASSUME Inv, Inv', Owned, WindowTurns \/ WindowRequests
  PROVE  Owned' /\ Rival
<1>1. Carried(eng, eng') /\ LostToExpiry(eng, eng')
  <2>1. CASE eng' = eng
    BY <2>1, InvFacts, StaysCarried
  <2>2. ASSUME NEW o \in MaybeScheduleEndgamePiece(eng), eng' = o.eng
        PROVE  Carried(eng, eng') /\ LostToExpiry(eng, eng')
    BY <2>2, Spent, ScheduledCarried
  <2>3. ASSUME NEW o \in RequestNextGridPiece(eng), eng' = o.eng
        PROVE  Carried(eng, eng') /\ LostToExpiry(eng, eng')
    BY <2>3, Spent, ScheduledCarried
  <2> QED BY <2>1, <2>2, <2>3 DEF WindowTurns, WindowRequests
<1>2. rx' = rx
  BY DEF WindowTurns, WindowRequests
<1> QED BY <1>1, <1>2, CarriedOwned, ExpiryRival

(* A refused request, or the request of a refused chunk, gives its lease    *)
(* back and fails its own piece only.                                       *)
LEMMA RefusedSettled ==
  ASSUME Inv, NEW r \in Request, NEW f, f = Refused(eng, r)
  PROVE  /\ f \in Engine /\ Settled(eng, f) /\ Carried(eng, f) /\ f.open \subseteq eng.open
         /\ \A p \in Piece \ {r[1]} : f.status[p] = eng.status[p] /\ f.lease[p] = eng.lease[p]
<1>1. eng \in Engine
  BY InvFacts
<1>2. /\ f \in Engine /\ f.status = [eng.status EXCEPT ![r[1]] = "failed"]
      /\ f.open = eng.open \ {r} /\ f.issued = eng.issued /\ f.tomb = eng.tomb
      /\ \A p \in Piece : f.lease[p] = IF p = r[1] /\ eng.lease[p] = r THEN NoLease ELSE eng.lease[p]
  BY <1>1, RefusedFields
<1>3. Settled(eng, f)
  BY <1>2 DEF Settled
<1>4. Carried(eng, f)
  BY <1>1, <1>2, <1>3, SettledCarried
<1>5. \A p \in Piece \ {r[1]} : f.status[p] = eng.status[p] /\ f.lease[p] = eng.lease[p]
  BY <1>1, <1>2 DEF Engine
<1> QED BY <1>2, <1>3, <1>4, <1>5

LEMMA RejectsRival ==
  ASSUME Inv, Inv', Owned, NEW r \in Request, ProviderRejects(r)
  PROVE  Owned' /\ Rival
<1> DEFINE c == Refused(eng, r)
           n == trouble' + faults'
<1>1. r \in eng.open /\ rx[r] = "none" /\ rx' = rx /\ eng' \in Retry(c, r, r \notin eng.plain)
      /\ (r \notin eng.plain) \in BOOLEAN /\ Troubled
  BY DEF ProviderRejects
<1>2. /\ c \in Engine /\ Settled(eng, c) /\ c.open \subseteq eng.open
      /\ \A p \in Piece \ {r[1]} : c.status[p] = eng.status[p] /\ c.lease[p] = eng.lease[p]
  BY RefusedSettled
<1>3. Good(c, due, n) /\ n \in Budget
  BY <1>1, RefusedGood, Counts
<1> HIDE DEF c, n
<1>4. Carried(c, eng') /\ LostToExpiry(c, eng')
  BY <1>1, <1>3, Spent, RetryAllCarried
<1>5. Owned'
  <2>1. Carried(eng, eng')
    BY <1>2, <1>4, SettledThenCarried
  <2> QED BY <1>1, <2>1, CarriedOwned
<1>6. ASSUME NEW p \in Piece \ {r[1]}, eng.status[p] = "verified", eng'.status[p] # "verified"
      PROVE  \E s \in OpenFor(eng, p) : rx[s] # "saving"
  <2>1. c.status[p] = "verified" /\ c.lease[p] = eng.lease[p] /\ c.open \subseteq eng.open
    BY <1>2, <1>6
  <2>2. eng.lease[p] \in eng.open
    BY <1>4, <1>6, <2>1 DEF LostToExpiry
  <2>3. eng.lease[p] # NoLease
    BY <2>2, InvFacts, NoLeaseIsNoRequest
  <2>4. eng.lease[p] \in OpenFor(eng, p)
    BY <2>2, <2>3, InvFacts DEF OpenFor
  <2> QED BY <2>3, <2>4 DEF Owned
<1>7. Rival
  BY <1>1, <1>6, SelfRival
<1> QED BY <1>5, <1>7

(* A chunk is refused: its request is a rival, or its header was waiting.   *)
LEMMA ChunkRival ==
  ASSUME Inv, Inv', Owned,
         (\E r \in Request : StrayHeader(r)) \/ \E q \in Peers : MalformedFrame(q)
  PROVE  Owned' /\ Rival
<1>1. ASSUME NEW r \in Request, RejectIncomingChunk(r)
      PROVE  Owned' /\ \A p \in Piece \ {r[1]} : eng'.status[p] = eng.status[p]
  <2>1. eng' = Refused(eng, r) /\ rx' = rx
    BY <1>1 DEF RejectIncomingChunk
  <2>2. Carried(eng, eng') /\ \A p \in Piece \ {r[1]} : eng'.status[p] = eng.status[p]
    BY <2>1, RefusedSettled
  <2> QED BY <2>1, <2>2, CarriedOwned
<1>2. ASSUME NEW r \in Request, StrayHeader(r) PROVE Owned' /\ Rival
  <2>1. r \in eng.open /\ rx[r] # "saving" /\ RejectIncomingChunk(r)
    BY <1>2 DEF StrayHeader, Active
  <2>2. Owned' /\ \A p \in Piece \ {r[1]} : eng'.status[p] = eng.status[p]
    BY <1>1, <2>1
  <2> QED BY <2>1, <2>2, SelfRival
<1>3. ASSUME NEW q \in Peers, MalformedFrame(q) PROVE Owned' /\ Rival
  <2> DEFINE r == pendingChunks[q]
  <2>1. r \in Request /\ pendingChunks'[q] = NoLease /\ RejectIncomingChunk(r)
    BY <1>3 DEF MalformedFrame, Inv, Rest
  <2>2. Owned' /\ \A p \in Piece \ {r[1]} : eng'.status[p] = eng.status[p]
    BY <1>1, <2>1
  <2>3. Rival
    BY <2>1, <2>2 DEF Rival, Verified
  <2> QED BY <2>2, <2>3
<1> QED BY <1>2, <1>3

(* The answer to a refused chunk, and a request without grid options, are   *)
(* sent.                                                                    *)
LEMMA AsideRival ==
  ASSUME Inv, Inv', Owned, NEW r \in Request, NEW await,
         RefusalSettles(r, await) \/ AskSettles(r)
  PROVE  Owned' /\ Rival
<1>1. rx' = rx
  BY DEF RefusalSettles, AskSettles
<1>2. CASE LateFault /\ (eng' = eng \/ eng' = MarkFailed(eng, r[1]))
  BY <1>1, <1>2, RequestPieceType, FaultRival
<1>3. CASE eng' = eng
  BY <1>1, <1>3, IdleRival
<1>4. CASE eng' \in Retry(eng, r, await = "refusing" /\ r \notin eng.plain)
  <2>1. (await = "refusing" /\ r \notin eng.plain) \in BOOLEAN
    OBVIOUS
  <2>2. Carried(eng, eng') /\ LostToExpiry(eng, eng')
    BY <1>4, <2>1, Spent, RetryAllCarried
  <2> QED BY <1>1, <2>2, CarriedOwned, ExpiryRival
<1> QED BY <1>2, <1>3, <1>4 DEF RefusalSettles, AskSettles

LEMMA VerifyFailsRival ==
  ASSUME Inv, Inv', Owned, NEW r \in Request, VerifyFails(r)
  PROVE  Owned' /\ Rival
<1>1. rx[r] = "verifying" /\ r[1] \in Piece /\ eng \in Engine
  BY InvFacts, RequestPieceType DEF VerifyFails
<1>2. CASE Active(eng, r)
  <2> DEFINE a == Release(eng, r)
  <2>1. r \in eng.open /\ eng' = MarkFailed(a, r[1]) /\ rx' = [rx EXCEPT ![r] = "deleting"]
    BY <1>2 DEF VerifyFails, Active
  <2>2. /\ a \in Engine /\ a.status = eng.status /\ a.open = eng.open /\ a.issued = eng.issued
        /\ \A p \in Piece : a.lease[p] = IF p = r[1] /\ eng.lease[p] = r THEN NoLease ELSE eng.lease[p]
    BY <1>1, ReleaseFields
  <2> HIDE DEF a
  <2>3. /\ eng' \in Engine /\ eng'.status = [a.status EXCEPT ![r[1]] = "failed"]
        /\ eng'.lease = a.lease /\ eng'.issued = a.issued
    BY <1>1, <2>1, <2>2, MarkFailedFields
  <2>4. Settled(eng, eng')
    BY <2>2, <2>3 DEF Settled
  <2>5. Carried(eng, eng')
    BY <1>1, <2>3, <2>4, SettledCarried
  <2>6. Owned'
    BY <1>1, <2>1, <2>5, RequestMade, CarriedOwned
  <2>7. \A p \in Piece \ {r[1]} : eng'.status[p] = eng.status[p]
    BY <1>1, <2>2, <2>3 DEF Engine
  <2>8. Rival
    BY <1>1, <2>1, <2>7, SelfRival
  <2> QED BY <2>6, <2>8
<1>3. CASE ~Active(eng, r)
  <2>1. eng' = eng /\ rx' = [rx EXCEPT ![r] = "rejecting"]
    BY <1>3 DEF VerifyFails
  <2> QED BY <1>1, <2>1, RequestMade, IdleRival
<1> QED BY <1>2, <1>3

LEMMA SettlesRival ==
  ASSUME Inv, Inv', Owned, NEW r \in Request,
         RejectSaved(r) \/ DeletePieceSettles(r) \/ SaveSettles(r) \/ BroadcastSettles(r)
  PROVE  Owned' /\ Rival
<1>1. rx[r] # "none" /\ r[1] \in Piece /\ eng \in Engine /\ eng' \in Engine
  BY InvFacts, RequestPieceType DEF RejectSaved, DeletePieceSettles, SaveSettles, BroadcastSettles, Inv, Good
<1>2. PICK s \in {"rejectSaving", "done", "rejecting", "announcing"} : rx' = [rx EXCEPT ![r] = s]
  BY DEF RejectSaved, DeletePieceSettles, SaveSettles, BroadcastSettles
<1>3. \A k \in Request : \/ rx'[k] = rx[k]
                         \/ rx'[k] # "saving" /\ k[2] <= eng.issued[k[1]]
  BY <1>1, <1>2, RequestMade
<1>4. CASE Fault /\ (eng' = eng \/ eng' = MarkFailed(eng, r[1]))
  BY <1>1, <1>3, <1>4, FaultRival DEF Fault
<1>5. CASE eng' = eng
  BY <1>3, <1>5, IdleRival
<1>6. CASE eng' = Deleted(eng, r) \/ eng' = CancelCompetingGridRequests(Deleted(eng, r), r)
  <2> DEFINE d == Deleted(eng, r)
  <2>1. d \in Engine /\ d.status = eng.status /\ d.issued = eng.issued /\ d.lease = eng.lease
    BY <1>1, DeletedFields
  <2> HIDE DEF d
  <2>2. eng' = d \/ eng' = CancelCompetingGridRequests(d, r)
    BY <1>6 DEF d
  <2>3. eng'.status = eng.status /\ eng'.issued = eng.issued /\ eng'.lease = eng.lease
    BY <2>1, <2>2, CancelFields
  <2>4. Settled(eng, eng') /\ LostToExpiry(eng, eng')
    BY <2>3 DEF Settled, LostToExpiry
  <2>5. Carried(eng, eng')
    BY <1>1, <2>4, SettledCarried
  <2> QED BY <1>3, <2>4, <2>5, CarriedOwned, ExpiryRival
<1> QED BY <1>4, <1>5, <1>6 DEF RejectSaved, DeletePieceSettles, SaveSettles, BroadcastSettles

LEMMA ResponseRival ==
  ASSUME Inv, Inv', Owned, NEW r \in Request, ResponseSettles(r)
  PROVE  Owned' /\ Rival
<1>1. rx[r] # "none" /\ rx' = [rx EXCEPT ![r] = "done"]
  BY DEF ResponseSettles
<1>2. \A k \in Request : \/ rx'[k] = rx[k]
                         \/ rx'[k] # "saving" /\ k[2] <= eng.issued[k[1]]
  BY <1>1, RequestMade
<1>3. CASE eng' = eng
  BY <1>2, <1>3, IdleRival
<1>4. CASE eng' \in RetryGrid(eng, r[1])
  <2>1. Carried(eng, eng') /\ LostToExpiry(eng, eng')
    BY <1>4, Spent, RetryCarried, RequestPieceType, GridAssumption
  <2> QED BY <1>2, <2>1, CarriedOwned, ExpiryRival
<1> QED BY <1>3, <1>4 DEF ResponseSettles

(* The write ends well: the piece is verified, its lease is given back.     *)
LEMMA WriteRival ==
  ASSUME Inv, Inv', Owned, NEW r \in Request, WritePieceSettles(r)
  PROVE  Owned' /\ Rival
<1>1. rx[r] = "writing" /\ r[1] \in Piece /\ eng \in Engine /\ eng' \in Engine
  BY InvFacts, RequestPieceType DEF WritePieceSettles, Inv, Good
<1>2. CASE Fault /\ eng' = MarkFailed(eng, r[1]) /\ rx' = [rx EXCEPT ![r] = "rejecting"]
  BY <1>1, <1>2, RequestMade, FaultRival DEF Fault
<1>3. CASE eng' = Release([eng EXCEPT !.status[r[1]] = "verified"], r) /\ rx' = [rx EXCEPT ![r] = "saving"]
  <2> DEFINE v == [eng EXCEPT !.status[r[1]] = "verified"]
  <2>1. /\ v \in Engine /\ v.status = [eng.status EXCEPT ![r[1]] = "verified"]
        /\ v.lease = eng.lease /\ v.issued = eng.issued
    BY <1>1 DEF Engine
  <2>2. eng' = Release(v, r)
    BY <1>3
  <2> HIDE DEF v
  <2>3. /\ eng'.status = v.status /\ eng'.issued = v.issued
        /\ \A p \in Piece : eng'.lease[p] = IF p = r[1] /\ v.lease[p] = r THEN NoLease ELSE v.lease[p]
    BY <2>1, <2>2, ReleaseFields
  <2>4. Rival
    <3>1. \A p \in Piece : eng.status[p] = "verified" => eng'.status[p] = "verified"
      BY <1>1, <2>1, <2>3 DEF Engine
    <3> QED BY <3>1 DEF Rival, Verified
  <2>5. rx'[r] = "saving" /\ \A k \in Request \ {r} : rx'[k] = rx[k]
    BY <1>3 DEF Inv, Rest
  <2>6. \A k \in Request : rx'[k] # "none" => k[2] <= eng'.issued[k[1]]
    BY <1>1, <2>1, <2>3, <2>5 DEF Owned
  <2>7. ASSUME NEW p \in Piece, eng'.lease[p] # NoLease PROVE rx'[eng'.lease[p]] # "saving"
    <3>1. eng'.lease[p] = eng.lease[p] /\ ~(p = r[1] /\ eng.lease[p] = r)
      BY <2>1, <2>3, <2>7
    <3>2. eng.lease[p] \in Request /\ eng.lease[p][1] = p
      BY <2>7, <3>1, InvFacts
    <3>3. eng.lease[p] # r
      BY <3>1, <3>2
    <3>4. rx[eng.lease[p]] # "saving"
      BY <2>7, <3>1 DEF Owned
    <3> QED BY <2>5, <3>1, <3>2, <3>3, <3>4
  <2> QED BY <2>4, <2>6, <2>7 DEF Owned
<1> QED BY <1>2, <1>3 DEF WritePieceSettles

LEMMA RivalStep == Inv /\ Inv' /\ Owned /\ [Next]_vars => Owned' /\ Rival
<1> SUFFICES ASSUME Inv, Inv', Owned, [Next]_vars PROVE Owned' /\ Rival
  OBVIOUS
<1>1. CASE UNCHANGED vars
  BY <1>1, IdleRival DEF vars
<1>6. CASE Chunks
  BY <1>6, IdleStepRival, ChunkRival, AsideRival DEF Chunks
<1>2. CASE Driver \/ ProgressTimeout
  BY <1>2, IdleStepRival, SchedulingRival DEF Driver
<1>3. ASSUME NEW q \in Peers, UpdatePeerPieceMap(q) PROVE Owned' /\ Rival
  BY <1>3, IdleStepRival
<1>4. ASSUME NEW r \in Request, LeaseFallsDue(r) \/ Answer(r) \/ ProviderRejects(r) \/ VerifyFails(r)
      PROVE  Owned' /\ Rival
  BY <1>4, IdleStepRival, RejectsRival, VerifyFailsRival
<1>5. ASSUME NEW r \in Request, Pipeline(r) PROVE Owned' /\ Rival
  BY <1>5, IdleStepRival, SettlesRival, WriteRival, ResponseRival DEF Pipeline
<1> QED BY <1>1, <1>2, <1>3, <1>4, <1>5, <1>6 DEF Next

(* receivePiece gives the lease back as it marks the piece, so neither the   *)
(* expiry of leases (expireRequestLeases) nor its own answer can take       *)
(* "verified" from a piece.  A request of the same piece that is still      *)
(* outstanding can; so can the refused chunk of one that is not, for its     *)
(* header stays in pendingChunks (rejectIncomingChunk), and a failing send  *)
(* or storage adapter.                                                      *)
THEOREM RivalsTakeVerified == Spec => VerifiedLostOnlyToRival
<1>1. Init => Inv /\ Owned
  <2>1. Init => Owned
    BY DEF Init, Owned
  <2> QED BY <2>1, InitInv
<1>2. Inv /\ Owned /\ [Next]_vars => (Inv /\ Owned)'
  BY NextInv, RivalStep
<1>3. Inv /\ Owned /\ [Next]_vars =>
        [\A p \in Verified(eng) \ Verified(eng') :
           \/ faults' > faults
           \/ \E r \in OpenFor(eng, p) : rx[r] # "saving"
           \/ \E q \in Peers : pendingChunks[q][1] = p /\ pendingChunks'[q] = NoLease]_vars
  BY NextInv, RivalStep DEF Rival
<1> QED BY <1>1, <1>2, <1>3, PTL DEF Spec, VerifiedLostOnlyToRival

-----------------------------------------------------------------------------
(* No lost wake-up.                                                         *)

(* Verified pieces that no pipeline is going to announce: while the loop     *)
(* sleeps it knows of at least as many.                                     *)
Silent == {p \in Verified(eng) : \A r \in Request : r[1] = p => rx[r] \notin {"saving", "announcing"}}
Announced == driver = "waiting" => Cardinality(Silent) <= seen

LEMMA SilentFinite == IsFiniteSet(Silent) /\ Cardinality(Silent) \in Nat
<1>1. Silent \subseteq Piece
  BY DEF Silent, Verified
<1>2. IsFiniteSet(Silent)
  BY <1>1, PieceFinite, FS_Subset
<1> QED BY <1>2, FS_CardinalityType

LEMMA SilentAmongVerified == Cardinality(Silent) <= Cardinality(Verified(eng))
<1>1. Silent \subseteq Verified(eng) /\ Verified(eng) \subseteq Piece
  BY DEF Silent, Verified
<1>2. IsFiniteSet(Verified(eng))
  BY <1>1, PieceFinite, FS_Subset
<1> QED BY <1>1, <1>2, FS_Subset

(* The loop knows its progress when it falls asleep, and when it is woken.   *)
LEMMA KnownAnnounced ==
  ASSUME Inv, Inv', Cardinality(Verified(eng')) <= seen' \/ driver' # "waiting"
  PROVE  Announced'
<1>1. Cardinality(Silent') <= Cardinality(Verified(eng'))
  <2>1. Silent' \subseteq Verified(eng') /\ Verified(eng') \subseteq Piece
    BY DEF Silent, Verified
  <2>2. IsFiniteSet(Verified(eng'))
    BY <2>1, PieceFinite, FS_Subset
  <2> QED BY <2>1, <2>2, FS_Subset
<1>2. Cardinality(Silent') \in Nat
  <2>1. Silent' \subseteq Piece
    BY DEF Silent, Verified
  <2>2. IsFiniteSet(Silent')
    BY <2>1, PieceFinite, FS_Subset
  <2> QED BY <2>2, FS_CardinalityType
<1>3. Cardinality(Verified(eng')) \in Nat /\ seen' \in Nat
  BY VerifiedCount, Numbers DEF Inv, Rest
<1> QED BY <1>1, <1>2, <1>3 DEF Announced

(* No piece becomes silent, and the loop does not move.                     *)
LEMMA SilentShrinks ==
  ASSUME Inv, Announced, UNCHANGED loopVars,
         \A p \in Piece : eng'.status[p] = "verified" =>
           \/ \E r \in Request : r[1] = p /\ rx'[r] \in {"saving", "announcing"}
           \/ /\ eng.status[p] = "verified"
              /\ \A r \in Request : rx[r] \in {"saving", "announcing"} /\ r[1] = p =>
                                      rx'[r] \in {"saving", "announcing"}
  PROVE  Announced'
<1>1. Silent' \subseteq Silent
  BY DEF Silent, Verified
<1>2. Cardinality(Silent') <= Cardinality(Silent) /\ Cardinality(Silent') \in Nat
      /\ Cardinality(Silent) \in Nat
  <2>1. IsFiniteSet(Silent')
    BY <1>1, SilentFinite, FS_Subset
  <2> QED BY <1>1, <2>1, SilentFinite, FS_Subset, FS_CardinalityType
<1>3. seen \in Nat
  BY Numbers DEF Inv, Rest
<1> QED BY <1>2, <1>3 DEF Announced, loopVars

LEMMA DriverAnnounced ==
  ASSUME Inv, Inv', Announced, Driver \/ ProgressTimeout
  PROVE  Announced'
<1>1. ASSUME NEW e, Waits(e), eng' = e PROVE Announced'
  <2>1. Cardinality(Verified(eng')) <= seen' \/ driver' # "waiting"
    <3>1. Cardinality(Verified(e)) \in Nat /\ seen \in Nat
      BY VerifiedCount, Numbers DEF Inv, Rest
    <3> QED BY <1>1, <3>1 DEF Waits, LoopTurns
  <2> QED BY <2>1, KnownAnnounced
<1>2. CASE driver' # "waiting"
  BY <1>2, KnownAnnounced
<1>3. CASE WindowRequests /\ driver' = "waiting"
  BY <1>1, <1>3 DEF WindowRequests
<1>4. CASE WindowTurns /\ driver' = "waiting"
  BY <1>1, <1>4 DEF WindowTurns
<1>5. CASE WindowSettles \/ ProgressTimeout
  BY <1>2, <1>5 DEF WindowSettles, ProgressTimeout
<1> QED BY <1>2, <1>3, <1>4, <1>5 DEF Driver

(* The answer's pipeline or the world moves, and nothing is verified.       *)
LEMMA QuietAnnounced ==
  ASSUME Inv, Inv', Announced, UNCHANGED loopVars, LostToExpiry(eng, eng'),
         \A r \in Request : rx[r] \in {"saving", "announcing"} => rx'[r] \in {"saving", "announcing"}
  PROVE  Announced'
  BY SilentShrinks DEF LostToExpiry

LEMMA WorldAnnounced ==
  ASSUME Inv, Inv', Announced,
         \/ \E q \in Peers : UpdatePeerPieceMap(q)
         \/ \E q \in Peers : LateFrame(q)
         \/ \E r \in Request : LeaseFallsDue(r) \/ ChunkHeader(r)
  PROVE  Announced'
<1>1. UNCHANGED loopVars /\ rx' = rx /\ eng' = eng
  BY DEF UpdatePeerPieceMap, LateFrame, LeaseFallsDue, ChunkHeader
<1>2. LostToExpiry(eng, eng')
  BY <1>1, InvFacts, StaysCarried
<1> QED BY <1>1, <1>2, QuietAnnounced

(* The failure of a piece verifies none.                                    *)
LEMMA FailedAnnounced ==
  ASSUME Inv, Inv', Announced, UNCHANGED loopVars, NEW r \in Request, NEW e,
         e \in Engine, e.status = eng.status, eng' = MarkFailed(e, r[1]), NEW s,
         rx' = [rx EXCEPT ![r] = s]
  PROVE  Announced'
<1>1. r[1] \in Piece /\ eng \in Engine
  BY RequestPieceType, InvFacts
<1>2. eng'.status = [e.status EXCEPT ![r[1]] = "failed"]
  BY <1>1, MarkFailedFields
<1>3. \A p \in Piece : eng'.status[p] = "verified" => p # r[1] /\ eng.status[p] = "verified"
  BY <1>1, <1>2 DEF Engine
<1>4. \A k \in Request \ {r} : rx'[k] = rx[k]
  BY DEF Inv, Rest
<1> QED BY <1>3, <1>4, SilentShrinks

LEMMA RefusedVerifiesNone ==
  ASSUME Inv, NEW r \in Request
  PROVE  \A p \in Piece : Refused(eng, r).status[p] = "verified" => eng.status[p] = "verified"
<1> DEFINE c == Refused(eng, r)
<1>1. eng \in Engine /\ c.status = [eng.status EXCEPT ![r[1]] = "failed"]
  BY InvFacts, RefusedFields
<1> HIDE DEF c
<1>2. \A p \in Piece : c.status[p] = "verified" => eng.status[p] = "verified"
  BY <1>1, RequestPieceType DEF Engine
<1> QED BY <1>2 DEF c

LEMMA AnswerAnnounced ==
  ASSUME Inv, Inv', Announced, NEW r \in Request,
         \/ Answer(r) \/ VerifyPasses(r) \/ ProviderRejects(r) \/ VerifyFails(r)
         \/ DeletePieceSettles(r) \/ ResponseSettles(r)
  PROVE  Announced'
<1>1. UNCHANGED loopVars /\ eng \in Engine /\ r[1] \in Piece
  BY InvFacts, RequestPieceType
  DEF Answer, VerifyPasses, ProviderRejects, VerifyFails, DeletePieceSettles, ResponseSettles
<1>2. \A k \in Request : rx[k] \in {"saving", "announcing"} => rx'[k] \in {"saving", "announcing"}
  BY DEF Answer, VerifyPasses, ProviderRejects, VerifyFails, DeletePieceSettles, ResponseSettles, Inv, Rest
<1>3. CASE eng' = eng
  <2>1. LostToExpiry(eng, eng')
    BY <1>1, <1>3, StaysCarried
  <2> QED BY <1>1, <1>2, <2>1, QuietAnnounced
<1>4. CASE ResponseSettles(r) /\ eng' \in RetryGrid(eng, r[1])
  <2>1. LostToExpiry(eng, eng')
    BY <1>1, <1>4, Spent, RetryCarried, GridAssumption
  <2> QED BY <1>1, <1>2, <2>1, QuietAnnounced
<1>5. CASE VerifyFails(r) /\ eng' = MarkFailed(Release(eng, r), r[1])
  <2> DEFINE a == Release(eng, r)
  <2>1. a \in Engine /\ a.status = eng.status /\ eng' = MarkFailed(a, r[1])
    BY <1>1, <1>5, ReleaseFields
  <2> HIDE DEF a
  <2>2. eng'.status = [a.status EXCEPT ![r[1]] = "failed"]
    BY <1>1, <2>1, MarkFailedFields
  <2>3. \A p \in Piece : eng'.status[p] = "verified" => eng.status[p] = "verified"
    BY <1>1, <2>1, <2>2 DEF Engine
  <2> QED BY <1>1, <1>2, <2>3, SilentShrinks
<1>6. CASE DeletePieceSettles(r) /\ eng' = MarkFailed(eng, r[1])
  <2>1. eng'.status = [eng.status EXCEPT ![r[1]] = "failed"]
    BY <1>1, <1>6, MarkFailedFields
  <2>2. \A p \in Piece : eng'.status[p] = "verified" => eng.status[p] = "verified"
    BY <1>1, <2>1 DEF Engine
  <2> QED BY <1>1, <1>2, <2>2, SilentShrinks
<1>7. CASE ProviderRejects(r)
  <2> DEFINE c == Refused(eng, r)
             n == trouble' + faults'
  <2>1. eng' \in Retry(c, r, r \notin eng.plain) /\ (r \notin eng.plain) \in BOOLEAN /\ Troubled
    BY <1>7 DEF ProviderRejects
  <2>2. Good(c, due, n) /\ n \in Budget
    BY <2>1, RefusedGood, Counts
  <2>3. \A p \in Piece : c.status[p] = "verified" => eng.status[p] = "verified"
    BY RefusedVerifiesNone
  <2> HIDE DEF c, n
  <2>4. LostToExpiry(c, eng')
    BY <2>1, <2>2, Spent, RetryAllCarried
  <2>5. \A p \in Piece : eng'.status[p] = "verified" => eng.status[p] = "verified"
    BY <2>3, <2>4 DEF LostToExpiry
  <2> QED BY <1>1, <1>2, <2>5, SilentShrinks
<1> QED BY <1>3, <1>4, <1>5, <1>6, <1>7
    DEF Answer, VerifyPasses, VerifyFails, DeletePieceSettles, ResponseSettles

(* A refused chunk fails a piece; its answer is sent, and the piece is asked *)
(* for again.                                                               *)
LEMMA ChunkAnnounced ==
  ASSUME Inv, Inv', Announced, NEW r \in Request, RejectIncomingChunk(r)
  PROVE  Announced'
<1>1. UNCHANGED loopVars /\ rx' = rx /\ eng' = Refused(eng, r)
  BY DEF RejectIncomingChunk
<1>2. \A p \in Piece : eng'.status[p] = "verified" => eng.status[p] = "verified"
  BY <1>1, RefusedVerifiesNone
<1> QED BY <1>1, <1>2, SilentShrinks

LEMMA AsideAnnounced ==
  ASSUME Inv, Inv', Announced, NEW r \in Request, NEW await,
         RefusalSettles(r, await) \/ AskSettles(r)
  PROVE  Announced'
<1>1. rx' = rx /\ eng \in Engine /\ r[1] \in Piece
  BY InvFacts, RequestPieceType DEF RefusalSettles, AskSettles
<1>2. CASE UNCHANGED loopVars /\ eng' = eng
  <2>1. LostToExpiry(eng, eng')
    BY <1>1, <1>2, StaysCarried
  <2> QED BY <1>1, <1>2, <2>1, QuietAnnounced
<1>3. CASE UNCHANGED loopVars /\ eng' = MarkFailed(eng, r[1])
  <2>1. eng'.status = [eng.status EXCEPT ![r[1]] = "failed"]
    BY <1>1, <1>3, MarkFailedFields
  <2>2. \A p \in Piece : eng'.status[p] = "verified" => eng.status[p] = "verified"
    BY <1>1, <2>1 DEF Engine
  <2> QED BY <1>1, <1>3, <2>2, SilentShrinks
<1>4. CASE WakesDriver(eng) /\ eng' \in Retry(eng, r, await = "refusing" /\ r \notin eng.plain)
  <2>1. CASE driver = "waiting" /\ Cardinality(Verified(eng)) > seen
    BY <1>4, <2>1, KnownAnnounced DEF WakesDriver, LoopTurns
  <2>2. CASE ~(driver = "waiting" /\ Cardinality(Verified(eng)) > seen)
    <3>1. UNCHANGED loopVars
      BY <1>4, <2>2 DEF WakesDriver
    <3>2. (await = "refusing" /\ r \notin eng.plain) \in BOOLEAN
      OBVIOUS
    <3>3. LostToExpiry(eng, eng')
      BY <1>4, <3>2, Spent, RetryAllCarried
    <3> QED BY <1>1, <3>1, <3>3, QuietAnnounced
  <2> QED BY <2>1, <2>2
<1> QED BY <1>2, <1>3, <1>4 DEF RefusalSettles, AskSettles

LEMMA WriteAnnounced ==
  ASSUME Inv, Inv', Announced, NEW r \in Request, WritePieceSettles(r)
  PROVE  Announced'
<1>1. UNCHANGED loopVars /\ rx[r] = "writing" /\ r[1] \in Piece /\ eng \in Engine
  BY InvFacts, RequestPieceType DEF WritePieceSettles
<1>2. CASE eng' = MarkFailed(eng, r[1]) /\ rx' = [rx EXCEPT ![r] = "rejecting"]
  BY <1>1, <1>2, FailedAnnounced
<1>3. CASE eng' = Release([eng EXCEPT !.status[r[1]] = "verified"], r) /\ rx' = [rx EXCEPT ![r] = "saving"]
  <2> DEFINE v == [eng EXCEPT !.status[r[1]] = "verified"]
  <2>1. v \in Engine /\ v.status = [eng.status EXCEPT ![r[1]] = "verified"]
    BY <1>1 DEF Engine
  <2>2. eng' = Release(v, r)
    BY <1>3
  <2> HIDE DEF v
  <2>3. eng'.status = v.status
    BY <2>1, <2>2, ReleaseFields
  <2>4. rx'[r] = "saving" /\ \A k \in Request \ {r} : rx'[k] = rx[k]
    BY <1>3 DEF Inv, Rest
  <2>5. \A p \in Piece \ {r[1]} : eng'.status[p] = eng.status[p]
    BY <1>1, <2>1, <2>3 DEF Engine
  <2> QED BY <1>1, <2>4, <2>5, SilentShrinks
<1> QED BY <1>2, <1>3 DEF WritePieceSettles

LEMMA SavedAnnounced ==
  ASSUME Inv, Inv', Announced, NEW r \in Request,
         RejectSaved(r) \/ SaveSettles(r) \/ BroadcastSettles(r)
  PROVE  Announced'
<1>1. r[1] \in Piece /\ eng \in Engine
  BY InvFacts, RequestPieceType
<1>2. ASSUME NEW s, eng' = MarkFailed(eng, r[1]), UNCHANGED loopVars, rx' = [rx EXCEPT ![r] = s]
      PROVE  Announced'
  BY <1>1, <1>2, FailedAnnounced
<1>3. CASE SaveSettles(r) /\ eng' = CancelCompetingGridRequests(Deleted(eng, r), r)
           /\ rx' = [rx EXCEPT ![r] = "announcing"]
  <2> DEFINE d == Deleted(eng, r)
  <2>1. d \in Engine /\ d.status = eng.status
    BY <1>1, DeletedFields
  <2> HIDE DEF d
  <2>2. eng'.status = eng.status
    BY <1>3, <2>1, CancelFields DEF d
  <2>3. rx'[r] = "announcing" /\ \A k \in Request \ {r} : rx'[k] = rx[k]
    BY <1>3 DEF Inv, Rest
  <2>4. UNCHANGED loopVars
    BY <1>3 DEF SaveSettles
  <2> QED BY <2>2, <2>3, <2>4, SilentShrinks
<1>4. CASE WakesDriver(eng') /\ rx[r] \in {"rejectSaving", "announcing"} /\ eng'.status = eng.status
  <2>1. CASE driver = "waiting" /\ Cardinality(Verified(eng')) > seen
    BY <1>4, <2>1, KnownAnnounced DEF WakesDriver, LoopTurns
  <2>2. CASE ~(driver = "waiting" /\ Cardinality(Verified(eng')) > seen)
    <3>1. UNCHANGED loopVars
      BY <1>4, <2>2 DEF WakesDriver
    <3>2. Cardinality(Verified(eng')) \in Nat /\ seen \in Nat
      BY VerifiedCount, Numbers DEF Inv, Rest
    <3> QED BY <2>2, <3>1, <3>2, KnownAnnounced DEF loopVars
  <2> QED BY <2>1, <2>2
<1>5. CASE RejectSaved(r)
  <2>1. eng'.status = eng.status
    BY <1>1, <1>5, DeletedFields DEF RejectSaved
  <2> QED BY <1>4, <1>5, <2>1 DEF RejectSaved
<1> QED BY <1>2, <1>3, <1>4, <1>5 DEF SaveSettles, BroadcastSettles

LEMMA PendingType == Inv => pendingChunks \in [Peers -> Request \cup {NoLease}]
  BY DEF Inv, Rest

LEMMA AnnouncedStep == Inv /\ Inv' /\ Announced /\ [Next]_vars => Announced'
<1> SUFFICES ASSUME Inv, Inv', Announced, [Next]_vars PROVE Announced'
  OBVIOUS
<1>1. CASE UNCHANGED vars
  BY <1>1 DEF vars, loopVars, Announced, Silent, Verified
<1>6. CASE Chunks
  BY <1>6, WorldAnnounced, ChunkAnnounced, AsideAnnounced, PendingType
  DEF Chunks, StrayHeader, MalformedFrame
<1>2. CASE Driver \/ ProgressTimeout
  BY <1>2, DriverAnnounced
<1>3. ASSUME NEW q \in Peers, UpdatePeerPieceMap(q) PROVE Announced'
  BY <1>3, WorldAnnounced
<1>4. ASSUME NEW r \in Request, LeaseFallsDue(r) \/ Answer(r) \/ ProviderRejects(r) \/ VerifyFails(r)
      PROVE  Announced'
  BY <1>4, WorldAnnounced, AnswerAnnounced
<1>5. ASSUME NEW r \in Request, Pipeline(r) PROVE Announced'
  BY <1>5, AnswerAnnounced, WriteAnnounced, SavedAnnounced DEF Pipeline
<1> QED BY <1>1, <1>2, <1>3, <1>4, <1>5, <1>6 DEF Next

(* waitForProgress compares with the current progress before it sleeps, and  *)
(* every pipeline that verifies a piece emits `progress` after the save and  *)
(* the broadcast or un-verifies it: no verification is slept through.       *)
THEOREM NoLostWakeUp == Spec => []ProgressIsAnnounced
<1>1. Init => Inv /\ Announced
  <2>1. Init => Announced
    BY DEF Init, Announced
  <2> QED BY <2>1, InitInv
<1>2. Inv /\ Announced /\ [Next]_vars => (Inv /\ Announced)'
  BY NextInv, AnnouncedStep
<1>3. Inv /\ Announced => ProgressIsAnnounced
  <2> SUFFICES ASSUME Inv, Announced, driver = "waiting", Cardinality(Verified(eng)) > seen
               PROVE  \E r \in Request : rx[r] \in {"saving", "announcing"}
    BY DEF ProgressIsAnnounced
  <2>1. Cardinality(Silent) <= seen /\ Cardinality(Silent) \in Nat /\ seen \in Nat
        /\ Cardinality(Verified(eng)) \in Nat
    BY SilentFinite, VerifiedCount, Numbers DEF Announced, Inv, Rest
  <2>2. Silent # Verified(eng)
    BY <2>1
  <2> QED BY <2>2 DEF Silent
<1> QED BY <1>1, <1>2, <1>3, PTL DEF Spec

-----------------------------------------------------------------------------
(* Claims end with their requests.                                          *)

(* A request is outstanding or cancelled, not both, and a lease belongs to   *)
(* one that is either.                                                      *)
Tidy(e) ==
  /\ \A r \in e.open : r \notin e.tomb
  /\ \A r \in e.tomb : r[2] <= e.issued[r[1]]
  /\ \A p \in Piece : e.lease[p] # NoLease => e.lease[p] \in e.open \cup e.tomb

OnlyNew(e, f) == \A r \in f.open : r \in e.open \/ e.issued[r[1]] < r[2]

(* The requests whose answer failed have lost their lease, and no request    *)
(* whose answer is dealt with is outstanding, unless an adapter failed.     *)
Freed ==
  /\ Tidy(eng)
  /\ \A r \in Request : rx[r] \in {"deleting", "rejectSaving"} => \A p \in Piece : eng.lease[p] # r
  /\ faults = 0 => \A r \in eng.open : rx[r] \notin {"rejecting", "announcing", "done"}

LEMMA FewerLeasesTidy ==
  ASSUME NEW e, NEW f, Tidy(e), Settled(e, f), f.open = e.open, f.tomb = e.tomb
  PROVE  Tidy(f) /\ OnlyNew(e, f)
  BY DEF Tidy, Settled, OnlyNew

LEMMA DeletedTidy ==
  ASSUME NEW e \in Engine, Tidy(e), NEW r, \A p \in Piece : e.lease[p] # r
  PROVE  Tidy(Deleted(e, r)) /\ OnlyNew(e, Deleted(e, r))
<1> DEFINE f == Deleted(e, r)
<1>1. f.open = e.open \ {r} /\ f.issued = e.issued /\ f.lease = e.lease /\ f.tomb = e.tomb /\ f.plain = e.plain
  BY DeletedFields
<1> HIDE DEF f
<1>2. Tidy(f) /\ OnlyNew(e, f)
  BY <1>1 DEF Tidy, OnlyNew
<1> QED BY <1>2 DEF f

LEMMA CancelTidy ==
  ASSUME NEW n, NEW e, Good(e, due, n), Tidy(e), NEW r
  PROVE  LET f == CancelCompetingGridRequests(e, r)
         IN  Tidy(f) /\ OnlyNew(e, f) /\ f.open \subseteq e.open
<1> DEFINE rivals == Rivals(e, r)
           f == CancelCompetingGridRequests(e, r)
<1>1. e \in Engine /\ rivals \subseteq e.open /\ \A k \in e.open : k[2] <= e.issued[k[1]]
  BY DEF Rivals, OpenFor, Good, Numbered
<1>2. f.issued = e.issued /\ f.lease = e.lease
      /\ f.open = e.open \ rivals /\ f.tomb = e.tomb \cup rivals
  BY <1>1, CancelFields
<1> HIDE DEF f, rivals
<1>3. Tidy(f) /\ OnlyNew(e, f) /\ f.open \subseteq e.open
  BY <1>1, <1>2 DEF Tidy, OnlyNew
<1> QED BY <1>3 DEF f

LEMMA ExpireTidy ==
  ASSUME NEW e \in Engine, Tidy(e), \A p \in Piece : e.lease[p] # NoLease => e.lease[p][1] = p
  PROVE  Tidy(ExpireRequestLeases(e)) /\ OnlyNew(e, ExpireRequestLeases(e))
<1> DEFINE timedOut == {p \in Piece : e.lease[p] \in due \cap e.open}
           f == ExpireRequestLeases(e)
<1>1. /\ f \in Engine
      /\ f.lease = [p \in Piece |-> IF e.lease[p] \in due THEN NoLease ELSE e.lease[p]]
      /\ f.open = e.open \ {e.lease[p] : p \in timedOut}
      /\ f.status = [p \in Piece |-> IF p \in timedOut THEN "missing" ELSE e.status[p]]
      /\ f.retries = [p \in Piece |-> IF p \in timedOut THEN e.retries[p] + 1 ELSE e.retries[p]]
      /\ f.issued = e.issued /\ f.peer = e.peer /\ f.tomb = e.tomb /\ f.plain = e.plain
  BY ExpireFields
<1> HIDE DEF f
<1>2. ASSUME NEW p \in Piece, f.lease[p] # NoLease PROVE f.lease[p] \in f.open \cup f.tomb
  <2>1. f.lease[p] = e.lease[p] /\ e.lease[p] \notin due
    BY <1>1, <1>2
  <2>2. \A o \in timedOut : e.lease[o] # e.lease[p]
    BY <2>1
  <2> QED BY <1>1, <1>2, <2>1, <2>2 DEF Tidy
<1>3. Tidy(f) /\ OnlyNew(e, f)
  BY <1>1, <1>2 DEF Tidy, OnlyNew
<1> QED BY <1>3 DEF f

LEMMA IssueTidy ==
  ASSUME NEW n \in Budget, NEW e, Good(e, due, n), due \subseteq Request, Tidy(e),
         NEW p \in Missing(e), NEW q \in Peers, NEW leased \in BOOLEAN
  PROVE  Tidy(Issue(e, p, q, leased)) /\ OnlyNew(e, Issue(e, p, q, leased))
<1> DEFINE r == <<p, e.issued[p] + 1>>
           f == Issue(e, p, q, leased)
<1>1. p \in Piece /\ e.issued[p] <= e.retries[p] /\ e.issued[p] \in Nat /\ e.retries[p] \in Nat
      /\ e.retries[p] <= n /\ e \in Engine
  BY DEF Missing, Good, Paid, Engine
<1>2. e.issued[p] + 1 \in 1..MaxTrouble + MaxFaults + 1
  BY <1>1, Numbers DEF Budget
<1>3. r \in Request /\ r[1] = p /\ r[2] = e.issued[p] + 1
  BY <1>1, <1>2 DEF Request
<1>4. /\ f.open = e.open \cup {r} /\ f.tomb = e.tomb /\ f.plain = e.plain
      /\ f.issued = [e.issued EXCEPT ![p] = e.issued[p] + 1]
      /\ f.lease = [e.lease EXCEPT ![p] = IF leased THEN r ELSE e.lease[p]]
  <2>1. e \in Engine /\ r = <<p, e.issued[p] + 1>>
    BY <1>1
  <2> HIDE DEF r, f
  <2>2. LET h == Issue(e, p, q, leased) IN
        /\ h \in Engine
        /\ h.status = [e.status EXCEPT ![p] = "requested"]
        /\ h.open = e.open \cup {r}
        /\ h.issued = [e.issued EXCEPT ![p] = e.issued[p] + 1]
        /\ h.peer = [e.peer EXCEPT ![r] = q]
        /\ h.lease = [e.lease EXCEPT ![p] = IF leased THEN r ELSE e.lease[p]]
        /\ h.retries = e.retries /\ h.tomb = e.tomb /\ h.plain = e.plain
    BY <1>1, <1>3, <2>1, IssueFields, SMTT(60)
  <2> QED BY <2>2 DEF f
<1> HIDE DEF f, r
<1>5. \A o \in Piece : /\ f.issued[o] = IF o = p THEN e.issued[p] + 1 ELSE e.issued[o]
                       /\ e.issued[o] \in Nat
                       /\ f.lease[o] = IF o = p /\ leased THEN r ELSE e.lease[o]
  BY <1>1, <1>4 DEF Engine
<1>6. r \notin e.tomb
  BY <1>1, <1>3 DEF Tidy
<1>7. ASSUME NEW s \in e.tomb PROVE s[2] <= f.issued[s[1]]
  <2>1. s[1] \in Piece /\ s[2] \in Nat /\ s[2] <= e.issued[s[1]]
    BY <1>1 DEF Tidy, Engine, Request
  <2> QED BY <1>5, <2>1
<1>8. Tidy(f)
  BY <1>4, <1>5, <1>6, <1>7 DEF Tidy
<1>9. OnlyNew(e, f)
  BY <1>1, <1>3, <1>4 DEF OnlyNew
<1> QED BY <1>8, <1>9 DEF f

LEMMA ScheduledTidy ==
  ASSUME NEW n \in Budget, NEW e0, Good(e0, due, n), due \subseteq Request, Tidy(e0),
         NEW o \in RequestNextGridPiece(e0) \cup MaybeScheduleEndgamePiece(e0)
  PROVE  Tidy(o.eng) /\ OnlyNew(e0, o.eng)
<1> DEFINE e == ExpireRequestLeases(e0)
<1>1. e0 \in Engine /\ n \in Nat
  BY Numbers DEF Good, Budget
<1>2. Good(e, due, n) /\ e.issued = e0.issued
  BY <1>1, ExpireGood, ExpireSettled, NoLeaseIsNoRequest DEF Settled
<1>3. Tidy(e) /\ OnlyNew(e0, e)
  BY <1>1, ExpireTidy DEF Good, Numbered
<1>4. CASE o.eng = e0
  BY <1>4 DEF OnlyNew
<1>5. CASE o.eng = e
  BY <1>3, <1>5
<1>6. ASSUME NEW p \in Missing(e0), NEW q \in Peers, NEW leased \in BOOLEAN,
             o.eng = Issue(e, p, q, leased)
      PROVE  Tidy(o.eng) /\ OnlyNew(e0, o.eng)
  <2>1. p \in Missing(e)
    BY <1>1, ExpireMissing
  <2> HIDE DEF e
  <2>2. Tidy(Issue(e, p, q, leased)) /\ OnlyNew(e, Issue(e, p, q, leased))
    BY <1>2, <1>3, <2>1, IssueTidy
  <2>3. OnlyNew(e, o.eng) /\ Tidy(o.eng)
    BY <1>6, <2>2
  <2>4. OnlyNew(e0, o.eng)
    BY <1>2, <1>3, <2>3 DEF OnlyNew
  <2> QED BY <2>3, <2>4
<1> QED BY <1>1, <1>4, <1>5, <1>6, Scheduled

LEMMA AskTidy ==
  ASSUME NEW n \in Budget, NEW e, Good(e, due, n), due \subseteq Request, Tidy(e), NEW q \in Peers
  PROVE  Tidy(RequestNextPiece(e, q)) /\ OnlyNew(e, RequestNextPiece(e, q))
<1> DEFINE g == RequestNextPiece(e, q)
<1>1. e \in Engine
  BY DEF Good
<1>2. CASE g = e
  BY <1>2 DEF OnlyNew
<1>3. ASSUME NEW p \in Missing(e), NEW r \in Request, Asks(e, g, p, r, q, n)
      PROVE  Tidy(g) /\ OnlyNew(e, g)
  <2> HIDE DEF g
  <2>1. /\ p \in Piece /\ r[1] = p /\ r[2] = e.issued[p] + 1
        /\ g.open = e.open \cup {r} /\ g.lease = e.lease /\ g.tomb = e.tomb
    BY <1>3 DEF Asks, Missing
  <2>2. \A o \in Piece : /\ g.issued[o] = IF o = p THEN e.issued[p] + 1 ELSE e.issued[o]
                         /\ e.issued[o] \in Nat
    BY <1>1, <1>3, <2>1 DEF Asks, Engine
  <2>3. r \notin e.tomb
    BY <2>1, <2>2 DEF Tidy
  <2>4. ASSUME NEW s \in e.tomb PROVE s[2] <= g.issued[s[1]]
    <3>1. s[1] \in Piece /\ s[2] \in Nat /\ s[2] <= e.issued[s[1]]
      BY <1>1 DEF Tidy, Engine, Request
    <3> QED BY <2>2, <3>1
  <2>5. Tidy(g)
    BY <2>1, <2>3, <2>4 DEF Tidy
  <2>6. OnlyNew(e, g)
    BY <2>1, <2>2 DEF OnlyNew
  <2> QED BY <2>5, <2>6
<1> HIDE DEF g
<1>4. g = e \/ \E p \in Missing(e), r \in Request : Asks(e, g, p, r, q, n)
  BY AskFacts DEF g
<1> QED BY <1>2, <1>3, <1>4 DEF g

LEMMA RetryTidy ==
  ASSUME NEW n \in Budget, NEW e, Good(e, due, n), due \subseteq Request, Tidy(e), NEW p \in Piece,
         NEW q \in Peers, NEW f \in RetryGrid(e, p) \cup RetryPlain(e, p, q)
  PROVE  Tidy(f) /\ OnlyNew(e, f)
<1> DEFINE g == ResetFailedToMissing(e, p)
<1>1. n \in Nat
  BY Numbers DEF Budget
<1>2. /\ Good(g, due, n) /\ g.issued = e.issued /\ g.lease = e.lease /\ g.open = e.open
      /\ g.tomb = e.tomb
  BY <1>1, ResetGood
<1>3. f = e \/ f \in Again(g, q)
  BY RetryCases
<1> HIDE DEF g
<1>4. CASE f = e
  BY <1>4 DEF OnlyNew
<1>5. CASE f \in Again(g, q)
  <2>1. Tidy(g)
    BY <1>2 DEF Tidy
  <2>2. ASSUME f = RequestNextPiece(g, q)
        PROVE  Tidy(f) /\ OnlyNew(g, f)
    BY <1>2, <2>1, <2>2, AskTidy
  <2>3. ASSUME NEW o \in RequestNextGridPiece(g), f = o.eng
        PROVE  Tidy(f) /\ OnlyNew(g, f)
    BY <1>2, <2>1, <2>3, ScheduledTidy
  <2>4. Tidy(f) /\ OnlyNew(g, f)
    BY <1>5, <2>2, <2>3 DEF Again
  <2> QED BY <1>2, <2>4 DEF OnlyNew
<1> QED BY <1>3, <1>4, <1>5

LEMMA RetryAllTidy ==
  ASSUME NEW n \in Budget, NEW e, Good(e, due, n), due \subseteq Request, Tidy(e),
         NEW r \in Request, NEW b \in BOOLEAN, NEW f \in Retry(e, r, b)
  PROVE  Tidy(f) /\ OnlyNew(e, f)
<1>1. /\ e.peer[r] \in Peers /\ r[1] \in Piece
      /\ f \in RetryGrid(e, r[1]) \cup RetryPlain(e, r[1], e.peer[r])
  BY RetryEither DEF Good
<1> QED BY <1>1, RetryTidy

(* A refused request takes its lease along.                                 *)
LEMMA RefusedTidy ==
  ASSUME Inv, Tidy(eng), NEW r \in Request, NEW f, f = Refused(eng, r)
  PROVE  Tidy(f) /\ OnlyNew(eng, f) /\ f.issued = eng.issued
<1>1. eng \in Engine
  BY InvFacts
<1>2. /\ f \in Engine /\ f.status = [eng.status EXCEPT ![r[1]] = "failed"]
      /\ f.open = eng.open \ {r} /\ f.issued = eng.issued /\ f.tomb = eng.tomb
      /\ \A p \in Piece : f.lease[p] = IF p = r[1] /\ eng.lease[p] = r THEN NoLease ELSE eng.lease[p]
  BY <1>1, RefusedFields
<1>3. ASSUME NEW p \in Piece, f.lease[p] # NoLease
      PROVE  f.lease[p] \in f.open \cup f.tomb
  <2>1. f.lease[p] = eng.lease[p] /\ ~(p = r[1] /\ eng.lease[p] = r)
    BY <1>2, <1>3
  <2>2. eng.lease[p][1] = p /\ eng.lease[p] \in eng.open \cup eng.tomb
    BY <1>3, <2>1, InvFacts DEF Tidy
  <2> QED BY <1>2, <2>1, <2>2
<1> QED BY <1>2, <1>3 DEF Tidy, OnlyNew

(* How a step may move the pipelines: a request whose answer failed has      *)
(* lost its lease, one that is dealt with is not outstanding.               *)
Moves ==
  \A r \in Request :
    \/ rx'[r] = rx[r]
    \/ /\ r[2] <= eng.issued[r[1]]
       /\ rx'[r] \in {"deleting", "rejectSaving"} => \A p \in Piece : eng'.lease[p] # r
       /\ rx'[r] \in {"rejecting", "announcing", "done"} /\ faults' = 0 => r \notin eng'.open

LEMMA FreedStep ==
  ASSUME Inv, Inv', Owned, Freed, Carried(eng, eng'), Tidy(eng'), OnlyNew(eng, eng'), Moves,
         Smooth \/ Troubled \/ Fault \/ LateFault
  PROVE  Freed'
<1>1. /\ \A p \in Piece : eng.issued[p] \in Nat
      /\ eng' \in Engine
      /\ \A p \in Piece : eng'.lease[p] # NoLease => eng'.lease[p][1] = p
  BY DEF Inv, Good, Engine, Numbered
<1>2. ASSUME NEW r \in Request, rx[r] # "none"
      PROVE  r[1] \in Piece /\ r[2] \in Nat /\ r[2] <= eng.issued[r[1]]
  BY <1>2 DEF Owned, Request
<1>3. ASSUME NEW r \in Request, rx'[r] \in {"deleting", "rejectSaving"}, NEW p \in Piece
      PROVE  eng'.lease[p] # r
  <2>1. CASE rx'[r] = rx[r]
    <3>1. eng.lease[p] # r /\ r # NoLease
      BY <1>3, <2>1, NoLeaseIsNoRequest DEF Freed
    <3>2. r[2] <= eng.issued[r[1]] /\ r[1] \in Piece /\ r[2] \in Nat
      BY <1>2, <1>3, <2>1
    <3>3. eng'.lease[p] = r => r[1] = p
      BY <1>1, <3>1
    <3>4. eng'.lease[p] \in {NoLease, eng.lease[p]} \/ eng.issued[p] < eng'.lease[p][2]
      BY DEF Carried
    <3> QED BY <1>1, <3>1, <3>2, <3>3, <3>4
  <2>2. CASE rx'[r] # rx[r]
    BY <1>3, <2>2 DEF Moves
  <2> QED BY <2>1, <2>2
<1>4. ASSUME faults' = 0, NEW r \in eng'.open, rx'[r] \in {"rejecting", "announcing", "done"}
      PROVE  FALSE
  <2>1. r \in Request
    BY <1>1 DEF Engine
  <2>2. faults = 0
    BY <1>4, Numbers DEF Smooth, Troubled, Fault, LateFault, Inv, Rest
  <2>3. rx'[r] = rx[r]
    BY <1>4, <2>1 DEF Moves
  <2>4. r \notin eng.open
    BY <1>4, <2>2, <2>3 DEF Freed
  <2>5. eng.issued[r[1]] < r[2]
    BY <2>4 DEF OnlyNew
  <2>6. r[1] \in Piece /\ r[2] \in Nat /\ r[2] <= eng.issued[r[1]]
    BY <1>2, <1>4, <2>1, <2>3
  <2> QED BY <1>1, <2>5, <2>6
<1> QED BY <1>3, <1>4 DEF Freed

(* Only the pipeline of r moves.                                            *)
LEMMA OneMoves ==
  ASSUME Inv, Owned, NEW r \in Request, NEW s, rx' = [rx EXCEPT ![r] = s],
         rx[r] # "none" \/ r \in eng.open,
         s \in {"deleting", "rejectSaving"} => \A p \in Piece : eng'.lease[p] # r,
         s \in {"rejecting", "announcing", "done"} /\ faults' = 0 => r \notin eng'.open
  PROVE  Moves
<1>1. r[2] <= eng.issued[r[1]]
  BY InvFacts DEF Owned
<1>2. rx'[r] = s /\ \A k \in Request \ {r} : rx'[k] = rx[k]
  BY DEF Inv, Rest
<1> QED BY <1>1, <1>2 DEF Moves

LEMMA SameTidy ==
  ASSUME Freed, Inv, eng' = eng
  PROVE  Carried(eng, eng') /\ Tidy(eng') /\ OnlyNew(eng, eng')
  BY InvFacts, StaysCarried DEF Freed, OnlyNew

LEMMA IdleFreed ==
  ASSUME Inv, Inv', Owned, Freed,
         \/ \E q \in Peers : UpdatePeerPieceMap(q)
         \/ \E q \in Peers : LateFrame(q)
         \/ \E r \in Request : LeaseFallsDue(r) \/ Answer(r) \/ ChunkHeader(r) \/ VerifyPasses(r)
         \/ WindowSettles \/ ProgressTimeout
  PROVE  Freed'
<1>1. eng' = eng /\ (Smooth \/ Troubled \/ Fault)
  BY DEF UpdatePeerPieceMap, LateFrame, LeaseFallsDue, Answer, ChunkHeader, VerifyPasses, WindowSettles, ProgressTimeout
<1>2. CASE rx' = rx
  BY <1>1, <1>2, SameTidy, FreedStep DEF Moves
<1>3. ASSUME NEW r \in Request, Answer(r) PROVE Freed'
  <2>1. r \in eng.open /\ rx' = [rx EXCEPT ![r] = "verifying"]
    BY <1>3 DEF Answer, Active
  <2>2. Moves
    BY <2>1, OneMoves
  <2> QED BY <1>1, <2>2, SameTidy, FreedStep
<1>4. ASSUME NEW r \in Request, VerifyPasses(r) PROVE Freed'
  <2> DEFINE s == IF Active(eng, r) THEN "writing" ELSE "rejecting"
  <2>1. rx[r] # "none" /\ rx' = [rx EXCEPT ![r] = s]
    BY <1>4 DEF VerifyPasses
  <2>2. s = "rejecting" => r \notin eng.open
    BY DEF Active, Freed, Tidy
  <2>3. s \in {"writing", "rejecting"}
    OBVIOUS
  <2> HIDE DEF s
  <2>4. Moves
    BY <1>1, <2>1, <2>2, <2>3, OneMoves
  <2> QED BY <1>1, <2>4, SameTidy, FreedStep
<1> QED BY <1>2, <1>3, <1>4
    DEF UpdatePeerPieceMap, LateFrame, LeaseFallsDue, ChunkHeader, WindowSettles, ProgressTimeout

LEMMA SchedulingFreed ==
  ASSUME Inv, Inv', Owned, Freed, WindowTurns \/ WindowRequests
  PROVE  Freed'
<1>1. Carried(eng, eng') /\ Tidy(eng') /\ OnlyNew(eng, eng')
  <2>1. CASE eng' = eng
    BY <2>1, SameTidy
  <2>2. ASSUME NEW o \in RequestNextGridPiece(eng) \cup MaybeScheduleEndgamePiece(eng), eng' = o.eng
        PROVE  Carried(eng, eng') /\ Tidy(eng') /\ OnlyNew(eng, eng')
    BY <2>2, Spent, ScheduledCarried, ScheduledTidy DEF Freed
  <2> QED BY <2>1, <2>2 DEF WindowTurns, WindowRequests
<1>2. rx' = rx /\ Smooth
  BY DEF WindowTurns, WindowRequests
<1> QED BY <1>1, <1>2, FreedStep DEF Moves

LEMMA RejectsFreed ==
  ASSUME Inv, Inv', Owned, Freed, NEW r \in Request, ProviderRejects(r)
  PROVE  Freed'
<1> DEFINE c == Refused(eng, r)
           n == trouble' + faults'
<1>1. rx' = rx /\ eng' \in Retry(c, r, r \notin eng.plain) /\ (r \notin eng.plain) \in BOOLEAN /\ Troubled
  BY DEF ProviderRejects
<1>2. /\ Tidy(c) /\ OnlyNew(eng, c) /\ c.issued = eng.issued /\ Settled(eng, c)
      /\ c.open \subseteq eng.open
  BY RefusedTidy, RefusedSettled DEF Freed
<1>3. Good(c, due, n) /\ n \in Budget
  BY <1>1, RefusedGood, Counts
<1> HIDE DEF c, n
<1>4. Tidy(eng') /\ OnlyNew(c, eng') /\ Carried(c, eng')
  BY <1>1, <1>2, <1>3, Spent, RetryAllTidy, RetryAllCarried
<1>5. Carried(eng, eng') /\ OnlyNew(eng, eng')
  BY <1>2, <1>4, SettledThenCarried DEF OnlyNew
<1> QED BY <1>1, <1>4, <1>5, FreedStep DEF Moves

LEMMA ChunkFreed ==
  ASSUME Inv, Inv', Owned, Freed, NEW r \in Request, RejectIncomingChunk(r)
  PROVE  Freed'
<1>1. eng' = Refused(eng, r) /\ rx' = rx /\ Troubled
  BY DEF RejectIncomingChunk
<1>2. Tidy(eng') /\ OnlyNew(eng, eng') /\ Carried(eng, eng')
  BY <1>1, RefusedTidy, RefusedSettled DEF Freed
<1> QED BY <1>1, <1>2, FreedStep DEF Moves

LEMMA AsideFreed ==
  ASSUME Inv, Inv', Owned, Freed, NEW r \in Request, NEW await,
         RefusalSettles(r, await) \/ AskSettles(r)
  PROVE  Freed'
<1>1. rx' = rx /\ (Smooth \/ LateFault)
  BY DEF RefusalSettles, AskSettles
<1>2. CASE eng' = eng
  BY <1>1, <1>2, SameTidy, FreedStep DEF Moves
<1>3. CASE eng' = MarkFailed(eng, r[1])
  <2>1. eng \in Engine /\ eng' \in Engine /\ r[1] \in Piece
    BY InvFacts, RequestPieceType DEF Inv, Good
  <2>2. eng'.lease = eng.lease /\ eng'.issued = eng.issued /\ eng'.open = eng.open /\ eng'.tomb = eng.tomb
    BY <1>3, <2>1, MarkFailedFields
  <2>3. Settled(eng, eng')
    BY <2>2 DEF Settled
  <2>4. Carried(eng, eng') /\ Tidy(eng') /\ OnlyNew(eng, eng')
    BY <2>1, <2>2, <2>3, SettledCarried, FewerLeasesTidy DEF Freed
  <2> QED BY <1>1, <2>4, FreedStep DEF Moves
<1>4. CASE eng' \in Retry(eng, r, await = "refusing" /\ r \notin eng.plain)
  <2>1. (await = "refusing" /\ r \notin eng.plain) \in BOOLEAN
    OBVIOUS
  <2>2. Carried(eng, eng') /\ Tidy(eng') /\ OnlyNew(eng, eng')
    BY <1>4, <2>1, Spent, RetryAllCarried, RetryAllTidy DEF Freed
  <2> QED BY <1>1, <2>2, FreedStep DEF Moves
<1> QED BY <1>2, <1>3, <1>4 DEF RefusalSettles, AskSettles

LEMMA VerifyFailsFreed ==
  ASSUME Inv, Inv', Owned, Freed, NEW r \in Request, VerifyFails(r)
  PROVE  Freed'
<1>1. rx[r] # "none" /\ r[1] \in Piece /\ eng \in Engine /\ Troubled
  BY InvFacts, RequestPieceType DEF VerifyFails
<1>2. CASE Active(eng, r)
  <2> DEFINE a == Release(eng, r)
  <2>1. eng' = MarkFailed(a, r[1]) /\ rx' = [rx EXCEPT ![r] = "deleting"]
    BY <1>2 DEF VerifyFails
  <2>2. /\ a \in Engine /\ a.open = eng.open /\ a.issued = eng.issued /\ a.tomb = eng.tomb
        /\ \A p \in Piece : a.lease[p] = IF p = r[1] /\ eng.lease[p] = r THEN NoLease ELSE eng.lease[p]
    BY <1>1, ReleaseFields
  <2> HIDE DEF a
  <2>3. /\ eng' \in Engine /\ eng'.lease = a.lease /\ eng'.issued = a.issued
        /\ eng'.open = a.open /\ eng'.tomb = a.tomb
    BY <1>1, <2>1, <2>2, MarkFailedFields
  <2>4. Settled(eng, eng')
    BY <2>2, <2>3 DEF Settled
  <2>5. Carried(eng, eng') /\ Tidy(eng') /\ OnlyNew(eng, eng')
    BY <1>1, <2>2, <2>3, <2>4, SettledCarried, FewerLeasesTidy DEF Freed
  <2>6. \A p \in Piece : eng'.lease[p] # r
    BY <2>2, <2>3, InvFacts, NoLeaseIsNoRequest
  <2>7. Moves
    BY <1>1, <2>1, <2>6, OneMoves
  <2> QED BY <1>1, <2>5, <2>7, FreedStep
<1>3. CASE ~Active(eng, r)
  <2>1. eng' = eng /\ rx' = [rx EXCEPT ![r] = "rejecting"] /\ r \notin eng.open
    BY <1>3 DEF VerifyFails, Active, Freed, Tidy
  <2>2. Moves
    BY <1>1, <2>1, OneMoves
  <2> QED BY <1>1, <2>1, <2>2, SameTidy, FreedStep
<1> QED BY <1>2, <1>3

(* A failing send or adapter.                                               *)
LEMMA FaultFreed ==
  ASSUME Inv, Inv', Owned, Freed, Fault, NEW r \in Request, rx[r] # "none",
         eng' = eng \/ eng' = MarkFailed(eng, r[1]),
         NEW s \in {"rejecting", "done"}, rx' = [rx EXCEPT ![r] = s]
  PROVE  Freed'
<1>1. r[1] \in Piece /\ eng \in Engine /\ eng' \in Engine /\ faults' # 0
  BY InvFacts, RequestPieceType, Numbers DEF Inv, Good, Rest, Fault, LateFault
<1>2. eng'.lease = eng.lease /\ eng'.issued = eng.issued /\ eng'.open = eng.open /\ eng'.tomb = eng.tomb
  <2>1. CASE eng' = eng
    BY <2>1
  <2>2. CASE eng' = MarkFailed(eng, r[1])
    BY <1>1, <2>2, MarkFailedFields
  <2> QED BY <2>1, <2>2
<1>3. Settled(eng, eng')
  BY <1>2 DEF Settled
<1>4. Carried(eng, eng') /\ Tidy(eng') /\ OnlyNew(eng, eng')
  BY <1>1, <1>2, <1>3, SettledCarried, FewerLeasesTidy DEF Freed
<1>5. Moves
  BY <1>1, OneMoves
<1> QED BY <1>4, <1>5, FreedStep

LEMMA DeleteFreed ==
  ASSUME Inv, Inv', Owned, Freed, NEW r \in Request, DeletePieceSettles(r)
  PROVE  Freed'
<1>1. CASE Fault /\ eng' = MarkFailed(eng, r[1]) /\ rx' = [rx EXCEPT ![r] = "done"]
  BY <1>1, FaultFreed DEF DeletePieceSettles
<1>2. CASE Smooth /\ eng' = eng /\ rx' = [rx EXCEPT ![r] = "rejectSaving"]
  <2>1. rx[r] = "deleting" /\ \A p \in Piece : eng'.lease[p] # r
    BY <1>2 DEF DeletePieceSettles, Freed
  <2>2. Moves
    BY <1>2, <2>1, OneMoves
  <2> QED BY <1>2, <2>2, SameTidy, FreedStep
<1> QED BY <1>1, <1>2 DEF DeletePieceSettles

LEMMA RejectSavedFreed ==
  ASSUME Inv, Inv', Owned, Freed, NEW r \in Request, RejectSaved(r)
  PROVE  Freed'
<1>1. /\ rx[r] = "rejectSaving" /\ eng' = Deleted(eng, r) /\ rx' = [rx EXCEPT ![r] = "rejecting"]
      /\ Smooth /\ eng \in Engine /\ eng' \in Engine
  BY InvFacts DEF RejectSaved, Inv, Good
<1>2. \A p \in Piece : eng.lease[p] # r
  BY <1>1 DEF Freed
<1>3. Tidy(eng') /\ OnlyNew(eng, eng')
  BY <1>1, <1>2, DeletedTidy DEF Freed
<1>4. eng'.lease = eng.lease /\ eng'.issued = eng.issued /\ r \notin eng'.open
  BY <1>1, DeletedFields
<1>5. Settled(eng, eng')
  BY <1>4 DEF Settled
<1>6. Carried(eng, eng') /\ Moves
  BY <1>1, <1>4, <1>5, SettledCarried, OneMoves
<1> QED BY <1>1, <1>3, <1>6, FreedStep

LEMMA WriteFreed ==
  ASSUME Inv, Inv', Owned, Freed, NEW r \in Request, WritePieceSettles(r)
  PROVE  Freed'
<1>1. rx[r] = "writing" /\ r[1] \in Piece /\ eng \in Engine /\ eng' \in Engine
  BY InvFacts, RequestPieceType DEF WritePieceSettles, Inv, Good
<1>2. CASE Fault /\ eng' = MarkFailed(eng, r[1]) /\ rx' = [rx EXCEPT ![r] = "rejecting"]
  BY <1>1, <1>2, FaultFreed
<1>3. CASE Smooth /\ eng' = Release([eng EXCEPT !.status[r[1]] = "verified"], r)
           /\ rx' = [rx EXCEPT ![r] = "saving"]
  <2> DEFINE v == [eng EXCEPT !.status[r[1]] = "verified"]
  <2>1. /\ v \in Engine /\ v.lease = eng.lease /\ v.issued = eng.issued
        /\ v.open = eng.open /\ v.tomb = eng.tomb
    BY <1>1 DEF Engine
  <2>2. eng' = Release(v, r)
    BY <1>3
  <2> HIDE DEF v
  <2>3. /\ eng'.issued = v.issued /\ eng'.open = v.open /\ eng'.tomb = v.tomb
        /\ \A p \in Piece : eng'.lease[p] = IF p = r[1] /\ v.lease[p] = r THEN NoLease ELSE v.lease[p]
    BY <2>1, <2>2, ReleaseFields
  <2>4. Settled(eng, eng')
    BY <2>1, <2>3 DEF Settled
  <2>5. Carried(eng, eng') /\ Tidy(eng') /\ OnlyNew(eng, eng')
    BY <1>1, <2>1, <2>3, <2>4, SettledCarried, FewerLeasesTidy DEF Freed
  <2>6. Moves
    BY <1>1, <1>3, OneMoves
  <2> QED BY <1>3, <2>5, <2>6, FreedStep
<1> QED BY <1>2, <1>3 DEF WritePieceSettles

LEMMA SaveFreed ==
  ASSUME Inv, Inv', Owned, Freed, NEW r \in Request, SaveSettles(r)
  PROVE  Freed'
<1>1. rx[r] = "saving" /\ eng \in Engine /\ eng' \in Engine
  BY InvFacts DEF SaveSettles, Inv, Good
<1>2. CASE Fault /\ eng' = MarkFailed(eng, r[1]) /\ rx' = [rx EXCEPT ![r] = "rejecting"]
  BY <1>1, <1>2, FaultFreed
<1>3. CASE Smooth /\ eng' = CancelCompetingGridRequests(Deleted(eng, r), r)
           /\ rx' = [rx EXCEPT ![r] = "announcing"]
  <2> DEFINE d == Deleted(eng, r)
  <2>1. \A p \in Piece : eng.lease[p] # r
    BY <1>1, NoLeaseIsNoRequest DEF Owned
  <2>2. d \in Engine /\ d.open = eng.open \ {r} /\ d.issued = eng.issued /\ d.lease = eng.lease
    BY <1>1, DeletedFields
  <2>3. Tidy(d) /\ Good(d, due, trouble + faults)
    BY <1>1, <2>1, Spent, DeletedTidy, DeletedGood DEF Freed
  <2>4. eng' = CancelCompetingGridRequests(d, r)
    BY <1>3
  <2> HIDE DEF d
  <2>5. Tidy(eng') /\ eng'.open \subseteq d.open /\ eng'.issued = d.issued /\ eng'.lease = d.lease
    BY <2>2, <2>3, <2>4, CancelTidy, CancelFields
  <2>6. OnlyNew(eng, eng') /\ Settled(eng, eng') /\ r \notin eng'.open
    BY <2>2, <2>5 DEF OnlyNew, Settled
  <2>7. Carried(eng, eng') /\ Moves
    BY <1>1, <1>3, <2>6, SettledCarried, OneMoves
  <2> QED BY <1>3, <2>5, <2>6, <2>7, FreedStep
<1> QED BY <1>2, <1>3 DEF SaveSettles

LEMMA EndsFreed ==
  ASSUME Inv, Inv', Owned, Freed, NEW r \in Request, BroadcastSettles(r) \/ ResponseSettles(r)
  PROVE  Freed'
<1>1. /\ rx[r] \in {"announcing", "rejecting"} /\ rx' = [rx EXCEPT ![r] = "done"]
      /\ r[1] \in Piece /\ r[2] \in Nat /\ r[2] <= eng.issued[r[1]] /\ eng.issued[r[1]] \in Nat
  <2>1. rx[r] \in {"announcing", "rejecting"} /\ rx' = [rx EXCEPT ![r] = "done"]
    BY DEF BroadcastSettles, ResponseSettles
  <2>2. r[1] \in Piece /\ r[2] \in Nat
    BY DEF Request
  <2>3. r[2] <= eng.issued[r[1]] /\ eng.issued[r[1]] \in Nat
    BY <2>1, <2>2, InvFacts DEF Owned, Engine
  <2> QED BY <2>1, <2>2, <2>3
<1>2. CASE Fault /\ (eng' = eng \/ eng' = MarkFailed(eng, r[1]))
  BY <1>1, <1>2, FaultFreed
<1>3. CASE Smooth /\ (eng' = eng \/ eng' \in RetryGrid(eng, r[1]))
  <2>1. Carried(eng, eng') /\ Tidy(eng') /\ OnlyNew(eng, eng')
    <3>1. CASE eng' = eng
      BY <3>1, SameTidy
    <3>2. CASE eng' \in RetryGrid(eng, r[1])
      BY <1>1, <3>2, Spent, RetryTidy, RetryCarried, GridAssumption DEF Freed
    <3> QED BY <1>3, <3>1, <3>2
  <2>2. faults' = 0 => r \notin eng'.open
    <3>1. faults' = 0 => r \notin eng.open
      BY <1>1, <1>3 DEF Freed, Smooth
    <3> QED BY <1>1, <2>1, <3>1 DEF OnlyNew
  <2>3. Moves
    BY <1>1, <2>2, OneMoves
  <2> QED BY <1>3, <2>1, <2>3, FreedStep
<1> QED BY <1>2, <1>3 DEF BroadcastSettles, ResponseSettles

LEMMA FreedNext == Inv /\ Inv' /\ Owned /\ Freed /\ [Next]_vars => Freed'
<1> SUFFICES ASSUME Inv, Inv', Owned, Freed, [Next]_vars PROVE Freed'
  OBVIOUS
<1>1. CASE UNCHANGED vars
  BY <1>1 DEF vars, Freed
<1>6. CASE Chunks
  BY <1>6, IdleFreed, ChunkFreed, AsideFreed, PendingType DEF Chunks, StrayHeader, MalformedFrame
<1>2. CASE Driver \/ ProgressTimeout
  BY <1>2, IdleFreed, SchedulingFreed DEF Driver
<1>3. ASSUME NEW q \in Peers, UpdatePeerPieceMap(q) PROVE Freed'
  BY <1>3, IdleFreed
<1>4. ASSUME NEW r \in Request, LeaseFallsDue(r) \/ Answer(r) \/ ProviderRejects(r) \/ VerifyFails(r)
      PROVE  Freed'
  BY <1>4, IdleFreed, RejectsFreed, VerifyFailsFreed
<1>5. ASSUME NEW r \in Request, Pipeline(r) PROVE Freed'
  BY <1>5, IdleFreed, DeleteFreed, RejectSavedFreed, WriteFreed, SaveFreed, EndsFreed DEF Pipeline
<1> QED BY <1>1, <1>2, <1>3, <1>4, <1>5, <1>6 DEF Next

(* Whatever order answers, rejections, expiries and cancellations come in:   *)
(* a lease does not outlive its request, unless a rival's verified answer    *)
(* cancelled it (cancelCompetingGridRequests), and while no adapter fails   *)
(* every answer that has been dealt with has given its slot of              *)
(* outstandingRequests back.                                                *)
THEOREM ClaimsHold == Spec => []ClaimsAreLive
<1>1. Init => Inv /\ Owned /\ Freed
  <2>1. Init => Owned /\ Freed
    BY DEF Init, Owned, Freed, Tidy
  <2> QED BY <2>1, InitInv
<1>2. Inv /\ Owned /\ Freed /\ [Next]_vars => (Inv /\ Owned /\ Freed)'
  BY NextInv, RivalStep, FreedNext
<1>3. Inv /\ Freed => ClaimsAreLive
  BY DEF Freed, Tidy, ClaimsAreLive, LeaseGuardsLiveRequest, SlotsAreFreed
<1> QED BY <1>1, <1>2, <1>3, PTL DEF Spec

=============================================================================
